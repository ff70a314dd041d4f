------------------------- MODULE QueryPrinterProofs -------------------------
(***************************************************************************)
(* The output of a query is whole: every set of queries, of threads, of    *)
(* tiles and their results, every size of features, chunks, blocks and     *)
(* queues.                                                                 *)
(*                                                                         *)
(* The argument keeps books. Each batch on its way carries a lot, the      *)
(* features whose text it has, and an account, the features that its       *)
(* count stands for; both are drawn from the tiles in the order of their   *)
(* results. What was printed and the lots of the batches in the queue      *)
(* have every feature at most once, and are all that the threads have      *)
(* submitted; so it is for the accounts, and for the tiles that ended.     *)
(* When as many tiles have ended as there are, each thread has submitted   *)
(* all of its tile, and nothing is in the queue.                           *)
(*                                                                         *)
(* A text takes two ways to the output: into chunks, and from chunks. That *)
(* it arrives is shown for each format.                                    *)
(*                                                                         *)
(* An OSM file is collected, sorted and encoded. What is collected is the  *)
(* least set that is closed; what is read of the blocks of a PBF file is   *)
(* what was encoded, for a block keeps the strings of its features, with   *)
(* their numbers, as long as features are added to it.                     *)
(***************************************************************************)
EXTENDS QueryPrinter, DataTheorems

-----------------------------------------------------------------------------
(* Texts and chunks                                                        *)

(* The formats whose features are printed into chunks, and those whose     *)
(* output has the text of the features.                                    *)
TextFormats == {"geojson", "geojsonl", "csv", "list", "wkt"}
Formats == TextFormats \union {"brief"}
Marks == {"{", "}", ",", "columns", "newline", "empty", "(", ")"}
(* What texts are made of, as the library and the formats have it. The     *)
(* features that have a text are those whose size is known.                *)
Tokens(k) == Seq(Marks \union Nat \union DOMAIN k.lib)
Sized(k) == {f \in DOMAIN k.lib : f \in DOMAIN k.sizes /\ k.sizes[f] \in Nat \ {0}}

(* The text of one feature in the format of a query, and of several.       *)
TextOf(k, f) ==
  IF k.format = "brief" THEN Text(f, k.sizes[f]) ELSE Printed(k.format, f, k.sizes[f])
Texts(k, s) == FlattenSeq([i \in 1..Len(s) |-> TextOf(k, s[i])])

(* A mark is a text of one token.                                          *)
LEMMA MarkType ==
  ASSUME NEW k, NEW m, m \in Marks \/ m \in Nat
  PROVE  Mark(m) \in Seq(Tokens(k)) /\ Len(Mark(m)) = 1
<1>0. m \in Marks \union Nat \union DOMAIN k.lib
  BY Zenon
<1>1. <<m>> \in Tokens(k)
  BY <1>0 DEF Tokens
<1> HIDE DEF Tokens
<1> QED BY <1>1 DEF Mark

(* The text of a feature is as long as its size says.                      *)
LEMMA TextType ==
  ASSUME NEW k, NEW f \in Sized(k)
  PROVE  Text(f, k.sizes[f]) \in Seq(Tokens(k)) /\ Len(Text(f, k.sizes[f])) = k.sizes[f]
<1>1. k.sizes[f] \in Nat \ {0}
  BY DEF Sized
<1>2. ASSUME NEW i \in 1..k.sizes[f] PROVE <<f, i>> \in Tokens(k)
  <2>1. f \in DOMAIN k.lib /\ i \in Nat
    BY <1>1 DEF Sized
  <2> QED BY <2>1 DEF Tokens
<1> HIDE DEF Tokens
<1>3. Text(f, k.sizes[f]) \in [1..k.sizes[f] -> Tokens(k)]
  BY <1>2 DEF Text
<1> QED BY <1>1, <1>3

(* With a separator it is at least two tokens long: no text is taken for a *)
(* separator alone.                                                        *)
LEMMA TextOfType ==
  ASSUME NEW k, NEW f \in Sized(k), k.format \in Formats
  PROVE  TextOf(k, f) \in Seq(Tokens(k)) /\ (k.format \in TextFormats => Len(TextOf(k, f)) >= 2)
<1>1. Text(f, k.sizes[f]) \in Seq(Tokens(k)) /\ Len(Text(f, k.sizes[f])) >= 1
  <2>1. k.sizes[f] >= 1
    BY DEF Sized
  <2> QED BY <2>1, TextType
<1>2. /\ Mark(",") \in Seq(Tokens(k)) /\ Len(Mark(",")) = 1
      /\ Mark("newline") \in Seq(Tokens(k)) /\ Len(Mark("newline")) = 1
  <2>1. "," \in Marks /\ "newline" \in Marks
    BY Zenon DEF Marks
  <2> QED BY <2>1, MarkType
<1>3. CASE k.format \in {"geojson", "wkt"}
  <2>1. TextOf(k, f) = Mark(",") \o Text(f, k.sizes[f])
    BY <1>3 DEF TextOf, Printed
  <2>2. TextOf(k, f) \in Seq(Tokens(k)) /\ Len(TextOf(k, f)) = Len(Mark(",")) + Len(Text(f, k.sizes[f]))
    BY <1>1, <1>2, <2>1, ConcatProperties, ZenonT(30)
  <2>3. Len(Text(f, k.sizes[f])) \in Nat
    BY <1>1, LenProperties
  <2>4. Len(TextOf(k, f)) = 1 + Len(Text(f, k.sizes[f]))
    BY <1>2, <2>2
  <2>5. Len(TextOf(k, f)) >= 2
    BY <1>1, <2>3, <2>4
  <2> QED BY <2>2, <2>5
<1>4. CASE k.format \in {"geojsonl", "csv", "list"}
  <2>1. TextOf(k, f) = Text(f, k.sizes[f]) \o Mark("newline")
    BY <1>4 DEF TextOf, Printed
  <2>2. TextOf(k, f) \in Seq(Tokens(k)) /\ Len(TextOf(k, f)) = Len(Text(f, k.sizes[f])) + Len(Mark("newline"))
    BY <1>1, <1>2, <2>1, ConcatProperties
  <2>3. Len(Text(f, k.sizes[f])) \in Nat
    BY <1>1, LenProperties
  <2>4. Len(TextOf(k, f)) = Len(Text(f, k.sizes[f])) + 1
    BY <1>2, <2>2
  <2>5. Len(TextOf(k, f)) >= 2
    BY <1>1, <2>3, <2>4
  <2> QED BY <2>2, <2>5
<1>5. CASE k.format = "brief"
  <2>1. TextOf(k, f) = Text(f, k.sizes[f]) /\ k.format \notin TextFormats
    BY <1>5 DEF TextOf, TextFormats
  <2> QED BY <1>1, <2>1
<1> QED BY <1>3, <1>4, <1>5 DEF Formats, TextFormats

(* The texts of features in an order are a text, ...                       *)
LEMMA TextsType ==
  ASSUME NEW k, k.format \in Formats, NEW s \in Seq(Sized(k))
  PROVE  /\ [i \in 1..Len(s) |-> TextOf(k, s[i])] \in Seq(Seq(Tokens(k)))
         /\ Texts(k, s) \in Seq(Tokens(k))
<1>1. [i \in 1..Len(s) |-> TextOf(k, s[i])] \in Seq(Seq(Tokens(k)))
  <2>1. Len(s) \in Nat
    BY LenProperties
  <2>2. \A i \in 1..Len(s) : TextOf(k, s[i]) \in Seq(Tokens(k))
    BY ElementOfSeq, TextOfType
  <2>3. [i \in 1..Len(s) |-> TextOf(k, s[i])] \in [1..Len(s) -> Seq(Tokens(k))]
    BY <2>2
  <2> QED BY <2>1, <2>3
<1> QED BY <1>1, FlattenType DEF Texts

(* ... empty without features, ...                                         *)
LEMMA TextsEmpty ==
  ASSUME NEW k
  PROVE  Texts(k, <<>>) = <<>>
<1>1. [i \in 1..Len(<<>>) |-> TextOf(k, <<>>[i])] = <<>>
  OBVIOUS
<1> QED BY <1>1, FlattenEmpty DEF Texts

(* ... the one of two lists follows from theirs, ...                       *)
LEMMA TextsConcat ==
  ASSUME NEW k, k.format \in Formats, NEW s \in Seq(Sized(k)), NEW t \in Seq(Sized(k))
  PROVE  Texts(k, s \o t) = Texts(k, s) \o Texts(k, t)
<1> DEFINE m(u) == [i \in 1..Len(u) |-> TextOf(k, u[i])]
<1>1. /\ s \o t \in Seq(Sized(k)) /\ Len(s \o t) = Len(s) + Len(t) /\ Len(s) \in Nat /\ Len(t) \in Nat
      /\ \A i \in 1..Len(s) + Len(t) : (s \o t)[i] = IF i <= Len(s) THEN s[i] ELSE t[i - Len(s)]
  BY ConcatProperties, LenProperties
<1>2. m(s \o t) \in Seq(Seq(Tokens(k))) /\ m(s) \in Seq(Seq(Tokens(k))) /\ m(t) \in Seq(Seq(Tokens(k)))
  BY <1>1, TextsType
<1>3. /\ m(s) \o m(t) \in Seq(Seq(Tokens(k))) /\ Len(m(s)) = Len(s) /\ Len(m(t)) = Len(t)
      /\ Len(m(s \o t)) = Len(s) + Len(t) /\ Len(m(s) \o m(t)) = Len(s) + Len(t)
      /\ \A i \in 1..Len(s) + Len(t) : (m(s) \o m(t))[i] = IF i <= Len(s) THEN m(s)[i] ELSE m(t)[i - Len(s)]
  <2>1. Len(m(s)) = Len(s) /\ Len(m(t)) = Len(t) /\ Len(m(s \o t)) = Len(s) + Len(t)
    <3>1. DOMAIN m(s) = 1..Len(s) /\ DOMAIN m(t) = 1..Len(t) /\ DOMAIN m(s \o t) = 1..Len(s \o t)
      OBVIOUS
    <3> HIDE DEF m
    <3> QED BY <1>1, <1>2, <3>1, LenProperties
  <2> HIDE DEF m
  <2>2. /\ m(s) \o m(t) \in Seq(Seq(Tokens(k))) /\ Len(m(s) \o m(t)) = Len(m(s)) + Len(m(t))
        /\ \A i \in 1..Len(m(s)) + Len(m(t)) :
             (m(s) \o m(t))[i] = IF i <= Len(m(s)) THEN m(s)[i] ELSE m(t)[i - Len(m(s))]
    BY <1>2, ConcatProperties
  <2> QED BY <2>1, <2>2
<1>4. ASSUME NEW i \in 1..Len(s) + Len(t) PROVE m(s \o t)[i] = (m(s) \o m(t))[i]
  <2>1. m(s \o t)[i] = TextOf(k, (s \o t)[i])
    BY <1>1
  <2>2. CASE i <= Len(s)
    <3>1. (s \o t)[i] = s[i] /\ (m(s) \o m(t))[i] = m(s)[i]
      BY <1>1, <1>3, <2>2
    <3>2. i \in 1..Len(s)
      BY <1>1, <2>2
    <3>3. m(s)[i] = TextOf(k, s[i])
      BY <3>2
    <3> HIDE DEF m
    <3> QED BY <2>1, <3>1, <3>3
  <2>3. CASE ~(i <= Len(s))
    <3>1. (s \o t)[i] = t[i - Len(s)] /\ (m(s) \o m(t))[i] = m(t)[i - Len(s)]
      BY <1>1, <1>3, <2>3
    <3>2. i - Len(s) \in 1..Len(t)
      BY <1>1, <2>3
    <3>3. m(t)[i - Len(s)] = TextOf(k, t[i - Len(s)])
      BY <3>2
    <3> HIDE DEF m
    <3> QED BY <2>1, <3>1, <3>3
  <2> QED BY <2>2, <2>3
<1>5. m(s \o t) = m(s) \o m(t)
  <2> HIDE DEF m
  <2> QED BY <1>2, <1>3, <1>4, SeqEqual
<1>6. FlattenSeq(m(s) \o m(t)) = FlattenSeq(m(s)) \o FlattenSeq(m(t))
  <2> HIDE DEF m
  <2> QED BY <1>2, FlattenConcat
<1> QED BY <1>5, <1>6 DEF Texts

(* ... that of one feature is its text, ...                                *)
LEMMA TextsOne ==
  ASSUME NEW k, k.format \in Formats, NEW f \in Sized(k)
  PROVE  Texts(k, <<f>>) = TextOf(k, f)
<1>1. TextOf(k, f) \in Seq(Tokens(k))
  BY TextOfType
<1>2. [i \in 1..Len(<<f>>) |-> TextOf(k, <<f>>[i])] = <<TextOf(k, f)>>
  OBVIOUS
<1> QED BY <1>1, <1>2, FlattenOne DEF Texts

(* ... and that of any feature has two tokens.                             *)
LEMMA TextsLong ==
  ASSUME NEW k, k.format \in TextFormats, NEW s \in Seq(Sized(k)), s # <<>>
  PROVE  Texts(k, s) \in Seq(Tokens(k)) /\ Len(Texts(k, s)) \in Nat /\ Len(Texts(k, s)) >= 2
<1>0. k.format \in Formats
  BY DEF Formats
<1>1. PICK t \in Seq(Sized(k)), f \in Sized(k) : s = Append(t, f)
  BY SequenceEmptyOrAppend
<1>2. s = t \o <<f>> /\ <<f>> \in Seq(Sized(k))
  BY <1>1, AppendIsConcat
<1>3. Texts(k, s) = Texts(k, t) \o TextOf(k, f)
  BY <1>0, <1>1, <1>2, TextsConcat, TextsOne
<1>4. Texts(k, t) \in Seq(Tokens(k)) /\ TextOf(k, f) \in Seq(Tokens(k)) /\ Len(TextOf(k, f)) >= 2
  BY <1>0, TextsType, TextOfType
<1>5. Len(Texts(k, s)) = Len(Texts(k, t)) + Len(TextOf(k, f)) /\ Texts(k, s) \in Seq(Tokens(k))
  BY <1>3, <1>4, ConcatProperties
<1>6. Len(Texts(k, t)) \in Nat /\ Len(TextOf(k, f)) \in Nat
  BY <1>4, LenProperties
<1> QED BY <1>4, <1>5, <1>6

(* All chunks of a chain but the last are full.                            *)
FullFront(c) == \A i \in 1..Len(c) - 1 : Len(c[i]) = ChunkSize
(* Chains of chunks, and the buffers that hold them between two features.  *)
Chains(k) == {c \in Seq(Seq(Tokens(k))) : FullFront(c)}

(* The chunks of a text are the text, and all but the last are full.       *)
LEMMA ChunksWhole ==
  ASSUME NEW S, NEW t \in Seq(S)
  PROVE  /\ Chunks(t) \in Seq(Seq(S)) /\ Chunks(t) # <<>>
         /\ FlattenSeq(Chunks(t)) = t /\ FullFront(Chunks(t))
<1>0. Len(t) \in Nat /\ ChunkSize \in Nat \ {0}
  BY LenProperties, SizesAssumption
<1> PICK n \in Nat : n = Len(t)
  BY <1>0
<1> PICK m : m = n \div ChunkSize
  OBVIOUS
<1>1. m \in Nat /\ m * ChunkSize <= n /\ n < m * ChunkSize + ChunkSize
  BY <1>0, DivFacts
<1> DEFINE End(j) == IF j * ChunkSize < n THEN j * ChunkSize ELSE n
<1>2. ASSUME NEW j \in 0..m PROVE End(j) = j * ChunkSize /\ j * ChunkSize \in 0..n
  <2>1. j * ChunkSize \in Nat /\ j * ChunkSize <= m * ChunkSize /\ m * ChunkSize \in Nat
    BY <1>0, <1>1, Multiples
  <2> QED BY <1>1, <2>1
<1>3. End(m + 1) = n
  <2>1. (m + 1) * ChunkSize = m * ChunkSize + ChunkSize /\ m * ChunkSize \in Nat
    BY <1>0, <1>1, Multiples
  <2> QED BY <1>0, <1>1, <2>1
<1> PICK ch : ch = Chunks(t)
  OBVIOUS
<1>4. ch = [j \in 1..(m + 1) |-> SubSeq(t, (j - 1) * ChunkSize + 1, End(j))]
  BY DEF Chunks
<1>5. ASSUME NEW j \in 1..(m + 1)
      PROVE  /\ (j - 1) * ChunkSize \in 0..End(j) /\ End(j) \in 0..n /\ End(j - 1) = (j - 1) * ChunkSize
             /\ j <= m => End(j) = (j - 1) * ChunkSize + ChunkSize
  <2>1. j - 1 \in 0..m /\ j \in Nat /\ j - 1 \in Nat /\ (j - 1) + 1 = j
    BY <1>1
  <2>2. End(j - 1) = (j - 1) * ChunkSize /\ (j - 1) * ChunkSize \in 0..n
    BY <1>2, <2>1
  <2>3. j * ChunkSize = (j - 1) * ChunkSize + ChunkSize
    BY <1>0, <2>1, Multiples
  <2>4. CASE j <= m
    <3>1. j \in 0..m
      BY <2>1, <2>4
    <3>2. End(j) = j * ChunkSize /\ j * ChunkSize \in 0..n
      BY <1>2, <3>1
    <3> HIDE DEF End
    <3> QED BY <1>0, <2>2, <2>3, <3>2
  <2>5. CASE ~(j <= m)
    <3>1. j = m + 1
      BY <1>1, <2>5
    <3>2. End(j) = n
      BY <1>3, <3>1
    <3> HIDE DEF End
    <3> QED BY <2>2, <2>5, <3>2
  <2> QED BY <2>4, <2>5
<1> HIDE DEF End
<1>6. ASSUME NEW j \in 1..(m + 1)
      PROVE  ch[j] \in Seq(S) /\ (j <= m => Len(ch[j]) = ChunkSize)
  <2> PICK a : a = (j - 1) * ChunkSize
    OBVIOUS
  <2> PICK e : e = End(j)
    OBVIOUS
  <2>1. a \in 0..e /\ e \in 0..n /\ (j <= m => e = a + ChunkSize)
    BY <1>5
  <2>2. ch[j] = SubSeq(t, a + 1, e)
    BY <1>4
  <2>3. a + 1 \in Int /\ e \in Int /\ \A i \in (a + 1)..e : t[i] \in S
    <3>1. a + 1 \in Int /\ e \in Int /\ \A i \in (a + 1)..e : i \in 1..Len(t)
      BY <2>1
    <3> QED BY <3>1, ElementOfSeq
  <2>4. SubSeq(t, a + 1, e) \in Seq(S) /\ Len(SubSeq(t, a + 1, e)) = IF a + 1 <= e THEN e - (a + 1) + 1 ELSE 0
    BY <2>3, SubSeqProperties
  <2>5. j <= m => (IF a + 1 <= e THEN e - (a + 1) + 1 ELSE 0) = ChunkSize
    BY <1>0, <2>1
  <2> QED BY <2>2, <2>4, <2>5
<1>7. ch \in Seq(Seq(S)) /\ Len(ch) = m + 1 /\ ch # <<>>
  <2>1. ch \in [1..(m + 1) -> Seq(S)]
    BY <1>4, <1>6
  <2>2. m + 1 \in Nat
    BY <1>1
  <2>3. ch \in Seq(Seq(S)) /\ Len(ch) = m + 1
    BY <2>1, <2>2
  <2>4. Len(ch) # 0
    BY <1>1, <2>3
  <2> QED BY <2>3, <2>4
<1>8. FullFront(ch)
  BY <1>1, <1>6, <1>7 DEF FullFront
<1> DEFINE P == {j \in 0..(m + 1) : FlattenSeq(SubSeq(ch, 1, j)) = SubSeq(t, 1, End(j))}
<1>9. 0 \in P
  <2>1. End(0) = 0
    <3>1. 0 * ChunkSize = 0 /\ 0 \in 0..m
      BY <1>0, <1>1
    <3> QED BY <1>2, <3>1
  <2>2. SubSeq(ch, 1, 0) = <<>> /\ SubSeq(t, 1, 0) = <<>>
    BY SubSeqEmpty
  <2>3. 0 \in 0..(m + 1)
    BY <1>1
  <2> QED BY <2>1, <2>2, <2>3, FlattenEmpty
<1>10. ASSUME NEW j \in 1..(m + 1), j - 1 \in P PROVE j \in P
  <2>1. j \in 1..Len(ch)
    BY <1>7
  <2>2. FlattenSeq(SubSeq(ch, 1, j)) = FlattenSeq(SubSeq(ch, 1, j - 1)) \o ch[j]
    BY <1>7, <2>1, FlattenPrefix
  <2>3. FlattenSeq(SubSeq(ch, 1, j - 1)) = SubSeq(t, 1, End(j - 1))
    BY <1>10
  <2> PICK a : a = (j - 1) * ChunkSize
    OBVIOUS
  <2> PICK e : e = End(j)
    OBVIOUS
  <2>4. a \in 0..e /\ e \in 0..n /\ End(j - 1) = a
    BY <1>5
  <2>5. ch[j] = SubSeq(t, a + 1, e)
    BY <1>4
  <2>6. 1 \in 1..Len(t) + 1 /\ a \in (1 - 1)..Len(t) /\ e \in a..Len(t)
    BY <2>4
  <2>7. SubSeq(t, 1, a) \o SubSeq(t, a + 1, e) = SubSeq(t, 1, e)
    BY <2>6, ConcatAdjacentSubSeq
  <2>8. FlattenSeq(SubSeq(ch, 1, j)) = SubSeq(t, 1, e)
    BY <2>2, <2>3, <2>4, <2>5, <2>7
  <2>9. j \in 0..(m + 1)
    BY <1>1
  <2> QED BY <2>8, <2>9
<1>11. FlattenSeq(SubSeq(ch, 1, m + 1)) = SubSeq(t, 1, n)
  <2>1. m + 1 \in Nat /\ m + 1 \in 0..(m + 1)
    BY <1>1
  <2> HIDE DEF P
  <2>2. m + 1 \in P
    BY <1>9, <1>10, <2>1, IntervalInduction
  <2> QED BY <1>3, <2>2 DEF P
<1>12. SubSeq(ch, 1, m + 1) = ch /\ SubSeq(t, 1, n) = t
  BY <1>7, SubSeqFull
<1> QED BY <1>7, <1>8, <1>11, <1>12

(* A chain whose last chunk is replaced by other chunks.                   *)
LEMMA ReplaceLast ==
  ASSUME NEW k, NEW c \in Chains(k), c # <<>>, NEW d \in Chains(k), d # <<>>
  PROVE  /\ Front(c) \o d \in Chains(k) /\ Front(c) \o d # <<>>
         /\ FlattenSeq(Front(c) \o d) = FlattenSeq(Front(c)) \o FlattenSeq(d)
<1> DEFINE S == Seq(Tokens(k))
<1>1. c \in Seq(S) /\ d \in Seq(S) /\ FullFront(c) /\ FullFront(d)
  BY DEF Chains
<1> HIDE DEF S
<1>2. /\ Front(c) \in Seq(S) /\ Len(Front(c)) = Len(c) - 1 /\ Len(c) \in Nat \ {0}
      /\ \A i \in 1..Len(c) - 1 : Front(c)[i] = c[i]
  BY <1>1, FrontLast
<1>3. Len(d) \in Nat \ {0}
  BY <1>1, EmptySeq
<1> PICK f : f = Front(c)
  OBVIOUS
<1> PICK n \in Nat : n = Len(c) - 1
  BY <1>2
<1>4. /\ f \o d \in Seq(S) /\ Len(f \o d) = Len(f) + Len(d)
      /\ \A i \in 1..Len(f) + Len(d) : (f \o d)[i] = IF i <= Len(f) THEN f[i] ELSE d[i - Len(f)]
  BY <1>1, <1>2, ConcatProperties
<1>5. Len(f) = n /\ \A i \in 1..n : Len(f[i]) = ChunkSize
  BY <1>1, <1>2 DEF FullFront
<1>6. FullFront(f \o d)
  <2> SUFFICES ASSUME NEW i \in 1..Len(f \o d) - 1 PROVE Len((f \o d)[i]) = ChunkSize
    BY DEF FullFront
  <2>1. i \in 1..n + Len(d) /\ i < n + Len(d)
    BY <1>3, <1>4, <1>5
  <2>2. CASE i <= n
    <3>1. (f \o d)[i] = f[i] /\ i \in 1..n
      BY <1>4, <1>5, <2>1, <2>2
    <3> QED BY <1>5, <3>1
  <2>3. CASE ~(i <= n)
    <3>1. (f \o d)[i] = d[i - n] /\ i - n \in 1..Len(d) - 1
      BY <1>3, <1>4, <1>5, <2>1, <2>3
    <3> QED BY <1>1, <3>1 DEF FullFront
  <2> QED BY <2>2, <2>3
<1>7. FlattenSeq(f \o d) = FlattenSeq(f) \o FlattenSeq(d)
  BY <1>1, <1>2, FlattenConcat DEF S
<1>8. f \o d # <<>>
  <2>1. Len(f \o d) # 0
    BY <1>3, <1>4, <1>5
  <2> QED BY <2>1, EmptySeq
<1> QED BY <1>4, <1>6, <1>7, <1>8 DEF Chains, S

Buffers(k) == [chain : Chains(k) \ {<<>>}, start : Nat, count : Nat, sent : {<<>>}]

(* A buffer whose batches were submitted.                                  *)
Unsent(b) == [b EXCEPT !.sent = <<>>]
BufferOf(chain, start, count, sent) == [chain |-> chain, start |-> start, count |-> count, sent |-> sent]

(* The fields of a buffer.                                                 *)
LEMMA BufferFields ==
  ASSUME NEW c, NEW start, NEW n, NEW e
  PROVE  /\ BufferOf(c, start, n, e).chain = c /\ BufferOf(c, start, n, e).count = n
         /\ BufferOf(c, start, n, e).sent = e
         /\ Unsent(BufferOf(c, start, n, e)) = BufferOf(c, start, n, <<>>)
BY DEF BufferOf, Unsent

(* What makes a buffer.                                                    *)
LEMMA BufferIs ==
  ASSUME NEW k, NEW c \in Chains(k), c # <<>>, NEW start \in Nat, NEW n \in Nat
  PROVE  BufferOf(c, start, n, <<>>) \in Buffers(k)
BY DEF Buffers, BufferOf

(* A text is appended to what a buffer holds, or this is submitted and the *)
(* buffer holds the text.                                                  *)
Sent(b) == <<Batch(b.chain, <<>>, b.count, FALSE)>>
(* What writing a text does to a buffer: it becomes part of the text in    *)
(* its chunks; or the features that were there are submitted, as they are, *)
(* and the chunks begin with this text.                                    *)
WrittenAs(k, b, text, r) ==
  /\ Unsent(r) \in Buffers(k)
  /\ \/ /\ r.sent = <<>> /\ r.count = b.count
        /\ FlattenSeq(r.chain) = FlattenSeq(b.chain) \o text
     \/ /\ r.sent = Sent(b) /\ r.count = 0
        /\ FlattenSeq(r.chain) = text

(* The first of these, ...                                                 *)
LEMMA WrittenTo ==
  ASSUME NEW k, NEW b, NEW text, NEW c \in Chains(k), c # <<>>, NEW start \in Nat, b.count \in Nat,
         FlattenSeq(c) = FlattenSeq(b.chain) \o text,
         NEW r, r = BufferOf(c, start, b.count, <<>>)
  PROVE  WrittenAs(k, b, text, r)
<1>1. BufferOf(c, start, b.count, <<>>) \in Buffers(k)
  BY BufferIs
<1>2. r.chain = c /\ r.count = b.count /\ r.sent = <<>> /\ Unsent(r) = BufferOf(c, start, b.count, <<>>)
  BY BufferFields
<1> QED BY <1>1, <1>2 DEF WrittenAs

(* ... the second, ...                                                     *)
LEMMA WrittenNew ==
  ASSUME NEW k, NEW b, NEW text, NEW c \in Chains(k), c # <<>>, FlattenSeq(c) = text,
         NEW r, r = BufferOf(c, 0, 0, Sent(b))
  PROVE  WrittenAs(k, b, text, r)
<1>1. BufferOf(c, 0, 0, <<>>) \in Buffers(k)
  BY BufferIs
<1>2. /\ r.chain = c /\ r.count = 0 /\ r.sent = Sent(b)
      /\ Unsent(r) = BufferOf(c, 0, 0, <<>>)
  BY BufferFields
<1> QED BY <1>1, <1>2 DEF WrittenAs

(* ... and each write is one of them, whatever the text and the room.      *)
LEMMA WriteFeature ==
  ASSUME NEW k, NEW b \in Buffers(k), NEW text \in Seq(Tokens(k)), NEW r, r = Write(MarkFeatureStart(b), text)
  PROVE  WrittenAs(k, b, text, r)
<1> DEFINE S == Tokens(k)
           a == MarkFeatureStart(b)
           old == Last(b.chain)
<1>1. /\ b.chain \in Chains(k) /\ b.chain # <<>> /\ b.chain \in Seq(Seq(S)) /\ FullFront(b.chain)
      /\ b.count \in Nat /\ b.sent = <<>>
  BY DEF Buffers, Chains
<1> HIDE DEF S
<1>2. /\ Front(b.chain) \in Seq(Seq(S)) /\ old \in Seq(S) /\ b.chain = Append(Front(b.chain), old)
      /\ FlattenSeq(b.chain) = FlattenSeq(Front(b.chain)) \o old
  BY <1>1, FrontLast, FlattenFront
<1>3. /\ a.chain = b.chain /\ a.start = Len(old) /\ a.count = b.count /\ a.sent = <<>>
      /\ a = [chain |-> b.chain, start |-> Len(old), count |-> b.count, sent |-> <<>>]
  <2>1. PICK c, t, n : b = [chain |-> c, start |-> t, count |-> n, sent |-> <<>>]
    <3>1. b = [chain |-> b.chain, start |-> b.start, count |-> b.count, sent |-> b.sent]
      BY DEF Buffers
    <3> QED BY <1>1, <3>1
  <2>2. c = b.chain /\ n = b.count
    BY <2>1
  <2>3. MarkFeatureStart([chain |-> c, start |-> t, count |-> n, sent |-> <<>>])
          = [chain |-> c, start |-> Len(Last(c)), count |-> n, sent |-> <<>>]
    BY DEF MarkFeatureStart
  <2>4. a = [chain |-> b.chain, start |-> Len(old), count |-> b.count, sent |-> <<>>]
    BY <2>1, <2>2, <2>3
  <2> HIDE DEF a, old
  <2> QED BY <2>4
<1> PICK last : last = old \o text
  OBVIOUS
<1>4. last \in Seq(S) /\ text \in Seq(S) /\ Len(old) \in Nat
  BY <1>2, ConcatProperties, LenProperties DEF S
<1>5. FlattenSeq(Front(b.chain)) \in Seq(S) /\ FlattenSeq(Front(b.chain)) \o last = FlattenSeq(b.chain) \o text
  <2>1. FlattenSeq(Front(b.chain)) \in Seq(S)
    BY <1>2, FlattenType
  <2>2. \A f \in Seq(S), g \in Seq(S), h \in Seq(S) : (f \o g) \o h = f \o (g \o h)
    BY ConcatAssociative, SMTT(30)
  <2>3. (FlattenSeq(Front(b.chain)) \o old) \o text = FlattenSeq(Front(b.chain)) \o (old \o text)
    <3> HIDE DEF old
    <3> QED BY <1>2, <1>4, <2>1, <2>2
  <2> HIDE DEF old
  <2> QED BY <1>2, <2>1, <2>3, Zenon
<1>6. r = IF Len(last) < ChunkSize THEN Put(a, last) ELSE Filled(a, last)
  BY <1>3 DEF Write
<1> HIDE DEF a
<1>7. CASE Len(last) < ChunkSize
  <2> DEFINE d == <<last>>
  <2>1. d \in Chains(k) /\ d # <<>> /\ FlattenSeq(d) = last
    <3>1. d \in Seq(Seq(S)) /\ Len(d) = 1
      BY <1>4
    <3>2. FullFront(d)
      BY <3>1 DEF FullFront
    <3> QED BY <1>4, <3>1, <3>2, FlattenOne DEF Chains, S
  <2>2. Append(Front(b.chain), last) = Front(b.chain) \o d
    BY <1>2, <1>4, AppendIsConcat
  <2>3. r = [chain |-> Front(b.chain) \o d, start |-> Len(old), count |-> b.count, sent |-> <<>>]
    BY <1>3, <1>6, <1>7, <2>2 DEF Put
  <2> HIDE DEF d
  <2>4. /\ Front(b.chain) \o d \in Chains(k) /\ Front(b.chain) \o d # <<>>
        /\ FlattenSeq(Front(b.chain) \o d) = FlattenSeq(Front(b.chain)) \o last
    <3> PICK e : e = d
      OBVIOUS
    <3>1. e \in Chains(k) /\ e # <<>> /\ FlattenSeq(e) = last
      BY <2>1
    <3> PICK c \in Chains(k) : c = b.chain /\ c # <<>>
      BY <1>1
    <3>2. /\ Front(c) \o e \in Chains(k) /\ Front(c) \o e # <<>>
          /\ FlattenSeq(Front(c) \o e) = FlattenSeq(Front(c)) \o FlattenSeq(e)
      BY <3>1, ReplaceLast
    <3> QED BY <3>1, <3>2
  <2> PICK c : c = Front(b.chain) \o d
    OBVIOUS
  <2>5. c \in Chains(k) /\ c # <<>> /\ FlattenSeq(c) = FlattenSeq(b.chain) \o text
    BY <1>5, <2>4
  <2>6. r = BufferOf(c, Len(old), b.count, <<>>)
    BY <2>3 DEF BufferOf
  <2> QED BY <1>1, <1>4, <2>5, <2>6, WrittenTo
<1>8. CASE ~(Len(last) < ChunkSize)
  <2>1. r = Filled(a, last)
    BY <1>6, <1>8
  <2>2. CASE Len(old) = 0
    <3>1. old = <<>> /\ last = text
      <4>1. old = <<>>
        BY <1>2, <2>2, EmptySeq
      <4> QED BY <1>4, <4>1, ConcatEmptySeq
    <3> DEFINE d == Chunks(last)
    <3>2. d \in Chains(k) /\ d # <<>> /\ FlattenSeq(d) = last
      BY <1>4, ChunksWhole DEF Chains, S
    <3>3. r = [chain |-> Front(b.chain) \o d, start |-> Len(old), count |-> b.count, sent |-> <<>>]
      BY <1>3, <2>1, <2>2 DEF Filled
    <3> HIDE DEF d
    <3>4. /\ Front(b.chain) \o d \in Chains(k) /\ Front(b.chain) \o d # <<>>
          /\ FlattenSeq(Front(b.chain) \o d) = FlattenSeq(Front(b.chain)) \o last
      <4> PICK e : e = d
        OBVIOUS
      <4>1. e \in Chains(k) /\ e # <<>> /\ FlattenSeq(e) = last
        BY <3>2
      <4> PICK c \in Chains(k) : c = b.chain /\ c # <<>>
        BY <1>1
      <4>2. /\ Front(c) \o e \in Chains(k) /\ Front(c) \o e # <<>>
            /\ FlattenSeq(Front(c) \o e) = FlattenSeq(Front(c)) \o FlattenSeq(e)
        BY <4>1, ReplaceLast
      <4> QED BY <4>1, <4>2
    <3> PICK c : c = Front(b.chain) \o d
      OBVIOUS
    <3>5. c \in Chains(k) /\ c # <<>> /\ FlattenSeq(c) = FlattenSeq(b.chain) \o text
      BY <1>5, <3>4
    <3>6. r = BufferOf(c, Len(old), b.count, <<>>)
      BY <3>3 DEF BufferOf
    <3> QED BY <1>1, <1>4, <3>5, <3>6, WrittenTo
  <2>3. CASE Len(old) # 0
    <3>1. SubSeq(last, 1, Len(old)) = old /\ SubSeq(last, Len(old) + 1, Len(last)) = text
      <4>1. Len(last) = Len(old) + Len(text) /\ Len(text) \in Nat
        BY <1>2, <1>4, ConcatProperties, LenProperties
      <4>2. SubSeq(last, 1, Len(old)) = old
        <5>1. 1 \in 1..Len(old) /\ Len(old) \in 1..Len(old)
          BY <1>4, <2>3
        <5>2. SubSeq(old \o text, 1, Len(old)) = SubSeq(old, 1, Len(old))
          BY <1>2, <1>4, <5>1, SubSeqOfConcat1
        <5> QED BY <1>2, <5>2, SubSeqFull
      <4>3. CASE Len(text) = 0
        <5>1. text = <<>> /\ Len(last) < Len(old) + 1
          BY <1>4, <4>1, <4>3, EmptySeq
        <5>2. SubSeq(last, Len(old) + 1, Len(last)) = <<>>
          BY <1>4, <4>1, <5>1, SubSeqEmpty
        <5> QED BY <4>2, <5>1, <5>2
      <4>4. CASE Len(text) # 0
        <5>1. Len(old) + 1 \in Len(old) + 1 .. Len(old) + Len(text) /\ Len(last) \in Len(old) + 1 .. Len(old) + Len(text)
          BY <1>4, <4>1, <4>4
        <5>2. SubSeq(old \o text, Len(old) + 1, Len(last)) = SubSeq(text, (Len(old) + 1) - Len(old), Len(last) - Len(old))
          BY <1>2, <1>4, <5>1, SubSeqOfConcat2
        <5>3. (Len(old) + 1) - Len(old) = 1 /\ Len(last) - Len(old) = Len(text)
          BY <1>4, <4>1
        <5>4. SubSeq(text, 1, Len(text)) = text
          BY <1>4, SubSeqFull
        <5> QED BY <4>2, <5>2, <5>3, <5>4
      <4> QED BY <4>3, <4>4
    <3>2. r = [chain |-> Chunks(text), start |-> 0, count |-> 0, sent |-> <<Batch(b.chain, <<>>, b.count, FALSE)>>]
      <4>1. a.start # 0 /\ a.start = Len(old) /\ Append(a.sent, Batch(b.chain, <<>>, b.count, FALSE)) = <<Batch(b.chain, <<>>, b.count, FALSE)>>
        BY <1>3, <2>3
      <4>2. Append(Front(a.chain), SubSeq(last, 1, a.start)) = b.chain /\ SubSeq(last, a.start + 1, Len(last)) = text
        BY <1>2, <1>3, <3>1
      <4> QED BY <1>3, <2>1, <4>1, <4>2 DEF Filled
    <3>3. Chunks(text) \in Chains(k) /\ Chunks(text) # <<>> /\ FlattenSeq(Chunks(text)) = text
      BY <1>4, ChunksWhole DEF Chains, S
    <3>4. r = BufferOf(Chunks(text), 0, 0, Sent(b))
      BY <3>2 DEF BufferOf, Sent
    <3> QED BY <3>3, <3>4, WrittenNew
  <2> QED BY <2>2, <2>3
<1> QED BY <1>7, <1>8

(* What is printed of a batch, with or without the first token.            *)
Extend(p, x, y) == [p EXCEPT !.out = @ \o x \o y]

(* What is printed of a chain: its text, or what follows its first         *)
(* separator.                                                              *)
LEMMA PrintChain ==
  ASSUME NEW k, NEW c \in Chains(k), NEW t, t = FlattenSeq(c), t = <<>> \/ Len(t) >= 2,
         NEW p, NEW prefix
  PROVE  /\ HasText(c) <=> t # <<>>
         /\ t = <<>> => \A skip \in {0, 1} : PrintBatch(p, c, prefix, skip) = p
         /\ t # <<>> => /\ PrintBatch(p, c, prefix, 0) = Extend(p, prefix, t)
                        /\ PrintBatch(p, c, prefix, 1) = Extend(p, prefix, Body(t))
<1> DEFINE S == Tokens(k)
<1>1. c \in Seq(Seq(S)) /\ FullFront(c)
  BY DEF Chains
<1> HIDE DEF S
<1>2. t \in Seq(S) /\ Len(t) \in Nat
  BY <1>1, FlattenType, LenProperties
<1>3. CASE c = <<>>
  BY <1>3, FlattenEmpty DEF HasText, PrintBatch
<1>4. CASE c # <<>>
  <2>1. /\ Head(c) \in Seq(S) /\ Head(c) = c[1] /\ Len(c) \in Nat \ {0} /\ Len(Head(c)) \in Nat
        /\ SubSeq(c, 2, Len(c)) \in Seq(Seq(S)) /\ c = <<Head(c)>> \o SubSeq(c, 2, Len(c))
    <3>1. Len(c) \in Nat \ {0} /\ 1 \in 1..Len(c) /\ Len(c) \in 1..Len(c)
      BY <1>1, <1>4, EmptySeq
    <3>2. Head(c) = c[1] /\ c[1] \in Seq(S)
      BY <1>1, <1>4, <3>1, ElementOfSeq
    <3>3. SubSeq(c, 1, Len(c)) = <<c[1]>> \o SubSeq(c, 1 + 1, Len(c)) /\ SubSeq(c, 1, Len(c)) = c
      BY <1>1, <3>1, SubSeqRecursiveFirst, SubSeqFull
    <3>4. SubSeq(c, 2, Len(c)) \in Seq(Seq(S))
      <4>1. 2 \in Int /\ Len(c) \in Int /\ \A i \in 2..Len(c) : c[i] \in Seq(S)
        BY <1>1, <3>1, ElementOfSeq
      <4> QED BY <4>1, SubSeqProperties
    <3>5. Len(Head(c)) \in Nat
      BY <3>2, LenProperties
    <3> QED BY <3>1, <3>2, <3>3, <3>4, <3>5
  <2> PICK d : d = SubSeq(c, 2, Len(c))
    OBVIOUS
  <2> PICK h : h = Head(c)
    OBVIOUS
  <2>2. t = h \o FlattenSeq(d) /\ FlattenSeq(d) \in Seq(S)
    <3>1. <<h>> \in Seq(Seq(S)) /\ d \in Seq(Seq(S))
      BY <2>1
    <3>2. FlattenSeq(<<h>> \o d) = FlattenSeq(<<h>>) \o FlattenSeq(d)
      BY <3>1, FlattenConcat
    <3> QED BY <2>1, <3>1, <3>2, FlattenOne, FlattenType
  <2>3. h \in Seq(S) /\ Len(h) \in Nat /\ ChunkSize >= 2
    BY <2>1, SizesAssumption
  <2>4. Len(c) = 1 \/ Len(h) >= 2
    <3>1. ASSUME Len(c) # 1 PROVE Len(h) = ChunkSize
      <4>1. 1 \in 1..Len(c) - 1
        BY <2>1, <3>1
      <4> QED BY <1>1, <2>1, <4>1 DEF FullFront
    <3> QED BY <2>3, <3>1
  <2>5. Len(c) = 1 => t = h
    <3>1. ASSUME Len(c) = 1 PROVE d = <<>>
      BY <3>1, SubSeqEmpty
    <3> QED BY <2>2, <2>3, <3>1, FlattenEmpty, ConcatEmptySeq
  <2>6. CASE t = <<>>
    <3>1. h = <<>>
      <4> PICK f : f = FlattenSeq(d)
        OBVIOUS
      <4>1. f \in Seq(S) /\ h \o f = <<>>
        BY <2>2, <2>6
      <4> QED BY <2>3, <4>1, ConcatEqualIffEmpty
    <3>2. Len(h) = 0
      BY <3>1
    <3>3. \A skip \in {0, 1} : skip >= Len(Head(c))
      BY <3>2
    <3> QED BY <1>4, <2>6, <3>1, <3>3 DEF HasText, PrintBatch
  <2>7. CASE t # <<>>
    <3>1. Len(h) >= 2
      BY <2>4, <2>5, <2>7
    <3>2. h # <<>> /\ ~(0 >= Len(Head(c))) /\ ~(1 >= Len(Head(c)))
      <4>1. Len(h) # 0 /\ ~(0 >= Len(h)) /\ ~(1 >= Len(h))
        BY <2>3, <3>1
      <4>2. h # <<>>
        BY <2>3, <4>1, EmptySeq
      <4> QED BY <4>1, <4>2
    <3>3. SubSeq(t, 0 + 1, Len(t)) = t /\ SubSeq(t, 1 + 1, Len(t)) = Body(t)
      BY <1>2, SubSeqFull DEF Body
    <3>4. HasText(c)
      BY <1>4, <3>2 DEF HasText
    <3>5. PrintBatch(p, c, prefix, 0) = Extend(p, prefix, t)
      BY <1>4, <3>2, <3>3 DEF PrintBatch, Extend
    <3>6. PrintBatch(p, c, prefix, 1) = Extend(p, prefix, Body(t))
      BY <1>4, <3>2, <3>3 DEF PrintBatch, Extend
    <3> QED BY <2>7, <3>4, <3>5, <3>6
  <2> QED BY <2>6, <2>7
<1> QED BY <1>3, <1>4

-----------------------------------------------------------------------------
(* Documents                                                               *)

(* The text of one feature more.                                           *)
LEMMA TextsAppend ==
  ASSUME NEW k, k.format \in Formats, NEW s \in Seq(Sized(k)), NEW f \in Sized(k)
  PROVE  Texts(k, Append(s, f)) = Texts(k, s) \o TextOf(k, f)
<1>1. <<f>> \in Seq(Sized(k)) /\ Append(s, f) = s \o <<f>>
  <2>1. Append(s, f) = s \o <<f>>
    BY AppendIsConcat
  <2> QED BY <2>1
<1>2. Texts(k, s \o <<f>>) = Texts(k, s) \o Texts(k, <<f>>)
  BY <1>1, TextsConcat
<1>3. Texts(k, <<f>>) = TextOf(k, f)
  BY TextsOne
<1> QED BY <1>1, <1>2, <1>3

(* The texts of features with a comma between them are what is printed of  *)
(* texts that begin with one, without the first token.                     *)
SeparatedBy(k, s) ==
  [i \in 1..(2 * Len(s) - 1) |->
      IF i % 2 = 1 THEN Text(s[(i + 1) \div 2], k.sizes[s[(i + 1) \div 2]]) ELSE Mark(",")]

(* The texts of features with separators between them, ...                 *)
LEMMA SeparatedType ==
  ASSUME NEW k, NEW s \in Seq(Sized(k)), s # <<>>
  PROVE  SeparatedBy(k, s) \in Seq(Seq(Tokens(k))) /\ Len(SeparatedBy(k, s)) = 2 * Len(s) - 1
<1>0. Len(s) \in Nat \ {0} /\ 2 * Len(s) - 1 \in Nat
  <2>1. Len(s) \in Nat \ {0}
    BY EmptySeq
  <2> QED BY <2>1
<1>1. Mark(",") \in Seq(Tokens(k))
  <2>1. "," \in Marks
    BY Zenon DEF Marks
  <2> QED BY <2>1, MarkType
<1>2. ASSUME NEW i \in 1..(2 * Len(s) - 1)
      PROVE  (IF i % 2 = 1 THEN Text(s[(i + 1) \div 2], k.sizes[s[(i + 1) \div 2]]) ELSE Mark(","))
                \in Seq(Tokens(k))
  <2>1. ASSUME i % 2 = 1 PROVE Text(s[(i + 1) \div 2], k.sizes[s[(i + 1) \div 2]]) \in Seq(Tokens(k))
    <3>1. (i + 1) \div 2 \in 1..Len(s)
      BY <1>0, <2>1, Half
    <3>2. s[(i + 1) \div 2] \in Sized(k)
      BY <3>1, ElementOfSeq
    <3> QED BY <3>2, TextType
  <2> QED BY <1>1, <2>1
<1>3. SeparatedBy(k, s) \in [1..(2 * Len(s) - 1) -> Seq(Tokens(k))]
  BY <1>2 DEF SeparatedBy
<1> QED BY <1>0, <1>3

(* ... of one feature more, ...                                            *)
LEMMA SeparatedAppend ==
  ASSUME NEW k, NEW s \in Seq(Sized(k)), s # <<>>, NEW f \in Sized(k)
  PROVE  SeparatedBy(k, Append(s, f)) = Append(Append(SeparatedBy(k, s), Mark(",")), Text(f, k.sizes[f]))
<1> DEFINE T == Seq(Tokens(k))
<1> PICK n \in Nat \ {0} : Is(n, Len(s))
  BY EmptySeq DEF Is
<1>0. Len(s) = n
  BY DEF Is
<1>c. Mark(",") \in T
  <2>1. "," \in Marks
    BY Zenon DEF Marks
  <2> QED BY <2>1, MarkType
<1>x. Text(f, k.sizes[f]) \in T
  BY TextType
<1> HIDE DEF T
<1>p. /\ Append(s, f) \in Seq(Sized(k)) /\ Len(Append(s, f)) = Len(s) + 1 /\ Append(s, f)[Len(s) + 1] = f
      /\ \A i \in 1..Len(s) : Append(s, f)[i] = s[i]
  BY AppendProperties
<1> PICK u \in Seq(Sized(k)) : Is(u, Append(s, f))
  BY <1>p DEF Is
<1>1. Len(u) = n + 1 /\ u[n + 1] = f /\ \A i \in 1..n : u[i] = s[i]
  BY <1>0, <1>p DEF Is
<1>2. SeparatedBy(k, s) \in Seq(T) /\ Len(SeparatedBy(k, s)) = 2 * n - 1
  BY <1>0, SeparatedType DEF T
<1>3. SeparatedBy(k, u) \in Seq(T) /\ Len(SeparatedBy(k, u)) = 2 * n + 1
  <2>1. u # <<>>
    BY <1>1, EmptySeq
  <2>2. Len(SeparatedBy(k, u)) = 2 * (n + 1) - 1
    BY <1>1, <2>1, SeparatedType
  <2>3. 2 * (n + 1) - 1 = 2 * n + 1
    OBVIOUS
  <2> QED BY <2>1, <2>2, <2>3, SeparatedType DEF T
<1>4. ASSUME NEW i \in 1..(2 * n - 1) PROVE SeparatedBy(k, u)[i] = SeparatedBy(k, s)[i]
  <2>0. i \in 1..(2 * Len(s) - 1) /\ i \in 1..(2 * Len(u) - 1)
    BY <1>0, <1>1
  <2>1. SeparatedBy(k, s)[i] = IF i % 2 = 1 THEN Text(s[(i + 1) \div 2], k.sizes[s[(i + 1) \div 2]]) ELSE Mark(",")
    BY <2>0, Zenon DEF SeparatedBy
  <2>2. SeparatedBy(k, u)[i] = IF i % 2 = 1 THEN Text(u[(i + 1) \div 2], k.sizes[u[(i + 1) \div 2]]) ELSE Mark(",")
    BY <2>0, Zenon DEF SeparatedBy
  <2>3. CASE i % 2 = 1
    <3>1. (i + 1) \div 2 \in 1..n
      BY <2>3, Half
    <3>2. u[(i + 1) \div 2] = s[(i + 1) \div 2]
      BY <1>1, <3>1
    <3> QED BY <2>1, <2>2, <2>3, <3>2, Zenon
  <2>4. CASE ~(i % 2 = 1)
    BY <2>1, <2>2, <2>4, Zenon
  <2> QED BY <2>3, <2>4
<1>5. SeparatedBy(k, u)[2 * n] = Mark(",")
  <2>0. 2 * n \in 1..(2 * Len(u) - 1) /\ ~((2 * n) % 2 = 1)
    BY <1>1, Odd
  <2> QED BY <2>0, Zenon DEF SeparatedBy
<1>6. SeparatedBy(k, u)[2 * n + 1] = Text(f, k.sizes[f])
  <2>0. 2 * n + 1 \in 1..(2 * Len(u) - 1) /\ (2 * n + 1) % 2 = 1 /\ ((2 * n + 1) + 1) \div 2 = n + 1
    BY <1>1, Odd
  <2>1. SeparatedBy(k, u)[2 * n + 1] = Text(u[((2 * n + 1) + 1) \div 2], k.sizes[u[((2 * n + 1) + 1) \div 2]])
    BY <2>0, Zenon DEF SeparatedBy
  <2>2. u[((2 * n + 1) + 1) \div 2] = f
    BY <1>1, <2>0
  <2> QED BY <2>1, <2>2, Zenon
<1> PICK a \in Seq(T) : Is(a, SeparatedBy(k, s))
  BY <1>2 DEF Is
<1> PICK b \in Seq(T) : Is(b, SeparatedBy(k, u))
  BY <1>3 DEF Is
<1>7. /\ Len(b) = Len(a) + 2 /\ \A i \in 1..Len(a) : b[i] = a[i]
      /\ b[Len(a) + 1] = Mark(",") /\ b[Len(a) + 2] = Text(f, k.sizes[f])
  <2>1. Len(a) = 2 * n - 1 /\ Len(b) = 2 * n + 1 /\ \A i \in 1..(2 * n - 1) : b[i] = a[i]
    BY <1>2, <1>3, <1>4 DEF Is
  <2>2. b[2 * n] = Mark(",") /\ b[2 * n + 1] = Text(f, k.sizes[f])
    BY <1>5, <1>6 DEF Is
  <2>3. Len(a) + 1 = 2 * n /\ Len(a) + 2 = 2 * n + 1
    BY <2>1
  <2> QED BY <2>1, <2>2, <2>3
<1>8. b = Append(Append(a, Mark(",")), Text(f, k.sizes[f]))
  BY <1>7, <1>c, <1>x, TwoMore
<1> QED BY <1>8, Zenon DEF Is

(* ... of a single one, ...                                                *)
LEMMA SeparatedOne ==
  ASSUME NEW k, NEW f \in Sized(k)
  PROVE  SeparatedBy(k, <<f>>) = <<Text(f, k.sizes[f])>>
<1>1. <<f>> \in Seq(Sized(k)) /\ Len(<<f>>) = 1 /\ <<f>>[1] = f /\ <<f>> # <<>>
  OBVIOUS
<1> PICK u \in Seq(Sized(k)) : Is(u, <<f>>)
  BY <1>1 DEF Is
<1>2. Len(u) = 1 /\ u[1] = f /\ u # <<>>
  BY <1>1 DEF Is
<1>3. SeparatedBy(k, u) \in Seq(Seq(Tokens(k))) /\ Len(SeparatedBy(k, u)) = 1
  <2>1. SeparatedBy(k, u) \in Seq(Seq(Tokens(k))) /\ Len(SeparatedBy(k, u)) = 2 * Len(u) - 1
    BY <1>2, SeparatedType
  <2>2. 2 * Len(u) - 1 = 1
    BY <1>2
  <2> QED BY <2>1, <2>2
<1>4. SeparatedBy(k, u)[1] = Text(f, k.sizes[f])
  <2>1. 1 \in 1..(2 * Len(u) - 1) /\ 1 % 2 = 1 /\ (1 + 1) \div 2 = 1
    BY <1>2
  <2>2. SeparatedBy(k, u)[1] = Text(u[(1 + 1) \div 2], k.sizes[u[(1 + 1) \div 2]])
    BY <2>1, Zenon DEF SeparatedBy
  <2>3. u[(1 + 1) \div 2] = f
    BY <1>2, <2>1
  <2> QED BY <2>2, <2>3, Zenon
<1> PICK b \in Seq(Seq(Tokens(k))) : Is(b, SeparatedBy(k, u))
  BY <1>3 DEF Is
<1>5. Len(b) = 1 /\ b[1] = Text(f, k.sizes[f])
  BY <1>3, <1>4 DEF Is
<1>6. b = <<b[1]>>
  BY <1>5
<1> QED BY <1>5, <1>6, Zenon DEF Is

(* ... put together.                                                       *)
LEMMA SeparatedFlatten ==
  ASSUME NEW k, NEW s \in Seq(Sized(k)), s # <<>>, NEW f \in Sized(k)
  PROVE  FlattenSeq(SeparatedBy(k, Append(s, f)))
            = Cat(FlattenSeq(SeparatedBy(k, s)), Cat(Mark(","), Text(f, k.sizes[f])))
<1>s. PICK S : Is(S, Tokens(k))
  BY DEF Is
<1>p. PICK p : Is(p, SeparatedBy(k, s))
  BY DEF Is
<1>x. PICK x : Is(x, Text(f, k.sizes[f]))
  BY DEF Is
<1>c. PICK c : Is(c, Mark(","))
  BY DEF Is
<1>1. p \in Seq(Seq(S))
  BY <1>s, <1>p, SeparatedType DEF Is
<1>2. x \in Seq(S)
  BY <1>s, <1>x, TextType DEF Is
<1>3. c \in Seq(S)
  <2>1. "," \in Marks
    BY Zenon DEF Marks
  <2> QED BY <1>s, <1>c, <2>1, MarkType DEF Is
<1>4. FlattenSeq(Plus(p, c, x)) = Cat(FlattenSeq(p), Cat(c, x))
  BY <1>1, <1>2, <1>3, FlattenTwo
<1>5. SeparatedBy(k, Append(s, f)) = Append(Append(SeparatedBy(k, s), Mark(",")), Text(f, k.sizes[f]))
  BY SeparatedAppend
<1> QED BY <1>4, <1>5, <1>p, <1>c, <1>x, Zenon DEF Is, Plus

(* They are what is printed, but for the separator before the first.       *)
LEMMA ListedIs ==
  ASSUME NEW k, k.format \in {"geojson", "wkt"}, NEW s \in Seq(Sized(k)), s # <<>>
  PROVE  FlattenSeq(SeparatedBy(k, s)) = Body(Texts(k, s))
<1>0. k.format \in Formats /\ k.format \in TextFormats
  BY DEF Formats, TextFormats
<1> DEFINE P == {t \in Seq(Sized(k)) : t = <<>> \/ FlattenSeq(SeparatedBy(k, t)) = Body(Texts(k, t))}
<1>1. <<>> \in P
  BY EmptySeq
<1>2. ASSUME NEW t \in Seq(Sized(k)), NEW f \in Sized(k), t \in P PROVE Append(t, f) \in P
  <2>0. t # <<>> => FlattenSeq(SeparatedBy(k, t)) = Body(Texts(k, t))
    BY <1>2
  <2> SUFFICES FlattenSeq(SeparatedBy(k, Append(t, f))) = Body(Texts(k, Append(t, f)))
    BY AppendProperties
  <2> HIDE DEF P
  <2> PICK x : Is(x, Text(f, k.sizes[f]))
    BY DEF Is
  <2> PICK c : Is(c, Mark(","))
    BY DEF Is
  <2>1. x \in Seq(Tokens(k)) /\ c \in Seq(Tokens(k)) /\ Len(c) = 1 /\ c # <<>>
    <3>1. "," \in Marks
      BY Zenon DEF Marks
    <3>2. c \in Seq(Tokens(k)) /\ Len(c) = 1
      BY <3>1, MarkType DEF Is
    <3>3. x \in Seq(Tokens(k))
      BY TextType DEF Is
    <3>5. c # <<>>
      BY <3>2, EmptyFacts, Zenon
    <3> QED BY <3>2, <3>3, <3>5
  <2>2. TextOf(k, f) = c \o x
    <3>1. TextOf(k, f) = Mark(",") \o Text(f, k.sizes[f])
      BY DEF TextOf, Printed
    <3> QED BY <3>1, Zenon DEF Is
  <2>4. Texts(k, Append(t, f)) = Texts(k, t) \o (c \o x)
    BY <1>0, <2>2, TextsAppend
  <2>5. CASE t = <<>>
    <3>1. Append(t, f) = <<f>>
      BY <2>5, EmptyFacts, Zenon
    <3>2. FlattenSeq(SeparatedBy(k, <<f>>)) = x
      <4>1. SeparatedBy(k, <<f>>) = <<x>>
        BY SeparatedOne, Zenon DEF Is
      <4>2. FlattenSeq(<<x>>) = x
        BY <2>1, FlattenOne
      <4> QED BY <4>1, <4>2
    <3>3. Texts(k, <<f>>) = c \o x
      BY <1>0, <2>2, TextsOne
    <3>4. Body(c) \o x = Body(c \o x)
      BY <2>1, BodyConcat
    <3>5. Body(c) = <<>>
      BY <2>1, EmptyFacts, Zenon
    <3>6. <<>> \o x = x
      BY <2>1, ConcatEmptySeq
    <3>7. FlattenSeq(SeparatedBy(k, Append(t, f))) = Body(Texts(k, Append(t, f)))
      BY <3>1, <3>2, <3>3, <3>4, <3>5, <3>6, Zenon
    <3> QED BY <3>7
  <2>6. CASE t # <<>>
    <3> PICK y : Is(y, FlattenSeq(SeparatedBy(k, t)))
      BY DEF Is
    <3> PICK p : Is(p, SeparatedBy(k, t))
      BY DEF Is
    <3>0. p \in Seq(Seq(Tokens(k))) /\ y \in Seq(Tokens(k)) /\ Is(y, FlattenSeq(p))
      <4>1. p \in Seq(Seq(Tokens(k)))
        BY <2>6, SeparatedType DEF Is
      <4>2. y = FlattenSeq(p)
        BY Zenon DEF Is
      <4> QED BY <4>1, <4>2, FlattenType DEF Is
    <3>1. y = Body(Texts(k, t))
      <4>1. FlattenSeq(SeparatedBy(k, t)) = Body(Texts(k, t))
        BY <2>0, <2>6
      <4> QED BY <4>1, Zenon DEF Is
    <3>4. FlattenSeq(SeparatedBy(k, Append(t, f))) = y \o (c \o x)
      <4>1. FlattenSeq(SeparatedBy(k, Append(t, f))) = Cat(FlattenSeq(SeparatedBy(k, t)), Cat(Mark(","), Text(f, k.sizes[f])))
        BY <2>6, SeparatedFlatten
      <4> QED BY <4>1, Zenon DEF Cat, Is
    <3>6. Texts(k, t) \in Seq(Tokens(k)) /\ Texts(k, t) # <<>> /\ c \o x \in Seq(Tokens(k))
      <4>0. k.format \in TextFormats
        BY <1>0
      <4>1. Texts(k, t) \in Seq(Tokens(k)) /\ Len(Texts(k, t)) \in Nat /\ Len(Texts(k, t)) >= 2
        BY <2>6, <4>0, TextsLong, Zenon
      <4>3. Texts(k, t) # <<>>
        BY <4>1, EmptyFacts, Zenon
      <4> QED BY <2>1, <4>1, <4>3, ConcatProperties
    <3>7. Body(Texts(k, t)) \o (c \o x) = Body(Texts(k, t) \o (c \o x))
      BY <3>6, BodyConcat
    <3>8. FlattenSeq(SeparatedBy(k, Append(t, f))) = Body(Texts(k, Append(t, f)))
      BY <2>4, <3>1, <3>4, <3>7, Zenon
    <3> QED BY <3>8
  <2> QED BY <2>5, <2>6
<1>3. s \in P
  <2> HIDE DEF P
  <2> QED BY <1>1, <1>2, SeqSetInduction
<1> QED BY <1>3

-----------------------------------------------------------------------------
(* The results of a query                                                  *)

(* Formats for which batches have text; those for which features need      *)
(* none.                                                                   *)
AsText(k) == k.format \in TextFormats
NoText(k) == k.format \in {"count", "xml", "pbf"}
(* What a query prints.                                                    *)
Items(k) == IF NoText(k) THEN DOMAIN k.lib ELSE Sized(k)
(* The tiles that are queried, and the number of results in one.           *)
CurrentOf(k) == {i \in DOMAIN k.tiles : k.tiles[i].current}
Total(k, i) == Len(Found(k, i))

(* What a query finds is in the library, and it finds nothing twice.       *)
LEMMA FoundType ==
  ASSUME NEW k, IsQuery(k), NEW i \in CurrentOf(k)
  PROVE  Found(k, i) \in Seq(Items(k)) /\ Total(k, i) \in Nat /\ i \in Nat
<1>1. k.tiles \in Seq([current : BOOLEAN, pages : Seq(Seq(DOMAIN k.lib))]) /\ i \in DOMAIN k.tiles
  BY DEF IsQuery, CurrentOf
<1>2. k.tiles[i].pages \in Seq(Seq(DOMAIN k.lib)) /\ i \in Nat
  <2>1. i \in 1..Len(k.tiles)
    BY <1>1, LenProperties
  <2> DEFINE P == Seq(Seq(DOMAIN k.lib))
  <2>2. k.tiles[i] \in [current : BOOLEAN, pages : P]
    BY <1>1, <2>1, ElementOfSeq
  <2>3. i \in Nat
    BY <2>1
  <2> HIDE DEF P
  <2>4. k.tiles[i].pages \in P
    BY <2>2
  <2> QED BY <2>3, <2>4 DEF P
<1>3. Found(k, i) \in Seq(DOMAIN k.lib)
  BY <1>2, FlattenType DEF Found
<1>4. Total(k, i) \in Nat
  BY <1>3, LenProperties DEF Total
<1>5. CASE NoText(k)
  BY <1>2, <1>3, <1>4, <1>5 DEF Items
<1>6. CASE ~NoText(k)
  <2>1. \A a \in DOMAIN Found(k, i) : Found(k, i)[a] \in DOMAIN k.sizes /\ k.sizes[Found(k, i)[a]] \in Nat \ {0}
    <3>1. k.tiles[i].current /\ i \in DOMAIN k.tiles
      BY DEF CurrentOf
    <3>2. k.format \notin {"count", "xml", "pbf"}
      BY <1>6 DEF NoText
    <3> QED BY <3>1, <3>2 DEF IsQuery
  <2> PICK s \in Seq(DOMAIN k.lib) : Is(s, Found(k, i))
    BY <1>3 DEF Is
  <2>2. \A a \in DOMAIN s : s[a] \in DOMAIN k.sizes /\ k.sizes[s[a]] \in Nat \ {0}
    BY <2>1 DEF Is
  <2>3. \A a \in 1..Len(s) : s[a] \in Sized(k)
    BY <2>2 DEF Sized
  <2>4. s \in Seq(Sized(k))
    BY <2>3
  <2> QED BY <1>2, <1>4, <1>6, <2>4 DEF Is, Items
<1> QED BY <1>5, <1>6

(* Every result is found in one place.                                     *)
LEMMA FoundOnce ==
  ASSUME NEW k, IsQuery(k), NEW i \in CurrentOf(k), NEW j \in CurrentOf(k),
         NEW a \in 1..Total(k, i), NEW b \in 1..Total(k, j), Found(k, i)[a] = Found(k, j)[b]
  PROVE  i = j /\ a = b
<1>1. DOMAIN Found(k, i) = 1..Total(k, i) /\ DOMAIN Found(k, j) = 1..Total(k, j)
  BY FoundType, LenProperties DEF Total
<1>2. i \in DOMAIN k.tiles /\ j \in DOMAIN k.tiles /\ k.tiles[i].current /\ k.tiles[j].current
  BY DEF CurrentOf
<1>3. \A c \in DOMAIN Found(k, i), d \in DOMAIN Found(k, j) :
            Found(k, i)[c] = Found(k, j)[d] => i = j /\ c = d
  BY <1>2, Zenon DEF IsQuery
<1> QED BY <1>1, <1>3, Zenon

(* How far the tiles are, and the results up to there.                     *)
Progress(k) == [DOMAIN k.tiles -> Nat]
(* The results that were reached, if s of each tile were.                  *)
Reached(k, s) == {f \in Items(k) : \E i \in CurrentOf(k) : \E j \in 1..s[i] : f = Found(k, i)[j]}
(* A tile progresses.                                                      *)
Moved(s, i, m) == [s EXCEPT ![i] = m]
(* The results of a tile from one number to another.                       *)
Slice(k, i, m, n) == SubSeq(Found(k, i), m + 1, n)

(* A slice has the results of its tile, ...                                *)
LEMMA SliceType ==
  ASSUME NEW k, IsQuery(k), NEW i \in CurrentOf(k), NEW m \in Nat, NEW n \in Nat, m <= n, n <= Total(k, i)
  PROVE  /\ Slice(k, i, m, n) \in Seq(Items(k)) /\ Len(Slice(k, i, m, n)) = n - m
         /\ \A j \in 1..(n - m) : Slice(k, i, m, n)[j] = Found(k, i)[m + j]
BY FoundType, SliceIs DEF Slice, Total

(* ... none of them twice.                                                 *)
LEMMA SliceOnce ==
  ASSUME NEW k, IsQuery(k), NEW i \in CurrentOf(k), NEW m \in Nat, NEW n \in Nat, m <= n, n <= Total(k, i)
  PROVE  Distinct(Slice(k, i, m, n))
<1> PICK t : Is(t, Slice(k, i, m, n))
  BY DEF Is
<1>1. t \in Seq(Items(k)) /\ Len(t) = n - m /\ \A j \in 1..(n - m) : t[j] = Found(k, i)[m + j]
  BY SliceType, ZenonT(30) DEF Is
<1>2. DOMAIN t = 1..(n - m)
  BY <1>1, LenProperties
<1>3. ASSUME NEW a \in 1..(n - m), NEW b \in 1..(n - m), t[a] = t[b] PROVE a = b
  <2>0. Total(k, i) \in Nat
    BY FoundType
  <2>1. m + a \in 1..Total(k, i) /\ m + b \in 1..Total(k, i)
    BY <2>0
  <2>2. Found(k, i)[m + a] = Found(k, i)[m + b]
    BY <1>1, <1>3
  <2>3. m + a = m + b
    BY <2>1, <2>2, FoundOnce
  <2> QED BY <2>3
<1> QED BY <1>2, <1>3 DEF Is, Distinct

(* A slice of the results of a tile adds to what was reached.              *)
LEMMA ReachMore ==
  ASSUME NEW k, IsQuery(k), NEW s \in Progress(k), NEW i \in CurrentOf(k), NEW n \in Nat,
         \A j \in CurrentOf(k) : s[j] <= Total(k, j), s[i] <= n, n <= Total(k, i)
  PROVE  /\ Moved(s, i, n) \in Progress(k)
         /\ Elems(Slice(k, i, s[i], n)) \intersect Reached(k, s) = {}
         /\ Reached(k, Moved(s, i, n)) = Reached(k, s) \union Elems(Slice(k, i, s[i], n))
<1>0. /\ CurrentOf(k) \subseteq DOMAIN k.tiles
      /\ \A j \in CurrentOf(k) : s[j] \in Nat /\ Total(k, j) \in Nat
  BY FoundType DEF CurrentOf, Progress
<1> PICK u : Is(u, Moved(s, i, n))
  BY DEF Is
<1>1. u \in Progress(k) /\ u[i] = n /\ \A j \in CurrentOf(k) : j # i => u[j] = s[j]
  BY <1>0 DEF Is, Moved, Progress
<1> PICK m \in Nat : Is(m, s[i])
  BY <1>0 DEF Is
<1>m. m = s[i] /\ m <= n
  BY DEF Is
<1> PICK t : Is(t, Slice(k, i, m, n))
  BY DEF Is
<1>2. /\ t \in Seq(Items(k)) /\ DOMAIN t = 1..(n - m)
      /\ \A j \in 1..(n - m) : t[j] = Found(k, i)[m + j] /\ t[j] \in Items(k)
  <2>1. t \in Seq(Items(k)) /\ Len(t) = n - m /\ \A j \in 1..(n - m) : t[j] = Found(k, i)[m + j]
    <3>1. /\ Slice(k, i, m, n) \in Seq(Items(k)) /\ Len(Slice(k, i, m, n)) = n - m
          /\ \A j \in 1..(n - m) : Slice(k, i, m, n)[j] = Found(k, i)[m + j]
      <4>1. m <= n /\ n <= Total(k, i)
        BY <1>m
      <4> QED BY <4>1, SliceType, ZenonT(30)
    <3> QED BY <3>1, Zenon DEF Is
  <2>2. DOMAIN t = 1..(n - m)
    BY <2>1, LenProperties
  <2>3. \A j \in 1..(n - m) : t[j] \in Items(k)
    BY <2>1, ElementOfSeq
  <2>4. ASSUME NEW j \in 1..(n - m) PROVE t[j] = Found(k, i)[m + j] /\ t[j] \in Items(k)
    BY <2>1, <2>3, Zenon
  <2> QED BY <2>1, <2>2, <2>4, Zenon
<1>3. \A j \in 1..(n - m) : m + j \in 1..n /\ m + j \in 1..Total(k, i) /\ m + j \notin 1..m
  BY <1>0
<1>4. \A a \in 1..n : a \in 1..m \/ (a - m \in 1..(n - m) /\ m + (a - m) = a)
  OBVIOUS
<1>5. ASSUME NEW f \in Elems(t) PROVE f \notin Reached(k, s) /\ f \in Reached(k, u)
  <2>1. PICK c \in 1..(n - m) : f = t[c]
    BY <1>2 DEF Elems
  <2>2. f = Found(k, i)[m + c] /\ f \in Items(k)
    BY <1>2, <2>1
  <2>3. f \in Reached(k, u)
    BY <1>1, <1>3, <2>2 DEF Reached
  <2>4. ASSUME NEW j \in CurrentOf(k), NEW b \in 1..s[j], f = Found(k, j)[b] PROVE FALSE
    <3>1. b \in 1..Total(k, j) /\ m + c \in 1..Total(k, i)
      BY <1>0, <1>3
    <3>2. Found(k, i)[m + c] = Found(k, j)[b]
      BY <2>2, <2>4
    <3>3. i = j /\ m + c = b
      BY <3>1, <3>2, FoundOnce
    <3> QED BY <1>3, <1>m, <3>3
  <2> QED BY <2>3, <2>4 DEF Reached
<1>6. ASSUME NEW f \in Reached(k, s) PROVE f \in Reached(k, u)
  <2>1. PICK j \in CurrentOf(k) : \E b \in 1..s[j] : f = Found(k, j)[b]
    BY DEF Reached
  <2>b. PICK b \in 1..s[j] : f = Found(k, j)[b]
    BY <2>1
  <2>2. b \in 1..u[j]
    <3>1. CASE j = i
      BY <1>1, <1>m, <3>1
    <3>2. CASE j # i
      BY <1>1, <3>2
    <3> QED BY <3>1, <3>2
  <2> QED BY <2>b, <2>2 DEF Reached
<1>7. ASSUME NEW f \in Reached(k, u) PROVE f \in Reached(k, s) \/ f \in Elems(t)
  <2>1. PICK j \in CurrentOf(k) : f \in Items(k) /\ \E b \in 1..u[j] : f = Found(k, j)[b]
    BY DEF Reached
  <2>b. PICK b \in 1..u[j] : f = Found(k, j)[b]
    BY <2>1
  <2>2. CASE j # i \/ b \in 1..m
    <3>1. b \in 1..s[j]
      BY <1>1, <1>m, <2>2
    <3> QED BY <2>1, <2>b, <3>1 DEF Reached
  <2>3. CASE j = i /\ b \notin 1..m
    <3>1. b - m \in 1..(n - m) /\ m + (b - m) = b
      BY <1>1, <1>4, <2>3
    <3>2. t[b - m] = f
      BY <1>2, <2>b, <2>3, <3>1
    <3> QED BY <1>2, <3>1, <3>2 DEF Elems
  <2> QED BY <2>2, <2>3
<1>8. Elems(t) \intersect Reached(k, s) = {}
  BY <1>5
<1>9. Reached(k, u) = Reached(k, s) \union Elems(t)
  BY <1>5, <1>6, <1>7
<1> QED BY <1>1, <1>8, <1>9, Zenon DEF Is

(* Progress reaches more.                                                  *)
LEMMA ReachedIn ==
  ASSUME NEW k, NEW s \in Progress(k), NEW u \in Progress(k), \A j \in CurrentOf(k) : s[j] <= u[j]
  PROVE  Reached(k, s) \subseteq Reached(k, u)
<1>1. \A j \in CurrentOf(k) : s[j] \in Nat /\ u[j] \in Nat
  BY DEF CurrentOf, Progress
<1> QED BY <1>1 DEF Reached

(* When the tiles are done, all results are reached.                       *)
AllOf(k) == UNION {ToSet(Found(k, i)) : i \in CurrentOf(k)}

(* When each tile is done, all results were reached.                       *)
LEMMA ReachedAll ==
  ASSUME NEW k, IsQuery(k), NEW s \in Progress(k), \A j \in CurrentOf(k) : s[j] = Total(k, j)
  PROVE  Reached(k, s) = AllOf(k)
<1>1. ASSUME NEW i \in CurrentOf(k)
      PROVE  ToSet(Found(k, i)) = {f \in Items(k) : \E j \in 1..s[i] : f = Found(k, i)[j]}
  <2> PICK t \in Seq(Items(k)) : Is(t, Found(k, i))
    BY FoundType DEF Is
  <2>1. Len(t) = s[i]
    BY DEF Is, Total
  <2>2. ToSet(t) = {f \in Items(k) : \E j \in 1..Len(t) : f = t[j]}
    BY DEF ToSet
  <2> QED BY <2>1, <2>2, Zenon DEF Is
<1>2. ASSUME NEW f \in Reached(k, s) PROVE f \in AllOf(k)
  <2>1. PICK i \in CurrentOf(k) : \E j \in 1..s[i] : f = Found(k, i)[j]
    BY DEF Reached
  <2>2. f \in ToSet(Found(k, i))
    BY <1>1, <2>1 DEF Reached
  <2> QED BY <2>2 DEF AllOf
<1>3. ASSUME NEW f \in AllOf(k) PROVE f \in Reached(k, s)
  <2>1. PICK i \in CurrentOf(k) : f \in ToSet(Found(k, i))
    BY DEF AllOf
  <2>2. f \in Items(k) /\ \E j \in 1..s[i] : f = Found(k, i)[j]
    BY <1>1, <2>1
  <2> QED BY <2>2 DEF Reached
<1> QED BY <1>2, <1>3

-----------------------------------------------------------------------------
(* Entries: the results of a tile with the lengths of their pages          *)

(* The entries of a tile are its results, and what they count never falls  *)
(* behind them.                                                            *)
LEMMA EntriesAre ==
  ASSUME NEW D, NEW pages \in Seq(Seq(D))
  PROVE  /\ Entries(pages) \in Seq(EntriesOf(D)) /\ Len(Entries(pages)) = Len(FlattenSeq(pages))
         /\ \A n \in 1..Len(FlattenSeq(pages)) : Entries(pages)[n].f = FlattenSeq(pages)[n]
         /\ \E c : Cover(Entries(pages), c)
<1> DEFINE Listed1(es, fs) ==
             /\ es \in Seq(EntriesOf(D)) /\ fs \in Seq(D) /\ Len(es) = Len(fs)
             /\ \A n \in 1..Len(fs) : es[n].f = fs[n]
             /\ \E c : Cover(es, c)
           P == {ps \in Seq(Seq(D)) : Listed1(FlattenSeq(PerPage(ps)), FlattenSeq(ps))}
<1>1. <<>> \in P
  <2>1. PerPage(<<>>) = <<>>
    BY DEF PerPage
  <2>2. Cover(<<>>, [n \in 0..0 |-> 0])
    BY DEF Cover
  <2>3. FlattenSeq(<<>>) = <<>>
    BY FlattenEmpty
  <2>4. Listed1(<<>>, <<>>)
    <3>1. <<>> \in Seq(EntriesOf(D)) /\ <<>> \in Seq(D) /\ Len(<<>>) = 0 /\ 1..0 = {}
      BY EmptySeq
    <3>2. \A n \in 1..Len(<<>>) : <<>>[n].f = <<>>[n]
      BY <3>1
    <3> QED BY <2>2, <3>1, <3>2
  <2>5. <<>> \in Seq(Seq(D))
    BY EmptySeq
  <2>6. Listed1(FlattenSeq(PerPage(<<>>)), FlattenSeq(<<>>))
    <3> HIDE DEF Listed1
    <3> QED BY <2>1, <2>3, <2>4, Zenon
  <2> QED BY <2>5, <2>6
<1>2. ASSUME NEW ps \in Seq(Seq(D)), NEW pg \in Seq(D), ps \in P PROVE Append(ps, pg) \in P
  <2>1. Listed1(FlattenSeq(PerPage(ps)), FlattenSeq(ps))
    BY <1>2
  <2> SUFFICES Listed1(FlattenSeq(PerPage(Append(ps, pg))), FlattenSeq(Append(ps, pg)))
    BY AppendProperties
  <2> HIDE DEF P
  <2> PICK es : Is(es, FlattenSeq(PerPage(ps)))
    BY DEF Is
  <2> PICK fs : Is(fs, FlattenSeq(ps))
    BY DEF Is
  <2> PICK e : Is(e, PageEntries(pg))
    BY DEF Is
  <2>2. Listed1(es, fs)
    BY <2>1 DEF Is
  <2>3. FlattenSeq(Append(ps, pg)) = fs \o pg
    <3>1. FlattenSeq(Append(ps, pg)) = FlattenSeq(ps) \o pg
      BY FlattenAppend
    <3> QED BY <3>1, Zenon DEF Is
  <2>4. /\ e \in Seq(EntriesOf(D)) /\ Len(e) = Len(pg) /\ Len(pg) \in Nat
        /\ \A i \in 1..Len(pg) : e[i].f = pg[i] /\ e[i].count = IF i = 1 THEN Len(pg) ELSE 0
    BY PageEntriesAre DEF Is
  <2>5. FlattenSeq(PerPage(Append(ps, pg))) = es \o e
    <3>1. FlattenSeq(Append(PerPage(ps), PageEntries(pg))) = FlattenSeq(PerPage(ps)) \o PageEntries(pg)
      <4>1. PerPage(ps) \in Seq(Seq(EntriesOf(D))) /\ PageEntries(pg) \in Seq(EntriesOf(D))
        BY PerPageAppend, PageEntriesAre
      <4> QED BY <4>1, FlattenAppend
    <3>2. PerPage(Append(ps, pg)) = Append(PerPage(ps), PageEntries(pg))
      BY PerPageAppend
    <3> QED BY <3>1, <3>2, Zenon DEF Is
  <2>6. es \in Seq(EntriesOf(D)) /\ fs \in Seq(D) /\ Len(es) = Len(fs) /\ Len(es) \in Nat
    BY <2>2, LenProperties
  <2>7. \E c : Cover(es \o e, c)
    <3>1. PICK c : Cover(es, c)
      BY <2>2
    <3>2. \A i \in 1..Len(e) : e[i].count = IF i = 1 THEN Len(e) ELSE 0
      BY <2>4
    <3> QED BY <2>4, <2>6, <3>1, <3>2, CoverMore
  <2>8. /\ es \o e \in Seq(EntriesOf(D)) /\ Len(es \o e) = Len(es) + Len(e)
        /\ \A i \in 1..Len(es) + Len(e) : (es \o e)[i] = IF i <= Len(es) THEN es[i] ELSE e[i - Len(es)]
    <3>1. es \in Seq(EntriesOf(D)) /\ e \in Seq(EntriesOf(D))
      BY <2>4, <2>6, Zenon
    <3> QED BY <3>1, ConcatAt, Zenon
  <2>9. /\ fs \o pg \in Seq(D) /\ Len(fs \o pg) = Len(fs) + Len(pg)
        /\ \A i \in 1..Len(fs) + Len(pg) : (fs \o pg)[i] = IF i <= Len(fs) THEN fs[i] ELSE pg[i - Len(fs)]
    BY <2>6, ConcatAt, Zenon
  <2>10. ASSUME NEW n \in 1..Len(fs \o pg) PROVE (es \o e)[n].f = (fs \o pg)[n]
    <3>1. n \in 1..Len(fs) + Len(pg) /\ n \in 1..Len(es) + Len(e)
      BY <2>4, <2>6, <2>9
    <3>2. CASE n <= Len(fs)
      <4>1. n \in 1..Len(fs)
        BY <2>4, <2>6, <3>1, <3>2
      <4>2. es[n].f = fs[n]
        BY <2>2, <4>1
      <4>3. (es \o e)[n] = es[n] /\ (fs \o pg)[n] = fs[n]
        BY <2>6, <2>8, <2>9, <3>1, <3>2
      <4> QED BY <4>2, <4>3
    <3>3. CASE ~(n <= Len(fs))
      <4>1. n - Len(fs) \in 1..Len(pg)
        BY <2>4, <2>6, <3>1, <3>3
      <4>2. e[n - Len(fs)].f = pg[n - Len(fs)]
        BY <2>4, <4>1
      <4>3. (es \o e)[n] = e[n - Len(fs)] /\ (fs \o pg)[n] = pg[n - Len(fs)]
        BY <2>6, <2>8, <2>9, <3>1, <3>3
      <4> QED BY <4>2, <4>3
    <3> QED BY <3>2, <3>3
  <2>11. Listed1(es \o e, fs \o pg)
    <3>1. Len(es \o e) = Len(fs \o pg)
      BY <2>4, <2>6, <2>8, <2>9
    <3> QED BY <2>7, <2>8, <2>9, <2>10, <3>1, Zenon
  <2> HIDE DEF Listed1
  <2> QED BY <2>3, <2>5, <2>11, Zenon
<1>3. pages \in P
  <2> HIDE DEF P
  <2> QED BY <1>1, <1>2, SeqSetInduction
<1>4. Listed1(FlattenSeq(PerPage(pages)), FlattenSeq(pages))
  BY <1>3
<1>5. Entries(pages) = FlattenSeq(PerPage(pages))
  BY DEF Entries, PerPage, PageEntries
<1> QED BY <1>4, <1>5

-----------------------------------------------------------------------------
(* What the printing thread prints                                         *)

(* What the printing thread knows, and the ways in which it changes.       *)
OutputOf(o, f, v, n) == [out |-> o, first |-> f, prev |-> v, count |-> n]

Begun(p) == [p EXCEPT !.first = FALSE]
Holding(p, c) == [p EXCEPT !.prev = c]
Released(p) == [p EXCEPT !.first = FALSE, !.prev = <<>>]

(* Its fields, ...                                                         *)
LEMMA OutputFields ==
  ASSUME NEW o, NEW f, NEW v, NEW n
  PROVE  /\ OutputOf(o, f, v, n).out = o /\ OutputOf(o, f, v, n).first = f
         /\ OutputOf(o, f, v, n).prev = v /\ OutputOf(o, f, v, n).count = n
BY DEF OutputOf

(* ... after something was printed, ...                                    *)
LEMMA OutputBegun ==
  ASSUME NEW o, NEW f, NEW v, NEW n
  PROVE  Begun(OutputOf(o, f, v, n)) = OutputOf(o, FALSE, v, n)
<1>x. PICK x : Is(x, FALSE)
  BY DEF Is
<1>1. [OutputOf(o, f, v, n) EXCEPT !.first = x] = OutputOf(o, x, v, n)
  BY DEF OutputOf
<1> QED BY <1>1, <1>x, Zenon DEF Is, Begun

(* ... with a text that is held back, ...                                  *)
LEMMA OutputHolding ==
  ASSUME NEW o, NEW f, NEW v, NEW n, NEW c
  PROVE  Holding(OutputOf(o, f, v, n), c) = OutputOf(o, f, c, n)
BY DEF OutputOf, Holding

(* ... that is printed, ...                                                *)
LEMMA OutputReleased ==
  ASSUME NEW o, NEW f, NEW v, NEW n
  PROVE  Released(OutputOf(o, f, v, n)) = OutputOf(o, FALSE, <<>>, n)
<1>x. PICK x : Is(x, FALSE)
  BY DEF Is
<1>y. PICK y : Is(y, <<>>)
  BY DEF Is
<1>1. [OutputOf(o, f, v, n) EXCEPT !.first = x, !.prev = y] = [[OutputOf(o, f, v, n) EXCEPT !.first = x] EXCEPT !.prev = y]
  OBVIOUS
<1>2. [OutputOf(o, f, v, n) EXCEPT !.first = x] = OutputOf(o, x, v, n)
  BY DEF OutputOf
<1>3. [OutputOf(o, x, v, n) EXCEPT !.prev = y] = OutputOf(o, x, y, n)
  BY DEF OutputOf
<1>4. [OutputOf(o, f, v, n) EXCEPT !.first = x, !.prev = y] = OutputOf(o, x, y, n)
  BY <1>1, <1>2, <1>3, Zenon
<1> QED BY <1>4, <1>x, <1>y, Zenon DEF Is, Released

(* ... with the results of a batch counted, ...                            *)
LEMMA OutputCounted ==
  ASSUME NEW o, NEW f, NEW v, NEW n, NEW b
  PROVE  Counted(OutputOf(o, f, v, n), b) = OutputOf(o, f, v, n + b.count)
<1>m. PICK m : Is(m, n + b.count)
  BY DEF Is
<1>1. OutputOf(o, f, v, n).count = n
  BY DEF OutputOf
<1>2. Counted(OutputOf(o, f, v, n), b) = [OutputOf(o, f, v, n) EXCEPT !.count = m]
  BY <1>1, <1>m, Zenon DEF Counted, Is
<1>3. [OutputOf(o, f, v, n) EXCEPT !.count = m] = OutputOf(o, f, v, m)
  BY DEF OutputOf
<1> QED BY <1>2, <1>3, <1>m, Zenon DEF Is

(* ... and with more output.                                               *)
LEMMA ExtendOutput ==
  ASSUME NEW o, NEW f, NEW v, NEW n, NEW x, NEW y
  PROVE  Extend(OutputOf(o, f, v, n), x, y) = OutputOf(Cat(Cat(o, x), y), f, v, n)
<1>z. PICK z : Is(z, (o \o x) \o y)
  BY DEF Is
<1>1. OutputOf(o, f, v, n).out = o
  BY DEF OutputOf
<1>2. Extend(OutputOf(o, f, v, n), x, y) = [OutputOf(o, f, v, n) EXCEPT !.out = z]
  BY <1>1, <1>z, Zenon DEF Extend, Is
<1>3. [OutputOf(o, f, v, n) EXCEPT !.out = z] = OutputOf(z, f, v, n)
  BY DEF OutputOf
<1> QED BY <1>2, <1>3, <1>z, Zenon DEF Is, Cat

(* The chain of a batch, whose text is that of a lot of features.          *)
Holds(k, c, lot) == c \in Chains(k) /\ FlattenSeq(c) = Texts(k, lot) /\ lot \in Seq(Sized(k))

(* What is printed of the texts of a lot of features: all of it, or all    *)
(* but the first separator.                                                *)
LEMMA PrintHeld ==
  ASSUME NEW k, k.format \in TextFormats, NEW c, NEW lot, Holds(k, c, lot), NEW o, NEW f, NEW v, NEW n, NEW prefix
  PROVE  /\ HasText(c) <=> lot # <<>>
         /\ lot = <<>> => \A skip \in {0, 1} : PrintBatch(OutputOf(o, f, v, n), c, prefix, skip) = OutputOf(o, f, v, n)
         /\ lot # <<>> =>
              /\ PrintBatch(OutputOf(o, f, v, n), c, prefix, 0) = OutputOf(Cat(Cat(o, prefix), Texts(k, lot)), f, v, n)
              /\ PrintBatch(OutputOf(o, f, v, n), c, prefix, 1) = OutputOf(Cat(Cat(o, prefix), Body(Texts(k, lot))), f, v, n)
<1>t. PICK t : Is(t, Texts(k, lot))
  BY DEF Is
<1>p. PICK p : Is(p, OutputOf(o, f, v, n))
  BY DEF Is
<1>1. c \in Chains(k) /\ t = FlattenSeq(c)
  BY <1>t, Zenon DEF Holds, Is
<1>2. lot = <<>> => t = <<>>
  BY <1>t, TextsEmpty, Zenon DEF Is
<1>3. lot # <<>> => Len(t) >= 2 /\ t # <<>>
  <2> SUFFICES ASSUME lot # <<>> PROVE Len(t) >= 2 /\ t # <<>>
    OBVIOUS
  <2>1. lot \in Seq(Sized(k))
    BY DEF Holds
  <2>2. Len(Texts(k, lot)) \in Nat /\ Len(Texts(k, lot)) >= 2
    BY <2>1, TextsLong, Zenon
  <2>3. Len(t) \in Nat /\ Len(t) >= 2
    BY <2>2, <1>t, Zenon DEF Is
  <2> QED BY <2>3, EmptyFacts, Zenon
<1>4. /\ HasText(c) <=> t # <<>>
      /\ t = <<>> => \A skip \in {0, 1} : PrintBatch(p, c, prefix, skip) = p
      /\ t # <<>> => /\ PrintBatch(p, c, prefix, 0) = Extend(p, prefix, t)
                     /\ PrintBatch(p, c, prefix, 1) = Extend(p, prefix, Body(t))
  <2>1. t = <<>> \/ Len(t) >= 2
    BY <1>2, <1>3, Zenon
  <2> QED BY <1>1, <2>1, PrintChain
<1>5. /\ Extend(p, prefix, t) = OutputOf(Cat(Cat(o, prefix), t), f, v, n)
      /\ Extend(p, prefix, Body(t)) = OutputOf(Cat(Cat(o, prefix), Body(t)), f, v, n)
  <2>1. /\ Extend(OutputOf(o, f, v, n), prefix, t) = OutputOf(Cat(Cat(o, prefix), t), f, v, n)
        /\ Extend(OutputOf(o, f, v, n), prefix, Body(t)) = OutputOf(Cat(Cat(o, prefix), Body(t)), f, v, n)
    BY ExtendOutput
  <2> QED BY <1>p, <2>1, Zenon DEF Is
<1>6. lot = <<>> => \A skip \in {0, 1} : PrintBatch(p, c, prefix, skip) = p
  BY <1>2, <1>4, Zenon
<1>7. lot # <<>> =>
        /\ PrintBatch(p, c, prefix, 0) = OutputOf(Cat(Cat(o, prefix), t), f, v, n)
        /\ PrintBatch(p, c, prefix, 1) = OutputOf(Cat(Cat(o, prefix), Body(t)), f, v, n)
  BY <1>3, <1>4, <1>5, Zenon
<1>8. HasText(c) <=> lot # <<>>
  BY <1>2, <1>3, <1>4, Zenon
<1> QED BY <1>6, <1>7, <1>8, <1>t, <1>p, Zenon DEF Is

(* The texts of a lot after those of others.                               *)
LEMMA TextsMore ==
  ASSUME NEW k, k.format \in Formats, NEW S, S \in Seq(Sized(k)), NEW lot, lot \in Seq(Sized(k))
  PROVE  /\ Texts(k, Cat(S, lot)) = Cat(Texts(k, S), Texts(k, lot)) /\ Cat(S, lot) \in Seq(Sized(k))
         /\ Texts(k, S) \in Seq(Tokens(k)) /\ Texts(k, lot) \in Seq(Tokens(k))
         /\ lot = <<>> => Cat(S, lot) = S
         /\ S = <<>> => Cat(S, lot) = lot /\ Texts(k, S) = <<>>
         /\ Cat(S, lot) = <<>> <=> S = <<>> /\ lot = <<>>
         /\ k.format \in TextFormats /\ S # <<>> => Texts(k, S) # <<>>
<1>1. Texts(k, Cat(S, lot)) = Cat(Texts(k, S), Texts(k, lot))
  BY TextsConcat DEF Cat
<1>2. Texts(k, S) \in Seq(Tokens(k)) /\ Texts(k, lot) \in Seq(Tokens(k))
  BY TextsType
<1>3. (lot = <<>> => Cat(S, lot) = S) /\ (S = <<>> => Cat(S, lot) = lot) /\ Cat(S, lot) \in Seq(Sized(k))
  BY ConcatEmptySeq, ConcatProperties DEF Cat
<1>4. Cat(S, lot) = <<>> <=> S = <<>> /\ lot = <<>>
  BY ConcatEqualIffEmpty DEF Cat
<1>5. S = <<>> => Texts(k, S) = <<>>
  BY TextsEmpty
<1>6. ASSUME k.format \in TextFormats, S # <<>> PROVE Texts(k, S) # <<>>
  <2>1. Len(Texts(k, S)) \in Nat /\ Len(Texts(k, S)) >= 2
    BY <1>6, TextsLong, Zenon
  <2> QED BY <2>1, EmptyFacts, Zenon
<1> QED BY <1>1, <1>2, <1>3, <1>4, <1>5, <1>6, Zenon

(* The marks are texts.                                                    *)
LEMMA MarksType ==
  ASSUME NEW k
  PROVE  /\ Mark("{") \in Seq(Tokens(k)) /\ Mark("}") \in Seq(Tokens(k)) /\ Mark("(") \in Seq(Tokens(k))
         /\ Mark(")") \in Seq(Tokens(k)) /\ Mark("columns") \in Seq(Tokens(k)) /\ <<>> \in Seq(Tokens(k))
<1>1. "{" \in Marks /\ "}" \in Marks /\ "(" \in Marks /\ ")" \in Marks /\ "columns" \in Marks
  BY Zenon DEF Marks
<1> QED BY <1>1, MarkType, EmptySeq

(* What the printers do with a batch, in terms of PrintBatch.              *)
LEMMA JsonPrints ==
  ASSUME NEW o, NEW f, NEW v, NEW n, NEW b
  PROVE  PrintJson(OutputOf(o, f, v, n), b)
           = IF HasText(b.chain)
             THEN Begun(PrintBatch(OutputOf(o, f, v, n + b.count), b.chain, <<>>, IF f THEN 1 ELSE 0))
             ELSE OutputOf(o, f, v, n + b.count)
<1>1. Counted(OutputOf(o, f, v, n), b) = OutputOf(o, f, v, n + b.count)
  BY OutputCounted
<1>2. OutputOf(o, f, v, n).first = f
  BY OutputFields
<1> QED BY <1>1, <1>2, Zenon DEF PrintJson, Begun

(* What a WKT printer prints when it knows that it must go on.             *)
LEMMA HeldBackPrints ==
  ASSUME NEW o, NEW f, NEW v, NEW n
  PROVE  PrintHeldBack(OutputOf(o, f, v, n))
           = IF v = <<>> THEN OutputOf(o, f, v, n)
             ELSE Released(PrintBatch(OutputOf(o, f, v, n), v, IF f /\ n > 1 THEN Mark("(") ELSE <<>>,
                                      IF f THEN 1 ELSE 0))
<1>1. /\ OutputOf(o, f, v, n).first = f /\ OutputOf(o, f, v, n).prev = v /\ OutputOf(o, f, v, n).count = n
  BY OutputFields
<1> QED BY <1>1, Zenon DEF PrintHeldBack, Released

(* What it does with a batch.                                              *)
LEMMA WktPrints ==
  ASSUME NEW o, NEW f, NEW v, NEW n, NEW b
  PROVE  PrintWkt(OutputOf(o, f, v, n), b)
           = IF HasText(b.chain) THEN Holding(PrintHeldBack(OutputOf(o, f, v, n + b.count)), b.chain)
             ELSE OutputOf(o, f, v, n + b.count)
<1>1. Counted(OutputOf(o, f, v, n), b) = OutputOf(o, f, v, n + b.count)
  BY OutputCounted
<1> QED BY <1>1, Zenon DEF PrintWkt, Holding

(* Membership of formats.                                                  *)
LEMMA IsFormats ==
  \A x : /\ x \in {"geojson", "geojsonl", "csv", "list", "wkt"} => x \in TextFormats /\ x \in Formats
         /\ x \in TextFormats => x \in Formats
         /\ x = "brief" => x \in Formats
         /\ x = "geojson" \/ x = "wkt" => x \in TextFormats /\ x \in Formats
BY DEF TextFormats, Formats

(* Whether nothing is there.                                               *)
Empty(s) == s = <<>>

(* GeoJSON: whatever is printed first loses its comma.                     *)
LEMMA JsonStep ==
  ASSUME NEW k, k.format \in {"geojson"}, NEW base, base \in Seq(Tokens(k)), NEW S, S \in Seq(Sized(k)), NEW lot,
         NEW b, Holds(k, b.chain, lot), NEW v, NEW n
  PROVE  PrintJson(OutputOf(Cat(base, Body(Texts(k, S))), Empty(S), v, n), b)
            = OutputOf(Cat(base, Body(Texts(k, Cat(S, lot)))), Empty(Cat(S, lot)), v, n + b.count)
<1>f. PICK f : Is(f, Empty(S))
  BY DEF Is
<1>o. PICK o : Is(o, Cat(base, Body(Texts(k, S))))
  BY DEF Is
<1>m. PICK m : Is(m, n + b.count)
  BY DEF Is
<1>t. PICK t : Is(t, Texts(k, lot))
  BY DEF Is
<1>x. PICK x : Is(x, Texts(k, S))
  BY DEF Is
<1>c. PICK c : Is(c, b.chain)
  BY DEF Is
<1>1. k.format \in TextFormats /\ k.format \in Formats /\ lot \in Seq(Sized(k)) /\ Holds(k, c, lot)
  <2>1. lot \in Seq(Sized(k)) /\ Holds(k, c, lot)
    BY <1>c, Zenon DEF Holds, Is
  <2> QED BY <2>1, IsFormats, Zenon
<1>2. /\ Texts(k, Cat(S, lot)) = Cat(x, t)
      /\ x \in Seq(Tokens(k)) /\ t \in Seq(Tokens(k))
      /\ lot = <<>> => Cat(S, lot) = S
      /\ S = <<>> => x = <<>> /\ Cat(x, t) = t
      /\ Cat(S, lot) = <<>> <=> S = <<>> /\ lot = <<>>
      /\ S # <<>> => x # <<>>
  <2>1. /\ Texts(k, Cat(S, lot)) = Cat(Texts(k, S), Texts(k, lot))
        /\ Texts(k, S) \in Seq(Tokens(k)) /\ Texts(k, lot) \in Seq(Tokens(k))
        /\ lot = <<>> => Cat(S, lot) = S
        /\ S = <<>> => Texts(k, S) = <<>>
        /\ Cat(S, lot) = <<>> <=> S = <<>> /\ lot = <<>>
        /\ S # <<>> => Texts(k, S) # <<>>
    <3>1. lot \in Seq(Sized(k)) /\ k.format \in Formats /\ k.format \in TextFormats
      BY <1>1
    <3> QED BY <3>1, TextsMore
  <2>2. Cat(<<>>, Texts(k, lot)) = Texts(k, lot)
    BY <2>1, CatFacts
  <2> QED BY <1>x, <1>t, <2>1, <2>2, Zenon DEF Is
<1>5. /\ HasText(c) <=> lot # <<>>
      /\ lot # <<>> =>
              /\ PrintBatch(OutputOf(o, f, v, m), c, <<>>, 0) = OutputOf(Cat(Cat(o, <<>>), t), f, v, m)
              /\ PrintBatch(OutputOf(o, f, v, m), c, <<>>, 1) = OutputOf(Cat(Cat(o, <<>>), Body(t)), f, v, m)
  <2>1. /\ HasText(c) <=> lot # <<>>
        /\ lot # <<>> =>
              /\ PrintBatch(OutputOf(o, f, v, m), c, <<>>, 0) = OutputOf(Cat(Cat(o, <<>>), Texts(k, lot)), f, v, m)
              /\ PrintBatch(OutputOf(o, f, v, m), c, <<>>, 1) = OutputOf(Cat(Cat(o, <<>>), Body(Texts(k, lot))), f, v, m)
    <3>1. HasText(c) <=> lot # <<>>
      BY <1>1, PrintHeld
    <3>2. lot # <<>> =>
              /\ PrintBatch(OutputOf(o, f, v, m), c, <<>>, 0) = OutputOf(Cat(Cat(o, <<>>), Texts(k, lot)), f, v, m)
              /\ PrintBatch(OutputOf(o, f, v, m), c, <<>>, 1) = OutputOf(Cat(Cat(o, <<>>), Body(Texts(k, lot))), f, v, m)
      BY <1>1, PrintHeld
    <3> QED BY <3>1, <3>2, Zenon
  <2> QED BY <1>t, <2>1, Zenon DEF Is
<1>6. PrintJson(OutputOf(o, f, v, n), b)
        = IF HasText(c) THEN Begun(PrintBatch(OutputOf(o, f, v, m), c, <<>>, IF f THEN 1 ELSE 0))
          ELSE OutputOf(o, f, v, m)
  <2>1. PrintJson(OutputOf(o, f, v, n), b)
           = IF HasText(b.chain)
             THEN Begun(PrintBatch(OutputOf(o, f, v, n + b.count), b.chain, <<>>, IF f THEN 1 ELSE 0))
             ELSE OutputOf(o, f, v, n + b.count)
    BY JsonPrints
  <2> QED BY <1>m, <1>c, <2>1, Zenon DEF Is
<1>7. CASE lot = <<>>
  <2>1. PrintJson(OutputOf(o, f, v, n), b) = OutputOf(o, f, v, m)
    BY <1>5, <1>6, <1>7, Zenon
  <2>2. Cat(S, lot) = S
    BY <1>2, <1>7, Zenon
  <2> QED BY <1>o, <1>m, <1>f, <2>1, <2>2, Zenon DEF Is
<1>8. CASE lot # <<>> /\ S = <<>>
  <2>1. PrintJson(OutputOf(o, f, v, n), b) = Begun(OutputOf(Cat(Cat(o, <<>>), Body(t)), f, v, m))
    <3>1. HasText(c) /\ (IF f THEN 1 ELSE 0) = 1
      BY <1>5, <1>8, <1>f, Zenon DEF Empty, Is
    <3> QED BY <1>5, <1>6, <1>8, <3>1, Zenon
  <2>2. Begun(OutputOf(Cat(Cat(o, <<>>), Body(t)), f, v, m)) = OutputOf(Cat(Cat(o, <<>>), Body(t)), FALSE, v, m)
    BY OutputBegun
  <2>3. Cat(Cat(o, <<>>), Body(t)) = Cat(base, Body(Texts(k, Cat(S, lot))))
    <3>1. Cat(Cat(Cat(base, Body(<<>>)), <<>>), Body(t)) = Cat(base, Body(t))
      BY <1>2, BodyMore
    <3>2. o = Cat(base, Body(<<>>)) /\ Texts(k, Cat(S, lot)) = t
      BY <1>o, <1>x, <1>2, <1>8, Zenon DEF Is
    <3> QED BY <3>1, <3>2, Zenon
  <2>4. Empty(Cat(S, lot)) = FALSE
    BY <1>2, <1>8, Zenon DEF Empty
  <2> QED BY <1>o, <1>m, <1>f, <2>1, <2>2, <2>3, <2>4, Zenon DEF Is
<1>9. CASE lot # <<>> /\ S # <<>>
  <2>1. PrintJson(OutputOf(o, f, v, n), b) = Begun(OutputOf(Cat(Cat(o, <<>>), t), f, v, m))
    <3>1. HasText(c) /\ (IF f THEN 1 ELSE 0) = 0
      BY <1>5, <1>9, <1>f, Zenon DEF Empty, Is
    <3> QED BY <1>5, <1>6, <1>9, <3>1, Zenon
  <2>2. Begun(OutputOf(Cat(Cat(o, <<>>), t), f, v, m)) = OutputOf(Cat(Cat(o, <<>>), t), FALSE, v, m)
    BY OutputBegun
  <2>3. Cat(Cat(o, <<>>), t) = Cat(base, Body(Texts(k, Cat(S, lot))))
    <3>2. Cat(Cat(Cat(base, Body(x)), <<>>), t) = Cat(base, Body(Cat(x, t)))
      <4>1. x \in Seq(Tokens(k)) /\ x # <<>> /\ t \in Seq(Tokens(k))
        BY <1>2, <1>9
      <4> QED BY <4>1, BodyMore
    <3>3. o = Cat(base, Body(x)) /\ Texts(k, Cat(S, lot)) = Cat(x, t)
      BY <1>o, <1>x, <1>2, Zenon DEF Is
    <3> QED BY <3>2, <3>3, Zenon
  <2>4. Empty(Cat(S, lot)) = FALSE
    BY <1>2, <1>9, Zenon DEF Empty
  <2> QED BY <1>o, <1>m, <1>f, <2>1, <2>2, <2>3, <2>4, Zenon DEF Is
<1> QED BY <1>7, <1>8, <1>9

(* The formats of lines.                                                   *)
LEMMA LinesStep ==
  ASSUME NEW k, k.format \in {"geojsonl", "csv", "list"}, NEW base, base \in Seq(Tokens(k)), NEW S, S \in Seq(Sized(k)),
         NEW lot, NEW b, Holds(k, b.chain, lot), NEW f, NEW v, NEW n
  PROVE  PrintBatch(Counted(OutputOf(Cat(base, Texts(k, S)), f, v, n), b), b.chain, <<>>, 0)
            = OutputOf(Cat(base, Texts(k, Cat(S, lot))), f, v, n + b.count)
<1>o. PICK o : Is(o, Cat(base, Texts(k, S)))
  BY DEF Is
<1>m. PICK m : Is(m, n + b.count)
  BY DEF Is
<1>t. PICK t : Is(t, Texts(k, lot))
  BY DEF Is
<1>x. PICK x : Is(x, Texts(k, S))
  BY DEF Is
<1>c. PICK c : Is(c, b.chain)
  BY DEF Is
<1>1. k.format \in TextFormats /\ k.format \in Formats /\ lot \in Seq(Sized(k)) /\ Holds(k, c, lot)
  <2>1. lot \in Seq(Sized(k)) /\ Holds(k, c, lot)
    BY <1>c, Zenon DEF Holds, Is
  <2> QED BY <2>1 DEF TextFormats, Formats
<1>2. /\ Texts(k, Cat(S, lot)) = Cat(x, t)
      /\ x \in Seq(Tokens(k)) /\ t \in Seq(Tokens(k))
      /\ lot = <<>> => Cat(S, lot) = S
  <2>1. /\ Texts(k, Cat(S, lot)) = Cat(Texts(k, S), Texts(k, lot))
        /\ Texts(k, S) \in Seq(Tokens(k)) /\ Texts(k, lot) \in Seq(Tokens(k))
        /\ lot = <<>> => Cat(S, lot) = S
    <3>1. lot \in Seq(Sized(k)) /\ k.format \in Formats /\ k.format \in TextFormats
      BY <1>1
    <3> QED BY <3>1, TextsMore
  <2> QED BY <1>x, <1>t, <2>1, Zenon DEF Is
<1>3. Counted(OutputOf(o, f, v, n), b) = OutputOf(o, f, v, m)
  <2>1. Counted(OutputOf(o, f, v, n), b) = OutputOf(o, f, v, n + b.count)
    BY OutputCounted
  <2> QED BY <1>m, <2>1, Zenon DEF Is
<1>4. /\ lot = <<>> => PrintBatch(OutputOf(o, f, v, m), c, <<>>, 0) = OutputOf(o, f, v, m)
      /\ lot # <<>> => PrintBatch(OutputOf(o, f, v, m), c, <<>>, 0) = OutputOf(Cat(Cat(o, <<>>), t), f, v, m)
  <2>1. /\ lot = <<>> => \A skip \in {0, 1} : PrintBatch(OutputOf(o, f, v, m), c, <<>>, skip) = OutputOf(o, f, v, m)
        /\ lot # <<>> => PrintBatch(OutputOf(o, f, v, m), c, <<>>, 0) = OutputOf(Cat(Cat(o, <<>>), Texts(k, lot)), f, v, m)
    BY <1>1, PrintHeld
  <2> QED BY <1>t, <2>1, Zenon DEF Is
<1>5. Cat(Cat(o, <<>>), t) = Cat(base, Texts(k, Cat(S, lot)))
  <2>1. x \in Seq(Tokens(k)) /\ t \in Seq(Tokens(k))
    BY <1>2
  <2>2. Cat(Cat(Cat(base, x), <<>>), t) = Cat(base, Cat(x, t))
    BY <2>1, BodyMore
  <2>3. o = Cat(base, x) /\ Texts(k, Cat(S, lot)) = Cat(x, t)
    BY <1>o, <1>x, <1>2, Zenon DEF Is
  <2> QED BY <2>2, <2>3, Zenon
<1>6. CASE lot = <<>>
  BY <1>o, <1>m, <1>c, <1>2, <1>3, <1>4, <1>6, Zenon DEF Is
<1>7. CASE lot # <<>>
  BY <1>o, <1>m, <1>c, <1>3, <1>4, <1>5, <1>7, Zenon DEF Is
<1> QED BY <1>6, <1>7

(* The format.                                                             *)
IsWkt(k) == k.format \in {"wkt"}

(* WKT: what is held back is printed when it is known whether there is more.  *)
WktOut(k, s) == IF s = <<>> THEN <<>> ELSE Cat(Mark("("), Body(Texts(k, s)))
(* Features s were printed, and features h are held back, in chain v.      *)
WktState(k, s, h, v) ==
  /\ s \in Seq(Sized(k)) /\ h \in Seq(Sized(k))
  /\ h = <<>> => v = <<>> /\ s = <<>>
  /\ h # <<>> => Holds(k, v, h)

(* Output after which nothing is held back.                                *)
Shown(o, n) == OutputOf(o, FALSE, <<>>, n)

(* What the output becomes when features h are printed after s: a bracket  *)
(* is opened before the first if there are several.                        *)
HeldBackShown(k, s, h, v, n) ==
  /\ Empty(s) /\ ~(n > 1) =>
       PrintHeldBack(OutputOf(WktOut(k, s), Empty(s), v, n)) = Shown(Body(Texts(k, h)), n)
  /\ ~Empty(s) \/ n > 1 =>
       PrintHeldBack(OutputOf(WktOut(k, s), Empty(s), v, n)) = Shown(Cat(Mark("("), Body(Texts(k, Cat(s, h)))), n)

(* So it becomes.                                                          *)
LEMMA HeldBack ==
  ASSUME NEW k, IsWkt(k), NEW s, s \in Seq(Sized(k)), NEW h, h \in Seq(Sized(k)), NEW v,
         Holds(k, v, h), h # <<>>, NEW n
  PROVE  HeldBackShown(k, s, h, v, n)
<1>f. PICK f : Is(f, Empty(s))
  BY DEF Is
<1>o. PICK o : Is(o, WktOut(k, s))
  BY DEF Is
<1>t. PICK t : Is(t, Texts(k, h))
  BY DEF Is
<1>x. PICK x : Is(x, Texts(k, s))
  BY DEF Is
<1>p. PICK p : Is(p, Mark("("))
  BY DEF Is
<1>1. k.format \in TextFormats /\ k.format \in Formats
  BY IsFormats, Zenon DEF IsWkt
<1>2. p \in Seq(Tokens(k))
  BY <1>p, MarksType DEF Is
<1>3. /\ Texts(k, Cat(s, h)) = Cat(x, t)
      /\ x \in Seq(Tokens(k)) /\ t \in Seq(Tokens(k))
      /\ s = <<>> => Texts(k, Cat(s, h)) = t
      /\ s # <<>> => x # <<>>
  <2>1. /\ Texts(k, Cat(s, h)) = Cat(Texts(k, s), Texts(k, h))
        /\ Texts(k, s) \in Seq(Tokens(k)) /\ Texts(k, h) \in Seq(Tokens(k))
        /\ s = <<>> => Cat(s, h) = h
        /\ s # <<>> => Texts(k, s) # <<>>
    BY <1>1, TextsMore
  <2> QED BY <1>x, <1>t, <2>1, Zenon DEF Is
<1>4. HasText(v)
  BY <1>1, PrintHeld
<1>5. v # <<>>
  BY <1>4, Zenon DEF HasText
<1>6. ASSUME NEW w
      PROVE  /\ PrintBatch(OutputOf(o, f, v, n), v, w, 0) = OutputOf(Cat(Cat(o, w), t), f, v, n)
             /\ PrintBatch(OutputOf(o, f, v, n), v, w, 1) = OutputOf(Cat(Cat(o, w), Body(t)), f, v, n)
  <2>1. /\ PrintBatch(OutputOf(o, f, v, n), v, w, 0) = OutputOf(Cat(Cat(o, w), Texts(k, h)), f, v, n)
        /\ PrintBatch(OutputOf(o, f, v, n), v, w, 1) = OutputOf(Cat(Cat(o, w), Body(Texts(k, h))), f, v, n)
    BY <1>1, PrintHeld
  <2> QED BY <1>t, <2>1, Zenon DEF Is
<1>7. PrintHeldBack(OutputOf(o, f, v, n))
        = Released(PrintBatch(OutputOf(o, f, v, n), v, IF f /\ n > 1 THEN Mark("(") ELSE <<>>, IF f THEN 1 ELSE 0))
  BY <1>5, HeldBackPrints
<1>8. ASSUME s = <<>>, ~(n > 1) PROVE PrintHeldBack(OutputOf(o, f, v, n)) = OutputOf(Body(t), FALSE, <<>>, n)
  <2>1. (IF f /\ n > 1 THEN Mark("(") ELSE <<>>) = <<>> /\ (IF f THEN 1 ELSE 0) = 1
    BY <1>8, <1>f, Zenon DEF Is, Empty
  <2>2. PrintHeldBack(OutputOf(o, f, v, n)) = Released(OutputOf(Cat(Cat(o, <<>>), Body(t)), f, v, n))
    BY <1>6, <1>7, <2>1, Zenon
  <2>3. Released(OutputOf(Cat(Cat(o, <<>>), Body(t)), f, v, n)) = OutputOf(Cat(Cat(o, <<>>), Body(t)), FALSE, <<>>, n)
    BY OutputReleased
  <2>4. Cat(Cat(<<>>, <<>>), Body(t)) = Body(t)
    BY <1>3, BodyMore
  <2>5. o = <<>>
    BY <1>8, <1>o, Zenon DEF Is, WktOut
  <2> QED BY <2>2, <2>3, <2>4, <2>5, Zenon
<1>9. ASSUME s = <<>>, n > 1
      PROVE  PrintHeldBack(OutputOf(o, f, v, n)) = OutputOf(Cat(p, Body(Texts(k, Cat(s, h)))), FALSE, <<>>, n)
  <2>1. (IF f /\ n > 1 THEN Mark("(") ELSE <<>>) = p /\ (IF f THEN 1 ELSE 0) = 1
    BY <1>9, <1>f, <1>p, Zenon DEF Is, Empty
  <2>2. PrintHeldBack(OutputOf(o, f, v, n)) = Released(OutputOf(Cat(Cat(o, p), Body(t)), f, v, n))
    BY <1>6, <1>7, <2>1, Zenon
  <2>3. Released(OutputOf(Cat(Cat(o, p), Body(t)), f, v, n)) = OutputOf(Cat(Cat(o, p), Body(t)), FALSE, <<>>, n)
    BY OutputReleased
  <2>4. Cat(Cat(<<>>, p), Body(t)) = Cat(p, Body(t))
    BY <1>2, <1>3, BodyMore
  <2>5. o = <<>>
    BY <1>9, <1>o, Zenon DEF Is, WktOut
  <2> QED BY <1>3, <1>9, <2>2, <2>3, <2>4, <2>5, Zenon
<1>10. ASSUME s # <<>>
      PROVE  PrintHeldBack(OutputOf(o, f, v, n)) = OutputOf(Cat(p, Body(Texts(k, Cat(s, h)))), FALSE, <<>>, n)
  <2>1. (IF f /\ n > 1 THEN Mark("(") ELSE <<>>) = <<>> /\ (IF f THEN 1 ELSE 0) = 0
    BY <1>10, <1>f, Zenon DEF Is, Empty
  <2>2. PrintHeldBack(OutputOf(o, f, v, n)) = Released(OutputOf(Cat(Cat(o, <<>>), t), f, v, n))
    BY <1>6, <1>7, <2>1, Zenon
  <2>3. Released(OutputOf(Cat(Cat(o, <<>>), t), f, v, n)) = OutputOf(Cat(Cat(o, <<>>), t), FALSE, <<>>, n)
    BY OutputReleased
  <2>4. Cat(Cat(Cat(p, Body(x)), <<>>), t) = Cat(p, Body(Cat(x, t)))
    <3>1. x \in Seq(Tokens(k)) /\ x # <<>> /\ t \in Seq(Tokens(k))
      BY <1>3, <1>10
    <3> QED BY <1>2, <3>1, BodyMore
  <2>5. o = Cat(p, Body(x))
    BY <1>10, <1>o, <1>p, <1>x, Zenon DEF Is, WktOut
  <2> QED BY <1>3, <2>2, <2>3, <2>4, <2>5, Zenon
<1> QED BY <1>8, <1>9, <1>10, <1>o, <1>f, <1>t, <1>p, Zenon DEF Is, Shown, Empty, HeldBackShown

(* With a bracket, if there are several.                                   *)
LEMMA HeldBackMore ==
  ASSUME NEW k, IsWkt(k), NEW s, s \in Seq(Sized(k)), NEW h, h \in Seq(Sized(k)), NEW v,
         Holds(k, v, h), h # <<>>, NEW n, n > 1
  PROVE  PrintHeldBack(OutputOf(WktOut(k, s), Empty(s), v, n))
           = Shown(Cat(Mark("("), Body(Texts(k, Cat(s, h)))), n)
<1>1. HeldBackShown(k, s, h, v, n)
  BY HeldBack
<1> QED BY <1>1, Zenon DEF HeldBackShown

(* The next text is held back instead.                                     *)
LEMMA WktStep ==
  ASSUME NEW k, IsWkt(k), NEW s, NEW h, NEW v, WktState(k, s, h, v), NEW lot,
         NEW b, Holds(k, b.chain, lot), NEW n, n \in Nat, b.count \in Nat,
         Len(Cat(Cat(s, h), lot)) <= n + b.count
  PROVE  \E u, g, w : /\ WktState(k, u, g, w) /\ Cat(u, g) = Cat(Cat(s, h), lot)
                      /\ PrintWkt(OutputOf(WktOut(k, s), Empty(s), v, n), b)
                           = OutputOf(WktOut(k, u), Empty(u), w, n + b.count)
<1>m. PICK m : Is(m, n + b.count)
  BY DEF Is
<1>c. PICK c : Is(c, b.chain)
  BY DEF Is
<1>1. k.format \in TextFormats /\ k.format \in Formats
  BY IsFormats, Zenon DEF IsWkt
<1>2. s \in Seq(Sized(k)) /\ h \in Seq(Sized(k)) /\ lot \in Seq(Sized(k)) /\ Holds(k, c, lot)
  BY <1>c, Zenon DEF WktState, Holds, Is
<1>3. HasText(c) <=> lot # <<>>
  BY <1>1, <1>2, PrintHeld
<1>4. PrintWkt(OutputOf(WktOut(k, s), Empty(s), v, n), b)
           = IF HasText(c) THEN Holding(PrintHeldBack(OutputOf(WktOut(k, s), Empty(s), v, m)), c)
             ELSE OutputOf(WktOut(k, s), Empty(s), v, m)
  <2>1. PrintWkt(OutputOf(WktOut(k, s), Empty(s), v, n), b)
           = IF HasText(b.chain) THEN Holding(PrintHeldBack(OutputOf(WktOut(k, s), Empty(s), v, n + b.count)), b.chain)
             ELSE OutputOf(WktOut(k, s), Empty(s), v, n + b.count)
    BY WktPrints
  <2> QED BY <2>1, <1>m, <1>c, Zenon DEF Is
<1>5. /\ Cat(s, h) \in Seq(Sized(k)) /\ Cat(Cat(s, h), <<>>) = Cat(s, h) /\ Cat(<<>>, lot) = lot /\ Cat(<<>>, <<>>) = <<>>
      /\ h # <<>> => Cat(s, h) # <<>>
      /\ Len(Cat(Cat(s, h), lot)) = (Len(s) + Len(h)) + Len(lot)
      /\ Len(s) \in Nat /\ Len(h) \in Nat /\ Len(lot) \in Nat
      /\ (h # <<>> => Len(h) # 0) /\ (lot # <<>> => Len(lot) # 0)
  <2>0. <<>> \in Seq(Sized(k))
    BY EmptySeq
  <2>1. Cat(s, h) \in Seq(Sized(k)) /\ Len(Cat(s, h)) = Len(s) + Len(h)
    BY <1>2, CatFacts
  <2>2. Cat(Cat(s, h), <<>>) = Cat(s, h) /\ Cat(<<>>, lot) = lot /\ Cat(<<>>, <<>>) = <<>>
    <3>1. \A u \in Seq(Sized(k)) : Cat(u, <<>>) = u /\ Cat(<<>>, u) = u
      BY CatFacts
    <3>2. Cat(Cat(s, h), <<>>) = Cat(s, h)
      BY <2>1, <3>1
    <3>3. Cat(<<>>, lot) = lot
      BY <1>2, <3>1
    <3>4. Cat(<<>>, <<>>) = <<>>
      BY <2>0, <3>1
    <3> QED BY <3>2, <3>3, <3>4
  <2>3. Len(Cat(Cat(s, h), lot)) = Len(Cat(s, h)) + Len(lot)
    <3>1. \A x, y \in Seq(Sized(k)) : Len(Cat(x, y)) = Len(x) + Len(y)
      BY CatFacts
    <3> QED BY <1>2, <2>1, <3>1
  <2>4. /\ Len(s) \in Nat /\ Len(h) \in Nat /\ Len(lot) \in Nat
        /\ (h # <<>> => Len(h) # 0) /\ (lot # <<>> => Len(lot) # 0)
    BY <1>2, EmptySeq, LenProperties
  <2>5. h # <<>> => Cat(s, h) # <<>>
    <3> SUFFICES ASSUME h # <<>> PROVE Cat(s, h) # <<>>
      OBVIOUS
    <3>1. Len(Cat(s, h)) # 0
      BY <2>1, <2>4
    <3> QED BY <3>1, EmptyFacts, Zenon
  <2> QED BY <2>1, <2>2, <2>3, <2>4, <2>5
<1>6. CASE lot = <<>>
  <2>1. WktState(k, s, h, v) /\ Cat(s, h) = Cat(Cat(s, h), lot)
    BY <1>5, <1>6
  <2>2. PrintWkt(OutputOf(WktOut(k, s), Empty(s), v, n), b) = OutputOf(WktOut(k, s), Empty(s), v, m)
    BY <1>3, <1>4, <1>6, Zenon
  <2> QED BY <2>1, <2>2, <1>m, Zenon DEF Is
<1>7. CASE lot # <<>> /\ h = <<>>
  <2>1. s = <<>> /\ v = <<>>
    BY <1>7 DEF WktState
  <2>2. PrintHeldBack(OutputOf(WktOut(k, s), Empty(s), v, m)) = OutputOf(WktOut(k, s), Empty(s), v, m)
    BY <2>1, HeldBackPrints
  <2>3. Holding(OutputOf(WktOut(k, s), Empty(s), v, m), c) = OutputOf(WktOut(k, s), Empty(s), c, m)
    BY OutputHolding
  <2>4. PrintWkt(OutputOf(WktOut(k, s), Empty(s), v, n), b) = OutputOf(WktOut(k, s), Empty(s), c, m)
    BY <1>3, <1>4, <1>7, <2>2, <2>3, Zenon
  <2>5. WktState(k, s, lot, c)
    BY <1>2, <1>7, Zenon DEF WktState
  <2>6. Cat(s, lot) = Cat(Cat(s, h), lot)
    BY <1>5, <1>7, <2>1, Zenon
  <2> QED BY <2>4, <2>5, <2>6, <1>m, Zenon DEF Is
<1>8. CASE lot # <<>> /\ h # <<>>
  <2>u. PICK u : Is(u, Cat(s, h))
    BY DEF Is
  <2>1. m > 1
    <3>1. Len(Cat(Cat(s, h), lot)) > 1
      BY <1>5, <1>8
    <3>2. n + b.count > 1
      BY <1>5, <3>1
    <3> QED BY <3>2, <1>m, Zenon DEF Is
  <2>2. Holds(k, v, h)
    BY <1>8 DEF WktState
  <2>3. PrintHeldBack(OutputOf(WktOut(k, s), Empty(s), v, m))
          = Shown(Cat(Mark("("), Body(Texts(k, Cat(s, h)))), m)
    <3>1. h # <<>>
      BY <1>8
    <3>2. s \in Seq(Sized(k)) /\ h \in Seq(Sized(k))
      BY <1>2
    <3> QED BY <2>1, <2>2, <3>1, <3>2, HeldBackMore
  <2>4. u # <<>> /\ u \in Seq(Sized(k))
    BY <1>5, <1>8, <2>u, Zenon DEF Is
  <2>5. PrintHeldBack(OutputOf(WktOut(k, s), Empty(s), v, m)) = OutputOf(WktOut(k, u), FALSE, <<>>, m)
    BY <2>u, <2>3, <2>4, Zenon DEF Is, WktOut, Shown
  <2>6. Empty(u) = FALSE
    BY <2>4, Zenon DEF Empty
  <2>7. Holding(OutputOf(WktOut(k, u), Empty(u), <<>>, m), c) = OutputOf(WktOut(k, u), Empty(u), c, m)
    BY OutputHolding
  <2>8. PrintWkt(OutputOf(WktOut(k, s), Empty(s), v, n), b) = OutputOf(WktOut(k, u), Empty(u), c, m)
    BY <1>3, <1>4, <1>8, <2>5, <2>6, <2>7, Zenon
  <2>9. WktState(k, u, lot, c)
    BY <1>2, <1>8, <2>4, Zenon DEF WktState
  <2>10. Cat(u, lot) = Cat(Cat(s, h), lot)
    BY <2>u, Zenon DEF Is
  <2> QED BY <2>8, <2>9, <2>10, <1>m, Zenon DEF Is
<1> QED BY <1>6, <1>7, <1>8

(* The format.                                                             *)
IsBrief(k) == k.format \in {"brief"}

(* Brief: features are held back until there are enough of them.           *)
LEMMA BriefTexts ==
  ASSUME NEW k, IsBrief(k), NEW v, v \in Seq(Sized(k))
  PROVE  FlattenSeq([i \in DOMAIN v |-> Text(v[i], k.sizes[v[i]])]) = Texts(k, v)
<1>1. DOMAIN v = 1..Len(v)
  BY LenProperties
<1>2. \A i \in 1..Len(v) : TextOf(k, v[i]) = Text(v[i], k.sizes[v[i]])
  BY DEF TextOf, IsBrief
<1>3. [i \in DOMAIN v |-> Text(v[i], k.sizes[v[i]])] = [i \in 1..Len(v) |-> TextOf(k, v[i])]
  BY <1>1, <1>2
<1> QED BY <1>3, Zenon DEF Texts

(* The features that were collected are printed.                           *)
LEMMA BriefPrints ==
  ASSUME NEW k, IsBrief(k), NEW o, NEW f, NEW v, v \in Seq(Sized(k)), NEW n
  PROVE  PrintFeatures(OutputOf(o, f, v, n), k.sizes) = OutputOf(Cat(o, Texts(k, v)), f, <<>>, n)
<1>p. PICK p : Is(p, OutputOf(o, f, v, n))
  BY DEF Is
<1>t. PICK t : Is(t, Texts(k, v))
  BY DEF Is
<1>1. p.prev = v /\ p.out = o
  BY <1>p, OutputFields DEF Is
<1>2. FlattenSeq([i \in DOMAIN p.prev |-> Text(p.prev[i], k.sizes[p.prev[i]])]) = t
  BY <1>1, <1>t, BriefTexts DEF Is
<1>3. PrintFeatures(p, k.sizes) = [p EXCEPT !.out = @ \o t, !.prev = <<>>]
  BY <1>2, Zenon DEF PrintFeatures
<1>z. PICK z : Is(z, <<>>)
  BY DEF Is
<1>c. PICK c : Is(c, Cat(o, t))
  BY DEF Is
<1>4. [p EXCEPT !.out = @ \o t, !.prev = z] = [p EXCEPT !.out = c, !.prev = z]
  BY <1>1, <1>c, Zenon DEF Is, Cat
<1>5. [OutputOf(o, f, v, n) EXCEPT !.out = c, !.prev = z] = OutputOf(c, f, z, n)
  <2>1. [OutputOf(o, f, v, n) EXCEPT !.out = c, !.prev = z] = [[OutputOf(o, f, v, n) EXCEPT !.out = c] EXCEPT !.prev = z]
    OBVIOUS
  <2>2. [OutputOf(o, f, v, n) EXCEPT !.out = c] = OutputOf(c, f, v, n)
    BY DEF OutputOf
  <2>3. [OutputOf(c, f, v, n) EXCEPT !.prev = z] = OutputOf(c, f, z, n)
    BY DEF OutputOf
  <2> QED BY <2>1, <2>2, <2>3, Zenon
<1> QED BY <1>3, <1>4, <1>5, <1>p, <1>t, <1>c, <1>z, Zenon DEF Is

(* A feature is added to them, which may make the batch complete.          *)
LEMMA BriefOne ==
  ASSUME NEW k, IsBrief(k), NEW o, NEW f, NEW v, v \in Seq(Sized(k)), NEW n, NEW g, g \in Sized(k)
  PROVE  PrintBrief(OutputOf(o, f, v, n), k.sizes, g)
           = IF Len(Append(v, g)) = BriefBatch THEN OutputOf(Cat(o, Texts(k, Append(v, g))), f, <<>>, n + 1)
             ELSE OutputOf(o, f, Append(v, g), n + 1)
<1>w. PICK w : Is(w, Append(v, g))
  BY DEF Is
<1>m. PICK m : Is(m, n + 1)
  BY DEF Is
<1>p. PICK p : Is(p, OutputOf(o, f, v, n))
  BY DEF Is
<1>1. p.prev = v /\ p.count = n
  BY <1>p, OutputFields DEF Is
<1>2. [p EXCEPT !.prev = Append(@, g), !.count = @ + 1] = [p EXCEPT !.prev = w, !.count = m]
  BY <1>1, <1>w, <1>m, Zenon DEF Is
<1>3. [OutputOf(o, f, v, n) EXCEPT !.prev = w, !.count = m] = OutputOf(o, f, w, m)
  <2>1. [OutputOf(o, f, v, n) EXCEPT !.prev = w, !.count = m] = [[OutputOf(o, f, v, n) EXCEPT !.prev = w] EXCEPT !.count = m]
    OBVIOUS
  <2>2. [OutputOf(o, f, v, n) EXCEPT !.prev = w] = OutputOf(o, f, w, n)
    BY DEF OutputOf
  <2>3. [OutputOf(o, f, w, n) EXCEPT !.count = m] = OutputOf(o, f, w, m)
    BY DEF OutputOf
  <2> QED BY <2>1, <2>2, <2>3, Zenon
<1>4. w \in Seq(Sized(k))
  BY <1>w, AppendProperties DEF Is
<1>5. PrintFeatures(OutputOf(o, f, w, m), k.sizes) = OutputOf(Cat(o, Texts(k, w)), f, <<>>, m)
  BY <1>4, BriefPrints
<1>6. OutputOf(o, f, w, m).prev = w
  BY OutputFields
<1>7. [p EXCEPT !.prev = Append(@, g), !.count = @ + 1] = OutputOf(o, f, w, m)
  BY <1>2, <1>3, <1>p, Zenon DEF Is
<1>8. PrintBrief(p, k.sizes, g)
           = IF Len(w) = BriefBatch THEN OutputOf(Cat(o, Texts(k, w)), f, <<>>, m) ELSE OutputOf(o, f, w, m)
  BY <1>5, <1>6, <1>7, Zenon DEF PrintBrief
<1> QED BY <1>8, <1>p, <1>w, <1>m, Zenon DEF Is

(* What its printer may know.                                              *)
BriefSet(k, f) == [out : Seq(Tokens(k)), first : {f}, prev : Seq(Sized(k)), count : Nat]

(* What a brief printer knows, field by field.                             *)
LEMMA BriefSetIs ==
  ASSUME NEW k, NEW f
  PROVE  /\ \A p \in BriefSet(k, f) : p = OutputOf(p.out, f, p.prev, p.count)
         /\ \A o \in Seq(Tokens(k)), v \in Seq(Sized(k)), n \in Nat : OutputOf(o, f, v, n) \in BriefSet(k, f)
<1>1. ASSUME NEW p \in BriefSet(k, f) PROVE p = OutputOf(p.out, f, p.prev, p.count)
  BY DEF BriefSet, OutputOf
<1>2. ASSUME NEW o \in Seq(Tokens(k)), NEW v \in Seq(Sized(k)), NEW n \in Nat PROVE OutputOf(o, f, v, n) \in BriefSet(k, f)
  BY DEF BriefSet, OutputOf
<1> QED BY <1>1, <1>2

(* It stays so with each feature, ...                                      *)
LEMMA BriefSetNext ==
  ASSUME NEW k, IsBrief(k), NEW f, NEW p, p \in BriefSet(k, f), NEW g, g \in Sized(k)
  PROVE  PrintBrief(p, k.sizes, g) \in BriefSet(k, f)
<1>1. p.out \in Seq(Tokens(k)) /\ p.prev \in Seq(Sized(k)) /\ p.count \in Nat
  BY DEF BriefSet
<1>o. PICK o : Is(o, p.out)
  BY DEF Is
<1>v. PICK v : Is(v, p.prev)
  BY DEF Is
<1>n. PICK n : Is(n, p.count)
  BY DEF Is
<1>2. o \in Seq(Tokens(k)) /\ v \in Seq(Sized(k)) /\ n \in Nat /\ n + 1 \in Nat
  BY <1>1, <1>o, <1>v, <1>n DEF Is
<1>3. p = OutputOf(o, f, v, n)
  BY <1>o, <1>v, <1>n, BriefSetIs, Zenon DEF Is
<1>4. Append(v, g) \in Seq(Sized(k))
  BY <1>2, AppendProperties
<1>5. k.format \in Formats /\ <<>> \in Seq(Sized(k))
  BY EmptySeq, IsFormats DEF IsBrief
<1>6. Texts(k, Append(v, g)) \in Seq(Tokens(k))
  BY <1>4, <1>5, TextsType
<1>7. Cat(o, Texts(k, Append(v, g))) \in Seq(Tokens(k))
  BY <1>2, <1>6, CatFacts
<1>8. /\ OutputOf(Cat(o, Texts(k, Append(v, g))), f, <<>>, n + 1) \in BriefSet(k, f)
      /\ OutputOf(o, f, Append(v, g), n + 1) \in BriefSet(k, f)
  BY <1>2, <1>4, <1>5, <1>7, BriefSetIs
<1>9. PrintBrief(OutputOf(o, f, v, n), k.sizes, g)
           = IF Len(Append(v, g)) = BriefBatch THEN OutputOf(Cat(o, Texts(k, Append(v, g))), f, <<>>, n + 1)
             ELSE OutputOf(o, f, Append(v, g), n + 1)
  <2>1. v \in Seq(Sized(k))
    BY <1>2
  <2> QED BY <2>1, BriefOne
<1> QED BY <1>3, <1>8, <1>9, Zenon

(* What is printed and what is held back are all that has come.            *)
BriefState(k, f, S, n, p) ==
  \E s, v \in Seq(Sized(k)) : S = Cat(s, v) /\ p = OutputOf(Texts(k, s), f, v, n)

(* ... and what was printed and collected are the features so far.         *)
LEMMA BriefStateNext ==
  ASSUME NEW k, IsBrief(k), NEW f, NEW S, NEW n, NEW p, BriefState(k, f, S, n, p), NEW g, g \in Sized(k)
  PROVE  BriefState(k, f, Append(S, g), n + 1, PrintBrief(p, k.sizes, g))
<1>1. PICK s, v \in Seq(Sized(k)) : S = Cat(s, v) /\ p = OutputOf(Texts(k, s), f, v, n)
  BY DEF BriefState
<1>w. PICK w : Is(w, Append(v, g))
  BY DEF Is
<1>2. w \in Seq(Sized(k))
  BY <1>w, AppendProperties DEF Is
<1>3. k.format \in Formats /\ <<>> \in Seq(Sized(k))
  BY EmptySeq, IsFormats DEF IsBrief
<1>4. Append(S, g) = Cat(s, w)
  <2>1. Cat(s, v) \in Seq(Sized(k)) /\ <<g>> \in Seq(Sized(k))
    BY CatType, CatAppend
  <2>2. Append(Cat(s, v), g) = Cat(Cat(s, v), <<g>>)
    BY <2>1, CatAppend
  <2>3. Append(v, g) = Cat(v, <<g>>)
    BY CatAppend
  <2>4. Cat(s, Cat(v, <<g>>)) = Cat(Cat(s, v), <<g>>)
    <3>1. PICK e : Is(e, <<g>>)
      BY DEF Is
    <3>2. e \in Seq(Sized(k)) /\ s \in Seq(Sized(k)) /\ v \in Seq(Sized(k))
      BY <2>1, <3>1 DEF Is
    <3>3. Cat(s, Cat(v, e)) = Cat(Cat(s, v), e)
      BY <3>2, CatAssoc
    <3> QED BY <3>1, <3>3, Zenon DEF Is
  <2> QED BY <1>1, <1>w, <2>2, <2>3, <2>4, Zenon DEF Is
<1>5. PrintBrief(OutputOf(Texts(k, s), f, v, n), k.sizes, g)
           = IF Len(w) = BriefBatch THEN OutputOf(Cat(Texts(k, s), Texts(k, w)), f, <<>>, n + 1)
             ELSE OutputOf(Texts(k, s), f, w, n + 1)
  <2>1. PrintBrief(OutputOf(Texts(k, s), f, v, n), k.sizes, g)
           = IF Len(Append(v, g)) = BriefBatch THEN OutputOf(Cat(Texts(k, s), Texts(k, Append(v, g))), f, <<>>, n + 1)
             ELSE OutputOf(Texts(k, s), f, Append(v, g), n + 1)
    BY BriefOne
  <2> QED BY <1>w, <2>1, Zenon DEF Is
<1>6. Cat(s, w) \in Seq(Sized(k)) /\ Cat(Cat(s, w), <<>>) = Cat(s, w) /\ Texts(k, Cat(s, w)) = Cat(Texts(k, s), Texts(k, w))
  <2>1. Cat(s, w) \in Seq(Sized(k)) /\ Texts(k, Cat(s, w)) = Cat(Texts(k, s), Texts(k, w))
    BY <1>2, <1>3, TextsMore
  <2>2. Cat(Cat(s, w), <<>>) = Cat(s, w)
    BY <2>1, CatFacts
  <2> QED BY <2>1, <2>2
<1>7. CASE Len(w) = BriefBatch
  <2>1. PrintBrief(p, k.sizes, g) = OutputOf(Texts(k, Cat(s, w)), f, <<>>, n + 1)
    BY <1>1, <1>5, <1>6, <1>7, Zenon
  <2>2. Append(S, g) = Cat(Cat(s, w), <<>>)
    BY <1>4, <1>6, Zenon
  <2> QED BY <1>3, <1>6, <2>1, <2>2, Zenon DEF BriefState
<1>8. CASE Len(w) # BriefBatch
  <2>1. PrintBrief(p, k.sizes, g) = OutputOf(Texts(k, s), f, w, n + 1)
    BY <1>1, <1>5, <1>8, Zenon
  <2> QED BY <1>2, <1>4, <2>1, Zenon DEF BriefState
<1> QED BY <1>7, <1>8

(* The types of these.                                                     *)
LEMMA BriefStateType ==
  ASSUME NEW k, IsBrief(k), NEW f, NEW S, NEW n, n \in Nat, NEW p, BriefState(k, f, S, n, p)
  PROVE  p \in BriefSet(k, f) /\ S \in Seq(Sized(k))
<1>1. PICK s, v \in Seq(Sized(k)) : S = Cat(s, v) /\ p = OutputOf(Texts(k, s), f, v, n)
  BY DEF BriefState
<1>2. k.format \in Formats
  BY IsFormats DEF IsBrief
<1>3. Texts(k, s) \in Seq(Tokens(k)) /\ Cat(s, v) \in Seq(Sized(k))
  BY <1>2, TextsMore
<1>4. OutputOf(Texts(k, s), f, v, n) \in BriefSet(k, f)
  BY <1>3, BriefSetIs
<1> QED BY <1>1, <1>3, <1>4, Zenon

(* All results of a batch, one after the other.                            *)
BriefSteps(k, f, p, r, g) ==
  /\ g \in [0..Len(r) -> BriefSet(k, f)] /\ g[0] = p
  /\ \A i \in 1..Len(r) : g[i] = PrintBrief(g[i - 1], k.sizes, r[i])

(* The features of a batch are added one after the other.                  *)
LEMMA BriefStepsExist ==
  ASSUME NEW k, IsBrief(k), NEW f, NEW p, p \in BriefSet(k, f), NEW r, r \in Seq(Sized(k))
  PROVE  \E g : BriefSteps(k, f, p, r, g)
<1> DEFINE n == Len(r)
           T == BriefSet(k, f)
           step == [x \in T \X (1..n) |-> PrintBrief(x[1], k.sizes, r[x[2]])]
<1>1. n \in Nat
  BY LenProperties
<1>2. step \in [T \X (1..n) -> T]
  <2> SUFFICES ASSUME NEW x \in T \X (1..n) PROVE PrintBrief(x[1], k.sizes, r[x[2]]) \in T
    OBVIOUS
  <2>1. x[1] \in T /\ r[x[2]] \in Sized(k)
    BY ElementOfSeq
  <2> QED BY <2>1, BriefSetNext
<1>3. Iterations(n, T, p, step) # {}
  <2> HIDE DEF n, step, T
  <2>1. p \in T
    BY DEF T
  <2> QED BY <1>1, <1>2, <2>1, IterationExists
<1>4. PICK g \in Iterations(n, T, p, step) : TRUE
  BY <1>3
<1>5. ASSUME NEW i \in 1..n PROVE g[i] = PrintBrief(g[i - 1], k.sizes, r[i])
  <2>0. i - 1 \in 0..n
    BY <1>1
  <2>1. g[i - 1] \in T /\ g[i] = step[<<g[i - 1], i>>]
    <3> HIDE DEF step, n, T
    <3> QED BY <1>4, <2>0 DEF Iterations
  <2>2. <<g[i - 1], i>> \in T \X (1..n)
    <3> HIDE DEF step, T
    <3> QED BY <2>1
  <2>3. step[<<g[i - 1], i>>] = PrintBrief(g[i - 1], k.sizes, r[i])
    <3> HIDE DEF T
    <3> QED BY <2>2
  <2> QED BY <2>1, <2>3
<1>6. g \in [0..n -> T] /\ g[0] = p
  <2> HIDE DEF step, n, T
  <2> QED BY <1>4 DEF Iterations
<1> QED BY <1>5, <1>6 DEF BriefSteps

(* That is what PrintAllBrief does.                                        *)
LEMMA PrintAllIs ==
  ASSUME NEW k, NEW f, NEW p, NEW r, Len(r) \in Nat, NEW g, BriefSteps(k, f, p, r, g)
  PROVE  PrintAllBrief(p, k.sizes, r) = g[Len(r)]
<1>n. PICK n : Is(n, Len(r))
  BY DEF Is
<1>z. PICK z : Is(z, k.sizes)
  BY DEF Is
<1>0. n \in Nat
  BY <1>n DEF Is
<1> DEFINE Step(h) == [i \in 0..n |-> IF i = 0 THEN p ELSE PrintBrief(h[i - 1], z, r[i])]
           F == CHOOSE h : h = Step(h)
<1>1. PrintAllBrief(p, z, r) = F[n]
  BY <1>n, Zenon DEF PrintAllBrief, Is
<1>2. g[0] = p /\ \A i \in 1..n : g[i] = PrintBrief(g[i - 1], z, r[i])
  BY <1>n, <1>z, Zenon DEF BriefSteps, Is
<1>3. g = Step(g)
  <2>1. g = [i \in 0..n |-> g[i]]
    <3>1. g \in [0..n -> BriefSet(k, f)]
      BY <1>n, Zenon DEF BriefSteps, Is
    <3> QED BY <3>1
  <2>2. \A i \in 0..n : g[i] = IF i = 0 THEN p ELSE PrintBrief(g[i - 1], z, r[i])
    BY <1>0, <1>2
  <2> QED BY <2>1, <2>2
<1>4. F = Step(F)
  <2> HIDE DEF Step
  <2> QED BY <1>3
<1> HIDE DEF F
<1> DEFINE P == {i \in 0..n : F[i] = g[i]}
<1>5. 0 \in P
  <2>1. F[0] = p /\ 0 \in 0..n
    BY <1>0, <1>4
  <2> QED BY <1>2, <2>1
<1>6. ASSUME NEW i \in 1..n, i - 1 \in P PROVE i \in P
  <2>1. F[i] = PrintBrief(F[i - 1], z, r[i]) /\ i \in 0..n
    BY <1>0, <1>4
  <2>2. g[i] = PrintBrief(g[i - 1], z, r[i]) /\ F[i - 1] = g[i - 1]
    BY <1>2, <1>6
  <2>3. F[i] = g[i]
    BY <2>1, <2>2, Zenon
  <2> QED BY <2>1, <2>3
<1>7. n \in P
  <2> HIDE DEF P
  <2>1. 0..n \subseteq P
    BY <1>0, <1>5, <1>6, IntervalInduction
  <2> QED BY <1>0, <2>1
<1>8. F[n] = g[n]
  BY <1>7
<1> QED BY <1>1, <1>8, <1>n, <1>z, Zenon DEF Is

(* After a batch, its features follow those before it.                     *)
LEMMA BriefStep ==
  ASSUME NEW k, IsBrief(k), NEW f, NEW S, NEW n, n \in Nat, NEW p, BriefState(k, f, S, n, p),
         NEW r, r \in Seq(Sized(k))
  PROVE  BriefState(k, f, Cat(S, r), n + Len(r), PrintAllBrief(p, k.sizes, r))
<1>0. p \in BriefSet(k, f) /\ S \in Seq(Sized(k)) /\ Len(r) \in Nat
  <2>1. p \in BriefSet(k, f)
    BY BriefStateType
  <2>3. S \in Seq(Sized(k))
    BY BriefStateType
  <2>2. Len(r) \in Nat
    BY LenProperties
  <2> QED BY <2>1, <2>2, <2>3
<1>1. PICK g : BriefSteps(k, f, p, r, g)
  BY <1>0, BriefStepsExist
<1>m. PICK m : Is(m, Len(r))
  BY DEF Is
<1>2. m \in Nat /\ g[0] = p /\ \A i \in 1..m : g[i] = PrintBrief(g[i - 1], k.sizes, r[i])
  BY <1>0, <1>1, <1>m, Zenon DEF Is, BriefSteps
<1> DEFINE P == {i \in 0..m : BriefState(k, f, Cat(S, SubSeq(r, 1, i)), n + i, g[i])}
<1>3. 0 \in P
  <2>1. SubSeq(r, 1, 0) = <<>>
    BY SubSeqEmpty
  <2>2. Cat(S, <<>>) = S /\ n + 0 = n /\ 0 \in 0..m
    BY <1>0, <1>2, CatEmpty
  <2>3. BriefState(k, f, Cat(S, SubSeq(r, 1, 0)), n + 0, g[0])
    BY <1>2, <2>1, <2>2, Zenon
  <2> QED BY <2>2, <2>3
<1>4. ASSUME NEW i \in 1..m, i - 1 \in P PROVE i \in P
  <2>1. r[i] \in Sized(k) /\ SubSeq(r, 1, i) = Append(SubSeq(r, 1, i - 1), r[i]) /\ SubSeq(r, 1, i - 1) \in Seq(Sized(k))
    <3>1. i \in 1..Len(r) /\ i - 1 \in 0..Len(r)
      BY <1>2, <1>m DEF Is
    <3>2. r[i] \in Sized(k)
      BY <3>1, ElementOfSeq
    <3>3. SubSeq(r, 1, i - 1) \in Seq(Sized(k))
      <4>1. \A j \in 1..(i - 1) : r[j] \in Sized(k)
        BY <3>1, ElementOfSeq
      <4> QED BY <3>1, <4>1, SubSeqProperties
    <3>4. SubSeq(r, 1, i) = Append(SubSeq(r, 1, i - 1), r[i])
      BY <3>1, SubSeqRecursiveSecond
    <3> QED BY <3>2, <3>3, <3>4
  <2>t. PICK t : Is(t, SubSeq(r, 1, i - 1))
    BY DEF Is
  <2>2. BriefState(k, f, Cat(S, t), n + (i - 1), g[i - 1])
    BY <1>4, <2>t, Zenon DEF Is
  <2>3. BriefState(k, f, Append(Cat(S, t), r[i]), (n + (i - 1)) + 1, PrintBrief(g[i - 1], k.sizes, r[i]))
    BY <2>1, <2>2, BriefStateNext
  <2>4. Append(Cat(S, t), r[i]) = Cat(S, Append(t, r[i]))
    <3>0. t \in Seq(Sized(k)) /\ r[i] \in Sized(k)
      BY <2>1, <2>t DEF Is
    <3>e. PICK e : Is(e, <<r[i]>>)
      BY DEF Is
    <3>1. Cat(S, t) \in Seq(Sized(k))
      BY <1>0, <3>0, CatType
    <3>2. Append(t, r[i]) = Cat(t, e) /\ e \in Seq(Sized(k))
      <4>1. Append(t, r[i]) = Cat(t, <<r[i]>>) /\ <<r[i]>> \in Seq(Sized(k))
        BY <3>0, CatAppend
      <4> QED BY <3>e, <4>1, Zenon DEF Is
    <3>3. Append(Cat(S, t), r[i]) = Cat(Cat(S, t), e)
      <4>1. Append(Cat(S, t), r[i]) = Cat(Cat(S, t), <<r[i]>>)
        BY <3>0, <3>1, CatAppend
      <4> QED BY <3>e, <4>1, Zenon DEF Is
    <3>4. Cat(S, Cat(t, e)) = Cat(Cat(S, t), e)
      <4>1. e \in Seq(Sized(k))
        BY <3>2
      <4> QED BY <1>0, <3>0, <4>1, CatAssoc
    <3> QED BY <3>2, <3>3, <3>4, Zenon
  <2>5. (n + (i - 1)) + 1 = n + i /\ i \in 0..m
    BY <1>2
  <2>6. BriefState(k, f, Cat(S, SubSeq(r, 1, i)), n + i, g[i])
    BY <1>2, <2>1, <2>3, <2>4, <2>5, <2>t, Zenon DEF Is
  <2> QED BY <2>5, <2>6
<1>5. m \in P
  <2> HIDE DEF P
  <2>1. 0..m \subseteq P
    BY <1>2, <1>3, <1>4, IntervalInduction
  <2> QED BY <1>2, <2>1
<1>6. BriefState(k, f, Cat(S, SubSeq(r, 1, m)), n + m, g[m])
  BY <1>5
<1>7. SubSeq(r, 1, Len(r)) = r
  BY SubSeqFull
<1>8. PrintAllBrief(p, k.sizes, r) = g[Len(r)]
  BY <1>0, <1>1, PrintAllIs
<1> QED BY <1>6, <1>7, <1>8, <1>m, Zenon DEF Is

(* The formats of a query, and what the printing thread has in each when   *)
(* the texts of S have come and n results are accounted for.               *)
IsJson(k) == k.format \in {"geojson"}
(* The other formats.                                                      *)
IsLines(k) == k.format \in {"geojsonl", "csv", "list"}
IsCount(k) == k.format \in {"count"}
IsFile(k) == k.format \in {"xml", "pbf"}

(* What was printed after the features S, of which n results were counted, *)
(* in each format: base is the header.                                     *)
JsonState(k, base, S, n, p) == \E v : p = OutputOf(Cat(base, Body(Texts(k, S))), Empty(S), v, n)
LinesState(k, base, S, n, p) == \E f, v : p = OutputOf(Cat(base, Texts(k, S)), f, v, n)
WktPrinting(k, S, n, p) ==
  \E s, h, v : WktState(k, s, h, v) /\ S = Cat(s, h) /\ p = OutputOf(WktOut(k, s), Empty(s), v, n)
BriefPrinting(k, S, n, p) == \E f : BriefState(k, f, S, n, p)
CountState(n, p) == \E f, v : p = OutputOf(<<>>, f, v, n)
FileState(n, p) == \E o, f, v : p = OutputOf(o, f, v, n)

(* The same for any format.                                                *)
Printing(k, base, S, n, p) ==
  /\ base \in Seq(Tokens(k)) /\ S \in Seq(Items(k)) /\ n \in Nat
  /\ IsJson(k) => JsonState(k, base, S, n, p)
  /\ IsLines(k) => LinesState(k, base, S, n, p)
  /\ IsWkt(k) => WktPrinting(k, S, n, p)
  /\ IsBrief(k) => BriefPrinting(k, S, n, p)
  /\ IsCount(k) => CountState(n, p)
  /\ IsFile(k) => FileState(n, p)

(* The formats exclude each other.                                         *)
LEMMA KindsOfFormat ==
  ASSUME NEW k
  PROVE  /\ IsQuery(k) => IsJson(k) \/ IsLines(k) \/ IsWkt(k) \/ IsBrief(k) \/ IsCount(k) \/ IsFile(k)
         /\ AsText(k) <=> IsJson(k) \/ IsLines(k) \/ IsWkt(k)
         /\ NoText(k) <=> IsCount(k) \/ IsFile(k)
         /\ IsJson(k) => ~IsLines(k) /\ ~IsWkt(k) /\ ~IsBrief(k) /\ ~IsCount(k) /\ ~IsFile(k)
         /\ IsLines(k) => ~IsWkt(k) /\ ~IsBrief(k) /\ ~IsCount(k) /\ ~IsFile(k)
         /\ IsWkt(k) => ~IsBrief(k) /\ ~IsCount(k) /\ ~IsFile(k)
         /\ IsBrief(k) => ~IsCount(k) /\ ~IsFile(k)
         /\ IsCount(k) => ~IsFile(k)
<1>1. IsQuery(k) => k.format \in {"geojson", "geojsonl", "csv", "list", "wkt", "brief", "count", "xml", "pbf"}
  BY DEF IsQuery
<1> QED BY <1>1 DEF IsJson, IsLines, IsWkt, IsBrief, IsCount, IsFile, AsText, NoText, TextFormats

(* Where text is printed, features have one.                               *)
LEMMA ItemsSized ==
  ASSUME NEW k, AsText(k) \/ IsBrief(k)
  PROVE  Items(k) = Sized(k)
<1>1. ~NoText(k)
  BY KindsOfFormat
<1> QED BY <1>1, Zenon DEF Items

(* Which printer prints.                                                   *)
LEMMA TextPrinted ==
  ASSUME NEW k, NEW p, NEW b
  PROVE  /\ IsJson(k) => PrintText(p, k.format, k.sizes, b) = PrintJson(p, b)
         /\ IsWkt(k) => PrintText(p, k.format, k.sizes, b) = PrintWkt(p, b)
         /\ IsLines(k) => PrintText(p, k.format, k.sizes, b) = PrintBatch(Counted(p, b), b.chain, <<>>, 0)
         /\ IsBrief(k) => PrintText(p, k.format, k.sizes, b) = PrintAllBrief(p, k.sizes, b.results)
         /\ IsCount(k) => PrintText(p, k.format, k.sizes, b) = Counted(p, b)
<1>1. IsJson(k) => PrintText(p, k.format, k.sizes, b) = PrintJson(p, b)
  BY DEF PrintText, IsJson
<1>2. IsWkt(k) => PrintText(p, k.format, k.sizes, b) = PrintWkt(p, b)
  BY DEF PrintText, IsWkt
<1>3. IsLines(k) => PrintText(p, k.format, k.sizes, b) = PrintBatch(Counted(p, b), b.chain, <<>>, 0)
  BY DEF PrintText, IsLines
<1>4. IsBrief(k) => PrintText(p, k.format, k.sizes, b) = PrintAllBrief(p, k.sizes, b.results)
  BY DEF PrintText, IsBrief
<1>5. IsCount(k) => PrintText(p, k.format, k.sizes, b) = Counted(p, b)
  BY DEF PrintText, IsCount
<1> QED BY <1>1, <1>2, <1>3, <1>4, <1>5

(* What a batch has: the results whose texts are in it, and those that it  *)
(* accounts for.                                                           *)
Carries(k, b, lot, acc) ==
  /\ lot \in Seq(Items(k)) /\ acc \in Seq(Items(k))
  /\ AsText(k) => Holds(k, b.chain, lot) /\ b.count = Len(acc)
  /\ IsBrief(k) \/ IsFile(k) => b.results = lot /\ acc = lot
  /\ IsCount(k) => b.count = Len(acc)

(* A batch in each format: GeoJSON drops the first separator only, ...     *)
LEMMA JsonGoesOn ==
  ASSUME NEW k, IsJson(k), NEW base, base \in Seq(Tokens(k)), NEW S, S \in Seq(Sized(k)), NEW n, NEW p,
         JsonState(k, base, S, n, p), NEW b, NEW lot, Holds(k, b.chain, lot)
  PROVE  JsonState(k, base, Cat(S, lot), n + b.count, PrintText(p, k.format, k.sizes, b))
<1>1. PICK v : p = OutputOf(Cat(base, Body(Texts(k, S))), Empty(S), v, n)
  BY DEF JsonState
<1>2. k.format \in {"geojson"}
  BY DEF IsJson
<1>3. PrintJson(OutputOf(Cat(base, Body(Texts(k, S))), Empty(S), v, n), b)
            = OutputOf(Cat(base, Body(Texts(k, Cat(S, lot)))), Empty(Cat(S, lot)), v, n + b.count)
  BY <1>2, JsonStep
<1>4. PrintText(p, k.format, k.sizes, b) = PrintJson(p, b)
  BY TextPrinted
<1> QED BY <1>1, <1>3, <1>4, Zenon DEF JsonState

(* ... lines follow each other, ...                                        *)
LEMMA LinesGoOn ==
  ASSUME NEW k, IsLines(k), NEW base, base \in Seq(Tokens(k)), NEW S, S \in Seq(Sized(k)), NEW n, NEW p,
         LinesState(k, base, S, n, p), NEW b, NEW lot, Holds(k, b.chain, lot)
  PROVE  LinesState(k, base, Cat(S, lot), n + b.count, PrintText(p, k.format, k.sizes, b))
<1>1. PICK f, v : p = OutputOf(Cat(base, Texts(k, S)), f, v, n)
  BY DEF LinesState
<1>2. k.format \in {"geojsonl", "csv", "list"}
  BY DEF IsLines
<1>3. PrintBatch(Counted(OutputOf(Cat(base, Texts(k, S)), f, v, n), b), b.chain, <<>>, 0)
            = OutputOf(Cat(base, Texts(k, Cat(S, lot))), f, v, n + b.count)
  BY <1>2, LinesStep
<1>4. PrintText(p, k.format, k.sizes, b) = PrintBatch(Counted(p, b), b.chain, <<>>, 0)
  BY TextPrinted
<1> QED BY <1>1, <1>3, <1>4, Zenon DEF LinesState

(* ... WKT holds a text back, ...                                          *)
LEMMA WktGoesOn ==
  ASSUME NEW k, IsWkt(k), NEW S, NEW n, n \in Nat, NEW p, WktPrinting(k, S, n, p),
         NEW b, b.count \in Nat, NEW lot, Holds(k, b.chain, lot), Len(Cat(S, lot)) <= n + b.count
  PROVE  WktPrinting(k, Cat(S, lot), n + b.count, PrintText(p, k.format, k.sizes, b))
<1>1. PICK s, h, v : WktState(k, s, h, v) /\ S = Cat(s, h) /\ p = OutputOf(WktOut(k, s), Empty(s), v, n)
  BY DEF WktPrinting
<1>3. Len(Cat(Cat(s, h), lot)) <= n + b.count
  BY <1>1
<1>4. \E u, g, w : /\ WktState(k, u, g, w) /\ Cat(u, g) = Cat(Cat(s, h), lot)
                   /\ PrintWkt(OutputOf(WktOut(k, s), Empty(s), v, n), b)
                        = OutputOf(WktOut(k, u), Empty(u), w, n + b.count)
  <2>1. WktState(k, s, h, v)
    BY <1>1
  <2> QED BY <1>3, <2>1, WktStep
<1>5. PICK u, g, w : /\ WktState(k, u, g, w) /\ Cat(u, g) = Cat(Cat(s, h), lot)
                     /\ PrintWkt(OutputOf(WktOut(k, s), Empty(s), v, n), b)
                          = OutputOf(WktOut(k, u), Empty(u), w, n + b.count)
  BY <1>4
<1>6. PrintText(p, k.format, k.sizes, b) = PrintWkt(p, b)
  BY TextPrinted
<1> QED BY <1>1, <1>5, <1>6, Zenon DEF WktPrinting

(* ... the brief printer collects features, ...                            *)
LEMMA BriefGoesOn ==
  ASSUME NEW k, IsBrief(k), NEW S, NEW n, n \in Nat, NEW p, BriefPrinting(k, S, n, p),
         NEW b, NEW lot, lot \in Seq(Sized(k)), b.results = lot
  PROVE  BriefPrinting(k, Cat(S, lot), n + Len(lot), PrintText(p, k.format, k.sizes, b))
<1>1. PICK f : BriefState(k, f, S, n, p)
  BY DEF BriefPrinting
<1>2. BriefState(k, f, Cat(S, lot), n + Len(lot), PrintAllBrief(p, k.sizes, lot))
  BY <1>1, BriefStep
<1>3. PrintText(p, k.format, k.sizes, b) = PrintAllBrief(p, k.sizes, b.results)
  BY TextPrinted
<1> QED BY <1>2, <1>3, Zenon DEF BriefPrinting

(* ... results are counted, ...                                            *)
LEMMA CountGoesOn ==
  ASSUME NEW k, IsCount(k), NEW n, NEW p, CountState(n, p), NEW b
  PROVE  CountState(n + b.count, PrintText(p, k.format, k.sizes, b))
<1>1. PICK f, v : p = OutputOf(<<>>, f, v, n)
  BY DEF CountState
<1>2. Counted(OutputOf(<<>>, f, v, n), b) = OutputOf(<<>>, f, v, n + b.count)
  BY OutputCounted
<1>3. PrintText(p, k.format, k.sizes, b) = Counted(p, b)
  BY TextPrinted
<1> QED BY <1>1, <1>2, <1>3, Zenon DEF CountState

(* What a printer of OSM files counts.                                     *)
FileCounted(p, b) == [p EXCEPT !.count = @ + Len(b.results)]

(* ... or features, for a file.                                            *)
LEMMA FileGoesOn ==
  ASSUME NEW n, NEW p, FileState(n, p), NEW b
  PROVE  FileState(n + Len(b.results), FileCounted(p, b))
<1>1. PICK o, f, v : p = OutputOf(o, f, v, n)
  BY DEF FileState
<1>m. PICK m : Is(m, n + Len(b.results))
  BY DEF Is
<1>2. p.count = n
  BY <1>1, OutputFields
<1>3. FileCounted(p, b) = [p EXCEPT !.count = m]
  BY <1>2, <1>m, Zenon DEF FileCounted, Is
<1>4. [OutputOf(o, f, v, n) EXCEPT !.count = m] = OutputOf(o, f, v, m)
  BY DEF OutputOf
<1> QED BY <1>1, <1>3, <1>4, <1>m, Zenon DEF FileState, Is

(* A batch is printed.                                                     *)
LEMMA PrintStep ==
  ASSUME NEW k, IsQuery(k), NEW base, NEW S, NEW n, NEW p, Printing(k, base, S, n, p),
         NEW b, NEW lot, NEW acc, Carries(k, b, lot, acc), Len(Cat(S, lot)) <= n + Len(acc)
  PROVE  Printing(k, base, Cat(S, lot), n + Len(acc),
                  IF IsFile(k) THEN FileCounted(p, b) ELSE PrintText(p, k.format, k.sizes, b))
<1>m. PICK m : Is(m, n + Len(acc))
  BY DEF Is
<1>1. base \in Seq(Tokens(k)) /\ S \in Seq(Items(k)) /\ n \in Nat /\ lot \in Seq(Items(k)) /\ acc \in Seq(Items(k))
  BY DEF Printing, Carries
<1>2. Cat(S, lot) \in Seq(Items(k))
  BY <1>1, CatType
<1>3. m \in Nat /\ Len(acc) \in Nat
  <2>1. Len(acc) \in Nat
    BY <1>1, LenProperties
  <2>2. n + Len(acc) \in Nat
    BY <1>1, <2>1
  <2> QED BY <1>m, <2>1, <2>2, Zenon DEF Is
<1>4. CASE IsJson(k)
  <2>1. AsText(k) /\ ~IsLines(k) /\ ~IsWkt(k) /\ ~IsBrief(k) /\ ~IsCount(k) /\ ~IsFile(k)
    BY <1>4, KindsOfFormat
  <2>2. Items(k) = Sized(k)
    BY <2>1, ItemsSized
  <2>3. Holds(k, b.chain, lot) /\ b.count = Len(acc) /\ JsonState(k, base, S, n, p)
    BY <1>4, <2>1 DEF Carries, Printing
  <2>4. S \in Seq(Sized(k))
    BY <1>1, <2>2
  <2>5. JsonState(k, base, Cat(S, lot), n + b.count, PrintText(p, k.format, k.sizes, b))
    BY <1>1, <1>4, <2>3, <2>4, JsonGoesOn
  <2> QED BY <1>1, <1>2, <1>3, <1>m, <2>1, <2>3, <2>5, Zenon DEF Printing, Is
<1>5. CASE IsLines(k)
  <2>1. AsText(k) /\ ~IsJson(k) /\ ~IsWkt(k) /\ ~IsBrief(k) /\ ~IsCount(k) /\ ~IsFile(k)
    BY <1>5, KindsOfFormat
  <2>2. Items(k) = Sized(k)
    BY <2>1, ItemsSized
  <2>3. Holds(k, b.chain, lot) /\ b.count = Len(acc) /\ LinesState(k, base, S, n, p)
    BY <1>5, <2>1 DEF Carries, Printing
  <2>4. S \in Seq(Sized(k))
    BY <1>1, <2>2
  <2>5. LinesState(k, base, Cat(S, lot), n + b.count, PrintText(p, k.format, k.sizes, b))
    BY <1>1, <1>5, <2>3, <2>4, LinesGoOn
  <2> QED BY <1>1, <1>2, <1>3, <1>m, <2>1, <2>3, <2>5, Zenon DEF Printing, Is
<1>6. CASE IsWkt(k)
  <2>1. AsText(k) /\ ~IsJson(k) /\ ~IsLines(k) /\ ~IsBrief(k) /\ ~IsCount(k) /\ ~IsFile(k)
    BY <1>6, KindsOfFormat
  <2>3. Holds(k, b.chain, lot) /\ b.count = Len(acc) /\ WktPrinting(k, S, n, p)
    BY <1>6, <2>1 DEF Carries, Printing
  <2>4. b.count \in Nat /\ Len(Cat(S, lot)) <= n + b.count
    BY <1>3, <2>3
  <2>5. WktPrinting(k, Cat(S, lot), n + b.count, PrintText(p, k.format, k.sizes, b))
    <3>1. Holds(k, b.chain, lot) /\ WktPrinting(k, S, n, p) /\ n \in Nat
      BY <1>1, <2>3
    <3> QED BY <1>6, <2>4, <3>1, WktGoesOn
  <2> QED BY <1>1, <1>2, <1>3, <1>m, <2>1, <2>3, <2>5, Zenon DEF Printing, Is
<1>7. CASE IsBrief(k)
  <2>1. ~IsJson(k) /\ ~IsLines(k) /\ ~IsWkt(k) /\ ~IsCount(k) /\ ~IsFile(k)
    BY <1>7, KindsOfFormat
  <2>2. Items(k) = Sized(k)
    BY <1>7, ItemsSized
  <2>3. b.results = lot /\ acc = lot /\ BriefPrinting(k, S, n, p)
    BY <1>7 DEF Carries, Printing
  <2>4. lot \in Seq(Sized(k)) /\ n \in Nat
    BY <1>1, <2>2
  <2>5. BriefPrinting(k, Cat(S, lot), n + Len(lot), PrintText(p, k.format, k.sizes, b))
    <3>1. BriefPrinting(k, S, n, p) /\ b.results = lot
      BY <2>3
    <3> QED BY <1>7, <2>4, <3>1, BriefGoesOn
  <2> QED BY <1>1, <1>2, <1>3, <1>m, <2>1, <2>3, <2>5, Zenon DEF Printing, Is
<1>8. CASE IsCount(k)
  <2>1. ~IsJson(k) /\ ~IsLines(k) /\ ~IsWkt(k) /\ ~IsBrief(k) /\ ~IsFile(k)
    BY <1>8, KindsOfFormat
  <2>3. b.count = Len(acc) /\ CountState(n, p)
    BY <1>8 DEF Carries, Printing
  <2>5. CountState(n + b.count, PrintText(p, k.format, k.sizes, b))
    BY <1>8, <2>3, CountGoesOn
  <2> QED BY <1>1, <1>2, <1>3, <1>m, <2>1, <2>3, <2>5, Zenon DEF Printing, Is
<1>9. CASE IsFile(k)
  <2>1. ~IsJson(k) /\ ~IsLines(k) /\ ~IsWkt(k) /\ ~IsBrief(k) /\ ~IsCount(k)
    BY <1>9, KindsOfFormat
  <2>3. b.results = lot /\ acc = lot /\ FileState(n, p)
    BY <1>9 DEF Carries, Printing
  <2>5. FileState(n + Len(b.results), FileCounted(p, b))
    BY <2>3, FileGoesOn
  <2> QED BY <1>1, <1>2, <1>3, <1>9, <1>m, <2>1, <2>3, <2>5, Zenon DEF Printing, Is
<1> QED BY <1>4, <1>5, <1>6, <1>7, <1>8, <1>9, KindsOfFormat, Zenon

(* The document of features in an order.                                   *)
LinesOf(k, s) == FlattenSeq([i \in DOMAIN s |-> Text(s[i], k.sizes[s[i]]) \o Mark("newline")])
ListedOf(k, s) == IF s = <<>> THEN <<>> ELSE FlattenSeq(SeparatedBy(k, s))
DocumentOf(k, s) ==
    CASE k.format = "geojson" -> Mark("{") \o ListedOf(k, s) \o Mark("}")
      [] k.format = "csv" -> Mark("columns") \o LinesOf(k, s)
      [] k.format \in {"geojsonl", "list"} -> LinesOf(k, s)
      [] k.format = "brief" -> FlattenSeq([i \in DOMAIN s |-> Text(s[i], k.sizes[s[i]])]) \o Mark("newline")
      [] k.format = "count" -> Mark(Len(s))
      [] k.format = "wkt" -> IF s = <<>> THEN Mark("empty")
                             ELSE IF Len(s) = 1 THEN ListedOf(k, s)
                             ELSE Mark("(") \o ListedOf(k, s) \o Mark(")")

(* They are the same.                                                      *)
LEMMA DocumentIs == \A s : Document(s) = DocumentOf(q, s)
<1> SUFFICES ASSUME NEW s PROVE Document(s) = DocumentOf(q, s)
  OBVIOUS
<1>1. Lines(s) = LinesOf(q, s)
  BY DEF Lines, LinesOf
<1>2. Separated(s) = SeparatedBy(q, s)
  BY DEF Separated, SeparatedBy
<1>3. Listed(s) = ListedOf(q, s)
  BY <1>2, Zenon DEF Listed, ListedOf
<1> QED BY <1>1, <1>3, Zenon DEF Document, DocumentOf

(* The text of features in the chunks is that of the document: in lines,   *)
(* ...                                                                     *)
LEMMA LinesAre ==
  ASSUME NEW k, IsLines(k), NEW s, s \in Seq(Sized(k))
  PROVE  LinesOf(k, s) = Texts(k, s)
<1>1. DOMAIN s = 1..Len(s)
  BY LenProperties
<1>2. \A i \in 1..Len(s) : TextOf(k, s[i]) = Text(s[i], k.sizes[s[i]]) \o Mark("newline")
  BY DEF TextOf, Printed, IsLines
<1>3. [i \in DOMAIN s |-> Text(s[i], k.sizes[s[i]]) \o Mark("newline")] = [i \in 1..Len(s) |-> TextOf(k, s[i])]
  BY <1>1, <1>2
<1> QED BY <1>3, Zenon DEF Texts, LinesOf

(* ... and with separators.                                                *)
LEMMA ListedAre ==
  ASSUME NEW k, IsJson(k) \/ IsWkt(k), NEW s, s \in Seq(Sized(k))
  PROVE  ListedOf(k, s) = Body(Texts(k, s))
<1>1. CASE s = <<>>
  <2>1. Texts(k, s) = <<>>
    BY <1>1, TextsEmpty, Zenon
  <2>2. Body(<<>>) = <<>>
    BY SubSeqEmpty DEF Body
  <2> QED BY <1>1, <2>1, <2>2, Zenon DEF ListedOf
<1>2. CASE s # <<>>
  <2>1. k.format \in {"geojson", "wkt"}
    BY DEF IsJson, IsWkt
  <2>2. FlattenSeq(SeparatedBy(k, s)) = Body(Texts(k, s))
    BY <1>2, <2>1, ListedIs
  <2> QED BY <1>2, <2>2, Zenon DEF ListedOf
<1> QED BY <1>1, <1>2

(* The document of each format.                                            *)
LEMMA DocumentForms ==
  ASSUME NEW k, NEW s
  PROVE  /\ IsJson(k) => DocumentOf(k, s) = Cat(Cat(Mark("{"), ListedOf(k, s)), Mark("}"))
         /\ IsLines(k) => DocumentOf(k, s) = IF k.format = "csv" THEN Cat(Mark("columns"), LinesOf(k, s)) ELSE LinesOf(k, s)
         /\ IsBrief(k) => DocumentOf(k, s) = Cat(FlattenSeq([i \in DOMAIN s |-> Text(s[i], k.sizes[s[i]])]), Mark("newline"))
         /\ IsCount(k) => DocumentOf(k, s) = Mark(Len(s))
         /\ IsWkt(k) => DocumentOf(k, s) = IF s = <<>> THEN Mark("empty")
                             ELSE IF Len(s) = 1 THEN ListedOf(k, s)
                             ELSE Cat(Cat(Mark("("), ListedOf(k, s)), Mark(")"))
<1>l. PICK l : Is(l, ListedOf(k, s))
  BY DEF Is
<1>t. PICK t : Is(t, LinesOf(k, s))
  BY DEF Is
<1>b. PICK b : Is(b, FlattenSeq([i \in DOMAIN s |-> Text(s[i], k.sizes[s[i]])]))
  BY DEF Is
<1>0. DocumentOf(k, s) =
    CASE k.format = "geojson" -> Cat(Cat(Mark("{"), l), Mark("}"))
      [] k.format = "csv" -> Cat(Mark("columns"), t)
      [] k.format \in {"geojsonl", "list"} -> t
      [] k.format = "brief" -> Cat(b, Mark("newline"))
      [] k.format = "count" -> Mark(Len(s))
      [] k.format = "wkt" -> IF s = <<>> THEN Mark("empty")
                             ELSE IF Len(s) = 1 THEN l
                             ELSE Cat(Cat(Mark("("), l), Mark(")"))
  BY <1>l, <1>t, <1>b, Zenon DEF DocumentOf, Cat, Is
<1>1. IsJson(k) => DocumentOf(k, s) = Cat(Cat(Mark("{"), l), Mark("}"))
  BY <1>0 DEF IsJson
<1>2. IsLines(k) => DocumentOf(k, s) = IF k.format = "csv" THEN Cat(Mark("columns"), t) ELSE t
  BY <1>0 DEF IsLines
<1>3. IsBrief(k) => DocumentOf(k, s) = Cat(b, Mark("newline"))
  BY <1>0 DEF IsBrief
<1>4. IsCount(k) => DocumentOf(k, s) = Mark(Len(s))
  BY <1>0 DEF IsCount
<1>5. IsWkt(k) => DocumentOf(k, s) = IF s = <<>> THEN Mark("empty")
                             ELSE IF Len(s) = 1 THEN l
                             ELSE Cat(Cat(Mark("("), l), Mark(")"))
  BY <1>0 DEF IsWkt
<1> QED BY <1>1, <1>2, <1>3, <1>4, <1>5, <1>l, <1>t, <1>b, Zenon DEF Is

(* Output that is followed by more.                                        *)
Followed(p, x) == [p EXCEPT !.out = @ \o x]

(* Its fields.                                                             *)
LEMMA FollowedIs ==
  ASSUME NEW o, NEW f, NEW v, NEW n, NEW x
  PROVE  Followed(OutputOf(o, f, v, n), x) = OutputOf(Cat(o, x), f, v, n)
<1>z. PICK z : Is(z, o \o x)
  BY DEF Is
<1>1. OutputOf(o, f, v, n).out = o
  BY DEF OutputOf
<1>2. Followed(OutputOf(o, f, v, n), x) = [OutputOf(o, f, v, n) EXCEPT !.out = z]
  BY <1>1, <1>z, Zenon DEF Followed, Is
<1>3. [OutputOf(o, f, v, n) EXCEPT !.out = z] = OutputOf(z, f, v, n)
  BY DEF OutputOf
<1> QED BY <1>2, <1>3, <1>z, Zenon DEF Is, Cat

(* The footer of each format, ...                                          *)
LEMMA FooterForms ==
  ASSUME NEW k, NEW p
  PROVE  /\ IsJson(k) => Footer(p, k.format, k.sizes) = Followed(p, Mark("}"))
         /\ IsLines(k) => Footer(p, k.format, k.sizes) = p
         /\ IsBrief(k) => Footer(p, k.format, k.sizes) = Followed(PrintFeatures(p, k.sizes), Mark("newline"))
         /\ IsCount(k) => Footer(p, k.format, k.sizes) = Followed(p, Mark(p.count))
         /\ IsWkt(k) => Footer(p, k.format, k.sizes) =
                          IF p.count = 0 THEN Followed(p, Mark("empty"))
                          ELSE Followed(PrintHeldBack(p), IF p.count > 1 THEN Mark(")") ELSE <<>>)
<1>0. Footer(p, k.format, k.sizes) =
         CASE k.format = "geojson" -> Followed(p, Mark("}"))
           [] k.format = "count" -> Followed(p, Mark(p.count))
           [] k.format = "brief" -> Followed(PrintFeatures(p, k.sizes), Mark("newline"))
           [] k.format = "wkt" ->
                IF p.count = 0 THEN Followed(p, Mark("empty"))
                ELSE Followed(PrintHeldBack(p), IF p.count > 1 THEN Mark(")") ELSE <<>>)
           [] OTHER -> p
  BY Zenon DEF Footer, Followed
<1>1. IsJson(k) => Footer(p, k.format, k.sizes) = Followed(p, Mark("}"))
  BY <1>0 DEF IsJson
<1>2. IsLines(k) => Footer(p, k.format, k.sizes) = p
  BY <1>0 DEF IsLines
<1>3. IsBrief(k) => Footer(p, k.format, k.sizes) = Followed(PrintFeatures(p, k.sizes), Mark("newline"))
  BY <1>0 DEF IsBrief
<1>4. IsCount(k) => Footer(p, k.format, k.sizes) = Followed(p, Mark(p.count))
  BY <1>0 DEF IsCount
<1>5. IsWkt(k) => Footer(p, k.format, k.sizes) =
                          IF p.count = 0 THEN Followed(p, Mark("empty"))
                          ELSE Followed(PrintHeldBack(p), IF p.count > 1 THEN Mark(")") ELSE <<>>)
  BY <1>0 DEF IsWkt
<1> QED BY <1>1, <1>2, <1>3, <1>4, <1>5, Zenon

(* The header of a query.                                                  *)
HeaderOf(k) == Header(k.format)

(* ... and the header.                                                     *)
LEMMA HeaderForms ==
  ASSUME NEW k
  PROVE  /\ IsJson(k) => HeaderOf(k) = Mark("{")
         /\ IsLines(k) => HeaderOf(k) = IF k.format = "csv" THEN Mark("columns") ELSE <<>>
         /\ IsWkt(k) \/ IsBrief(k) \/ IsCount(k) \/ IsFile(k) => HeaderOf(k) = <<>>
         /\ HeaderOf(k) \in Seq(Tokens(k))
<1>1. IsJson(k) => HeaderOf(k) = Mark("{")
  BY DEF HeaderOf, Header, IsJson
<1>2. IsLines(k) => HeaderOf(k) = IF k.format = "csv" THEN Mark("columns") ELSE <<>>
  BY DEF HeaderOf, Header, IsLines
<1>3. IsWkt(k) \/ IsBrief(k) \/ IsCount(k) \/ IsFile(k) => HeaderOf(k) = <<>>
  BY DEF HeaderOf, Header, IsWkt, IsBrief, IsCount, IsFile
<1>4. HeaderOf(k) \in Seq(Tokens(k))
  <2>1. Mark("{") \in Seq(Tokens(k)) /\ Mark("columns") \in Seq(Tokens(k)) /\ <<>> \in Seq(Tokens(k))
    BY MarksType
  <2>2. HeaderOf(k) = Mark("{") \/ HeaderOf(k) = Mark("columns") \/ HeaderOf(k) = <<>>
    BY DEF HeaderOf, Header
  <2> QED BY <2>1, <2>2, Zenon
<1> QED BY <1>1, <1>2, <1>3, <1>4, Zenon

(* The end of a document, when all has come.                               *)
Document1(k, S, n, p) ==
  \E f, v : Footer(p, k.format, k.sizes) = OutputOf(DocumentOf(k, S), f, v, n)

(* With header and footer, what was printed of all features is the         *)
(* document: in GeoJSON, ...                                               *)
LEMMA JsonEnds ==
  ASSUME NEW k, IsJson(k), NEW S, S \in Seq(Sized(k)), NEW n, NEW p, JsonState(k, HeaderOf(k), S, n, p)
  PROVE  Document1(k, S, n, p)
<1>1. PICK v : p = OutputOf(Cat(HeaderOf(k), Body(Texts(k, S))), Empty(S), v, n)
  BY DEF JsonState
<1>2. Footer(p, k.format, k.sizes) = Followed(p, Mark("}"))
  BY FooterForms
<1>3. Followed(p, Mark("}")) = OutputOf(Cat(Cat(HeaderOf(k), Body(Texts(k, S))), Mark("}")), Empty(S), v, n)
  <2>1. PICK f : Is(f, Empty(S))
    BY DEF Is
  <2>2. PICK o : Is(o, Cat(HeaderOf(k), Body(Texts(k, S))))
    BY DEF Is
  <2>3. PICK x : Is(x, Mark("}"))
    BY DEF Is
  <2>4. Followed(OutputOf(o, f, v, n), x) = OutputOf(Cat(o, x), f, v, n)
    BY FollowedIs
  <2> QED BY <1>1, <2>1, <2>2, <2>3, <2>4, Zenon DEF Is
<1>4. HeaderOf(k) = Mark("{")
  BY HeaderForms
<1>5. ListedOf(k, S) = Body(Texts(k, S))
  BY ListedAre
<1>6. DocumentOf(k, S) = Cat(Cat(Mark("{"), ListedOf(k, S)), Mark("}"))
  BY DocumentForms
<1> QED BY <1>2, <1>3, <1>4, <1>5, <1>6, Zenon DEF Document1

(* ... in lines, ...                                                       *)
LEMMA LinesEnd ==
  ASSUME NEW k, IsLines(k), NEW S, S \in Seq(Sized(k)), NEW n, NEW p, LinesState(k, HeaderOf(k), S, n, p)
  PROVE  Document1(k, S, n, p)
<1>1. PICK f, v : p = OutputOf(Cat(HeaderOf(k), Texts(k, S)), f, v, n)
  BY DEF LinesState
<1>2. Footer(p, k.format, k.sizes) = p
  BY FooterForms
<1>3. HeaderOf(k) = IF k.format = "csv" THEN Mark("columns") ELSE <<>>
  BY HeaderForms
<1>4. LinesOf(k, S) = Texts(k, S)
  BY LinesAre
<1>5. DocumentOf(k, S) = IF k.format = "csv" THEN Cat(Mark("columns"), LinesOf(k, S)) ELSE LinesOf(k, S)
  BY DocumentForms
<1>6. Cat(<<>>, Texts(k, S)) = Texts(k, S)
  <2>1. AsText(k)
    BY KindsOfFormat
  <2>2. k.format \in Formats
    BY <2>1, Zenon DEF Formats, AsText
  <2>3. Texts(k, S) \in Seq(Tokens(k))
    BY <2>2, TextsType
  <2> QED BY <2>3, CatEmpty
<1>7. Cat(HeaderOf(k), Texts(k, S)) = DocumentOf(k, S)
  BY <1>3, <1>4, <1>5, <1>6, Zenon
<1> QED BY <1>1, <1>2, <1>7, Zenon DEF Document1

(* ... a number, ...                                                       *)
LEMMA CountEnds ==
  ASSUME NEW k, IsCount(k), NEW S, NEW p, CountState(Len(S), p)
  PROVE  Document1(k, S, Len(S), p)
<1>1. PICK f, v : p = OutputOf(<<>>, f, v, Len(S))
  BY DEF CountState
<1>2. Footer(p, k.format, k.sizes) = Followed(p, Mark(p.count))
  BY FooterForms
<1>3. p.count = Len(S)
  BY <1>1, OutputFields
<1>4. Followed(p, Mark(Len(S))) = OutputOf(Cat(<<>>, Mark(Len(S))), f, v, Len(S))
  <2>1. Followed(OutputOf(<<>>, f, v, Len(S)), Mark(Len(S))) = OutputOf(Cat(<<>>, Mark(Len(S))), f, v, Len(S))
    BY FollowedIs
  <2> QED BY <1>1, <2>1, Zenon
<1>5. Cat(<<>>, Mark(Len(S))) = Mark(Len(S))
  <2>1. PICK x : Is(x, Len(S))
    BY DEF Is
  <2>2. Mark(x) \in Seq({<<x>>})
    BY DEF Mark
  <2>3. Cat(<<>>, Mark(x)) = Mark(x)
    BY <2>2, CatEmpty
  <2> QED BY <2>1, <2>3, Zenon DEF Is
<1>6. DocumentOf(k, S) = Mark(Len(S))
  BY DocumentForms
<1> QED BY <1>2, <1>3, <1>4, <1>5, <1>6, Zenon DEF Document1

(* ... the brief format, ...                                               *)
LEMMA BriefEnds ==
  ASSUME NEW k, IsBrief(k), NEW S, S \in Seq(Sized(k)), NEW n, NEW p, BriefPrinting(k, S, n, p)
  PROVE  Document1(k, S, n, p)
<1>1. PICK f : BriefState(k, f, S, n, p)
  BY DEF BriefPrinting
<1>2. PICK s, v \in Seq(Sized(k)) : S = Cat(s, v) /\ p = OutputOf(Texts(k, s), f, v, n)
  BY <1>1 DEF BriefState
<1>3. Footer(p, k.format, k.sizes) = Followed(PrintFeatures(p, k.sizes), Mark("newline"))
  BY FooterForms
<1>4. PrintFeatures(OutputOf(Texts(k, s), f, v, n), k.sizes) = OutputOf(Cat(Texts(k, s), Texts(k, v)), f, <<>>, n)
  BY BriefPrints
<1>5. Followed(OutputOf(Cat(Texts(k, s), Texts(k, v)), f, <<>>, n), Mark("newline"))
        = OutputOf(Cat(Cat(Texts(k, s), Texts(k, v)), Mark("newline")), f, <<>>, n)
  BY FollowedIs
<1>6. Texts(k, Cat(s, v)) = Cat(Texts(k, s), Texts(k, v))
  <2>1. k.format \in Formats
    BY IsFormats DEF IsBrief
  <2> QED BY <2>1, TextsMore
<1>7. FlattenSeq([i \in DOMAIN S |-> Text(S[i], k.sizes[S[i]])]) = Texts(k, S)
  BY BriefTexts
<1>8. DocumentOf(k, S) = Cat(FlattenSeq([i \in DOMAIN S |-> Text(S[i], k.sizes[S[i]])]), Mark("newline"))
  BY DocumentForms
<1> QED BY <1>2, <1>3, <1>4, <1>5, <1>6, <1>7, <1>8, Zenon DEF Document1

(* ... and WKT, where the bracket that was opened depends on the number of *)
(* results.                                                                *)
LEMMA WktEnds ==
  ASSUME NEW k, IsWkt(k), NEW S, S \in Seq(Sized(k)), NEW n, n = Len(S), NEW p, WktPrinting(k, S, n, p)
  PROVE  Document1(k, S, n, p)
<1>1. PICK s, h, v : WktState(k, s, h, v) /\ S = Cat(s, h) /\ p = OutputOf(WktOut(k, s), Empty(s), v, n)
  BY DEF WktPrinting
<1>2. s \in Seq(Sized(k)) /\ h \in Seq(Sized(k)) /\ (h = <<>> => v = <<>> /\ s = <<>>) /\ (h # <<>> => Holds(k, v, h))
  BY <1>1 DEF WktState
<1>3. p.count = n
  BY <1>1, OutputFields
<1>4. Footer(p, k.format, k.sizes) =
                          IF n = 0 THEN Followed(p, Mark("empty"))
                          ELSE Followed(PrintHeldBack(p), IF n > 1 THEN Mark(")") ELSE <<>>)
  <2>1. Footer(p, k.format, k.sizes) =
                          IF p.count = 0 THEN Followed(p, Mark("empty"))
                          ELSE Followed(PrintHeldBack(p), IF p.count > 1 THEN Mark(")") ELSE <<>>)
    BY FooterForms
  <2> QED BY <1>3, <2>1, Zenon
<1>5. DocumentOf(k, S) = IF S = <<>> THEN Mark("empty")
                         ELSE IF n = 1 THEN Body(Texts(k, S))
                         ELSE Cat(Cat(Mark("("), Body(Texts(k, S))), Mark(")"))
  <2>1. DocumentOf(k, S) = IF S = <<>> THEN Mark("empty")
                         ELSE IF Len(S) = 1 THEN ListedOf(k, S)
                         ELSE Cat(Cat(Mark("("), ListedOf(k, S)), Mark(")"))
    BY DocumentForms
  <2>2. ListedOf(k, S) = Body(Texts(k, S))
    BY ListedAre
  <2> QED BY <2>1, <2>2, Zenon
<1>6. n \in Nat /\ (S = <<>> <=> n = 0) /\ n = Len(s) + Len(h) /\ Len(s) \in Nat /\ Len(h) \in Nat /\ (h = <<>> <=> Len(h) = 0)
      /\ (s = <<>> <=> Len(s) = 0)
  <2>1. n = Len(s) + Len(h)
    BY <1>1, <1>2, CatType
  <2>2. Len(s) \in Nat /\ Len(h) \in Nat /\ n \in Nat
    BY <1>2, LenProperties
  <2>3. \A x \in Seq(Sized(k)) : x = <<>> <=> Len(x) = 0
    BY EmptySeq
  <2> QED BY <1>2, <2>1, <2>2, <2>3
<1>7. Mark("(") \in Seq(Tokens(k)) /\ Mark(")") \in Seq(Tokens(k)) /\ <<>> \in Seq(Tokens(k))
  BY MarksType
<1>8. CASE n = 0
  <2>1. s = <<>> /\ S = <<>>
    BY <1>6, <1>8
  <2>2. WktOut(k, s) = <<>>
    BY <2>1 DEF WktOut
  <2>3. Followed(p, Mark("empty")) = OutputOf(Cat(<<>>, Mark("empty")), Empty(s), v, n)
    <3>1. Followed(OutputOf(<<>>, Empty(s), v, n), Mark("empty")) = OutputOf(Cat(<<>>, Mark("empty")), Empty(s), v, n)
      BY FollowedIs
    <3> QED BY <1>1, <2>2, <3>1, Zenon
  <2>4. Cat(<<>>, Mark("empty")) = Mark("empty")
    <3>1. Mark("empty") \in Seq({<<"empty">>})
      BY DEF Mark
    <3> QED BY <3>1, CatEmpty
  <2> QED BY <1>4, <1>5, <1>8, <2>1, <2>3, <2>4, Zenon DEF Document1
<1>9. CASE n # 0
  <2>0. h # <<>> /\ Holds(k, v, h) /\ S # <<>>
    BY <1>2, <1>6, <1>9
  <2>1. CASE n = 1
    <3>1. s = <<>> /\ ~(n > 1)
      BY <1>6, <2>0, <2>1
    <3>2. PrintHeldBack(OutputOf(WktOut(k, s), Empty(s), v, n)) = Shown(Body(Texts(k, h)), n)
      <4>1. s \in Seq(Sized(k)) /\ h \in Seq(Sized(k)) /\ Holds(k, v, h) /\ h # <<>>
        BY <1>2, <2>0
      <4>2. Empty(s) /\ ~(n > 1)
        BY <3>1, Zenon DEF Empty
      <4>3. HeldBackShown(k, s, h, v, n)
        BY <4>1, HeldBack
      <4> QED BY <4>2, <4>3, Zenon DEF HeldBackShown
    <3>3. Cat(s, h) = h
      BY <1>2, <3>1, CatEmpty
    <3>4. Cat(Body(Texts(k, h)), <<>>) = Body(Texts(k, h))
      <4>1. k.format \in Formats
        BY IsFormats DEF IsWkt
      <4>2. Texts(k, h) \in Seq(Tokens(k)) /\ Texts(k, h) # <<>>
        <5>1. k.format \in TextFormats
          BY IsFormats DEF IsWkt
        <5> QED BY <1>2, <2>0, <4>1, <5>1, TextsMore, ZenonT(30)
      <4>3. Body(Texts(k, h)) \in Seq(Tokens(k))
        BY <1>7, <4>2, BodyConcat
      <4> QED BY <4>3, CatEmpty
    <3>5. Followed(Shown(Body(Texts(k, h)), n), <<>>) = OutputOf(Cat(Body(Texts(k, h)), <<>>), FALSE, <<>>, n)
      <4>1. PICK f : Is(f, FALSE)
        BY DEF Is
      <4>2. Followed(OutputOf(Body(Texts(k, h)), f, <<>>, n), <<>>) = OutputOf(Cat(Body(Texts(k, h)), <<>>), f, <<>>, n)
        BY FollowedIs
      <4> QED BY <4>1, <4>2, Zenon DEF Shown, Is
    <3>6. Footer(p, k.format, k.sizes) = Followed(PrintHeldBack(p), <<>>)
      BY <1>4, <1>9, <3>1, Zenon
    <3>7. DocumentOf(k, S) = Body(Texts(k, h))
      BY <1>1, <1>5, <2>0, <2>1, <3>3, Zenon
    <3> QED BY <1>1, <3>2, <3>4, <3>5, <3>6, <3>7, Zenon DEF Document1
  <2>2. CASE n # 1
    <3>1. n > 1
      BY <1>6, <1>9, <2>2
    <3>2. PrintHeldBack(OutputOf(WktOut(k, s), Empty(s), v, n)) = Shown(Cat(Mark("("), Body(Texts(k, Cat(s, h)))), n)
      <4>1. s \in Seq(Sized(k)) /\ h \in Seq(Sized(k)) /\ Holds(k, v, h) /\ h # <<>>
        BY <1>2, <2>0
      <4> QED BY <3>1, <4>1, HeldBackMore
    <3>3. Followed(Shown(Cat(Mark("("), Body(Texts(k, S))), n), Mark(")"))
            = OutputOf(Cat(Cat(Mark("("), Body(Texts(k, S))), Mark(")")), FALSE, <<>>, n)
      <4>1. PICK f : Is(f, FALSE)
        BY DEF Is
      <4>2. Followed(OutputOf(Cat(Mark("("), Body(Texts(k, S))), f, <<>>, n), Mark(")"))
            = OutputOf(Cat(Cat(Mark("("), Body(Texts(k, S))), Mark(")")), f, <<>>, n)
        BY FollowedIs
      <4> QED BY <4>1, <4>2, Zenon DEF Shown, Is
    <3>4. Footer(p, k.format, k.sizes) = Followed(PrintHeldBack(p), Mark(")"))
      BY <1>4, <1>9, <3>1, Zenon
    <3>5. DocumentOf(k, S) = Cat(Cat(Mark("("), Body(Texts(k, S))), Mark(")"))
      BY <1>5, <2>0, <2>2, Zenon
    <3> QED BY <1>1, <3>2, <3>3, <3>4, <3>5, Zenon DEF Document1
  <2> QED BY <2>1, <2>2
<1> QED BY <1>8, <1>9

(* The document, and the number of results.                                *)
LEMMA DocumentFields ==
  ASSUME NEW k, NEW S, NEW n, NEW p, Document1(k, S, n, p)
  PROVE  Footer(p, k.format, k.sizes).out = DocumentOf(k, S) /\ Footer(p, k.format, k.sizes).count = n
<1>1. PICK f, v : Footer(p, k.format, k.sizes) = OutputOf(DocumentOf(k, S), f, v, n)
  BY DEF Document1
<1> QED BY <1>1, OutputFields

(* The number of results is right even without the header: in GeoJSON, ... *)
LEMMA JsonCount ==
  ASSUME NEW k, IsJson(k), NEW base, NEW S, NEW n, NEW p, JsonState(k, base, S, n, p)
  PROVE  Footer(p, k.format, k.sizes).count = n
<1>1. PICK v : p = OutputOf(Cat(base, Body(Texts(k, S))), Empty(S), v, n)
  BY DEF JsonState
<1>f. PICK f : Is(f, Empty(S))
  BY DEF Is
<1>o. PICK o : Is(o, Cat(base, Body(Texts(k, S))))
  BY DEF Is
<1>x. PICK x : Is(x, Mark("}"))
  BY DEF Is
<1>2. Footer(p, k.format, k.sizes) = Followed(p, Mark("}"))
  BY FooterForms
<1>3. Followed(OutputOf(o, f, v, n), x) = OutputOf(Cat(o, x), f, v, n)
  BY FollowedIs
<1>4. OutputOf(Cat(o, x), f, v, n).count = n
  BY OutputFields
<1> QED BY <1>1, <1>2, <1>3, <1>4, <1>f, <1>o, <1>x, Zenon DEF Is

(* ... and in lines.                                                       *)
LEMMA LinesCount ==
  ASSUME NEW k, IsLines(k), NEW base, NEW S, NEW n, NEW p, LinesState(k, base, S, n, p)
  PROVE  Footer(p, k.format, k.sizes).count = n
<1>1. PICK f, v : p = OutputOf(Cat(base, Texts(k, S)), f, v, n)
  BY DEF LinesState
<1>o. PICK o : Is(o, Cat(base, Texts(k, S)))
  BY DEF Is
<1>2. Footer(p, k.format, k.sizes) = p
  BY FooterForms
<1>4. OutputOf(o, f, v, n).count = n
  BY OutputFields
<1> QED BY <1>1, <1>2, <1>4, <1>o, Zenon DEF Is

(* When all has come, the footer makes a document of what was printed.     *)
LEMMA FooterEnds ==
  ASSUME NEW k, IsQuery(k), ~IsFile(k), NEW base, NEW S, NEW n, n = Len(S), NEW p, Printing(k, base, S, n, p)
  PROVE  /\ Footer(p, k.format, k.sizes).count = n
         /\ base = HeaderOf(k) => Footer(p, k.format, k.sizes).out = DocumentOf(k, S)
<1>0. S \in Seq(Items(k)) /\ n \in Nat
  BY DEF Printing
<1>1. CASE IsJson(k)
  <2>1. JsonState(k, base, S, n, p) /\ AsText(k)
    BY <1>1, KindsOfFormat DEF Printing
  <2>2. S \in Seq(Sized(k))
    BY <1>0, <2>1, ItemsSized
  <2>3. Footer(p, k.format, k.sizes).count = n
    BY <1>1, <2>1, JsonCount
  <2>4. ASSUME base = HeaderOf(k) PROVE Footer(p, k.format, k.sizes).out = DocumentOf(k, S)
    <3>1. JsonState(k, HeaderOf(k), S, n, p)
      BY <2>1, <2>4, Zenon
    <3>2. Document1(k, S, n, p)
      BY <1>1, <2>2, <3>1, JsonEnds
    <3> QED BY <3>2, DocumentFields
  <2> QED BY <2>3, <2>4
<1>2. CASE IsLines(k)
  <2>1. LinesState(k, base, S, n, p) /\ AsText(k)
    BY <1>2, KindsOfFormat DEF Printing
  <2>2. S \in Seq(Sized(k))
    BY <1>0, <2>1, ItemsSized
  <2>3. Footer(p, k.format, k.sizes).count = n
    BY <1>2, <2>1, LinesCount
  <2>4. ASSUME base = HeaderOf(k) PROVE Footer(p, k.format, k.sizes).out = DocumentOf(k, S)
    <3>1. LinesState(k, HeaderOf(k), S, n, p)
      BY <2>1, <2>4, Zenon
    <3>2. Document1(k, S, n, p)
      BY <1>2, <2>2, <3>1, LinesEnd
    <3> QED BY <3>2, DocumentFields
  <2> QED BY <2>3, <2>4
<1>3. CASE IsWkt(k)
  <2>1. WktPrinting(k, S, n, p) /\ AsText(k)
    BY <1>3, KindsOfFormat DEF Printing
  <2>2. S \in Seq(Sized(k))
    BY <1>0, <2>1, ItemsSized
  <2>3. Document1(k, S, n, p)
    BY <1>3, <2>1, <2>2, WktEnds
  <2> QED BY <2>3, DocumentFields
<1>4. CASE IsBrief(k)
  <2>1. BriefPrinting(k, S, n, p)
    BY <1>4 DEF Printing
  <2>2. S \in Seq(Sized(k))
    BY <1>0, <1>4, ItemsSized
  <2>3. Document1(k, S, n, p)
    BY <1>4, <2>1, <2>2, BriefEnds
  <2> QED BY <2>3, DocumentFields
<1>5. CASE IsCount(k)
  <2>1. CountState(n, p)
    BY <1>5 DEF Printing
  <2>2. CountState(Len(S), p)
    BY <2>1
  <2>3. Document1(k, S, Len(S), p)
    BY <1>5, <2>2, CountEnds
  <2> QED BY <2>3, DocumentFields
<1> QED BY <1>1, <1>2, <1>3, <1>4, <1>5, KindsOfFormat

(* Before the first batch.                                                 *)
LEMMA PrintingBegins ==
  ASSUME NEW k, IsQuery(k), NEW base, base \in Seq(Tokens(k)), NEW p, p = OutputOf(base, TRUE, <<>>, 0),
         ~(IsJson(k) \/ IsLines(k)) => base = <<>>
  PROVE  Printing(k, base, <<>>, 0, p)
<1>0. <<>> \in Seq(Items(k)) /\ 0 \in Nat
  BY EmptySeq
<1>1. Texts(k, <<>>) = <<>>
  BY TextsEmpty
<1>2. Body(<<>>) = <<>>
  BY SubSeqEmpty DEF Body
<1>3. Cat(base, <<>>) = base
  BY CatEmpty
<1>4. Empty(<<>>) = TRUE
  BY DEF Empty
<1>5. JsonState(k, base, <<>>, 0, p)
  BY <1>1, <1>2, <1>3, <1>4, Zenon DEF JsonState
<1>6. LinesState(k, base, <<>>, 0, p)
  BY <1>1, <1>3, Zenon DEF LinesState
<1>7. <<>> \in Seq(Sized(k)) /\ Cat(<<>>, <<>>) = <<>>
  <2>1. <<>> \in Seq(Sized(k))
    BY EmptySeq
  <2> QED BY <2>1, CatEmpty
<1>8. ASSUME base = <<>> PROVE WktPrinting(k, <<>>, 0, p)
  <2>1. WktState(k, <<>>, <<>>, <<>>)
    BY <1>7 DEF WktState
  <2>2. WktOut(k, <<>>) = <<>>
    BY DEF WktOut
  <2> QED BY <1>4, <1>7, <1>8, <2>1, <2>2, Zenon DEF WktPrinting
<1>9. ASSUME base = <<>> PROVE BriefPrinting(k, <<>>, 0, p)
  BY <1>1, <1>7, <1>9, Zenon DEF BriefPrinting, BriefState
<1>10. ASSUME base = <<>> PROVE CountState(0, p)
  BY <1>10, Zenon DEF CountState
<1>11. FileState(0, p)
  BY Zenon DEF FileState
<1>12. IsWkt(k) \/ IsBrief(k) \/ IsCount(k) => base = <<>>
  BY KindsOfFormat
<1> QED BY <1>0, <1>5, <1>6, <1>8, <1>9, <1>10, <1>11, <1>12, Zenon DEF Printing

-----------------------------------------------------------------------------
(* The books: what was submitted and printed                               *)

(* What a batch b carries: text of the features lot; an account of the     *)
(* features acc; and it ends a tile if it is complete.                     *)
EntryIs(k, b, lot, acc, end) ==
  /\ Carries(k, b, lot, acc) /\ b.complete \in BOOLEAN
  /\ end \in Seq(CurrentOf(k)) /\ Len(end) = IF b.complete THEN 1 ELSE 0

(* The batches of the queue carry these lots.                              *)
Entered(k, batches, lots, accs, ends) ==
  /\ \E B : batches \in Seq(B)
  /\ Len(lots) = Len(batches) /\ Len(accs) = Len(batches) /\ Len(ends) = Len(batches)
  /\ \A m \in 1..Len(batches) : EntryIs(k, batches[m], lots[m], accs[m], ends[m])

(* Of each tile, the texts of sub[i] results were submitted, and ac[i] of  *)
(* them were accounted for.                                                *)
Progressed(k, sub, ac) ==
  /\ sub \in Progress(k) /\ ac \in Progress(k)
  /\ \A i \in CurrentOf(k) : sub[i] <= ac[i] /\ ac[i] <= Total(k, i)

(* The texts of S were printed, A were accounted for and the tiles in T    *)
(* ended; each batch that is queued has more of each.                      *)
Books(k, sub, ac, D, batches, S, A, T) ==
  /\ Progressed(k, sub, ac)
  /\ \E lots, accs, ends :
       /\ Ledger(Items(k), Reached(k, sub), S, lots)
       /\ Ledger(Items(k), Reached(k, ac), A, accs)
       /\ Ledger(CurrentOf(k), D, T, ends)
       /\ Entered(k, batches, lots, accs, ends)
       /\ Ahead(S, lots, A, accs)

(* A batch enters the queue, ...                                           *)
LEMMA EnteredMore ==
  ASSUME NEW k, NEW bs, NEW lots, NEW accs, NEW ends, Entered(k, bs, lots, accs, ends),
         NEW F, lots \in Seq(F), NEW G, accs \in Seq(G), NEW H, ends \in Seq(H),
         NEW b, NEW lot, lot \in F, NEW acc, acc \in G, NEW end, end \in H, EntryIs(k, b, lot, acc, end)
  PROVE  Entered(k, Append(bs, b), Append(lots, lot), Append(accs, acc), Append(ends, end))
<1>1. PICK B : bs \in Seq(B)
  BY DEF Entered
<1>2. \A X : \A s \in Seq(X) : \A e \in X : /\ Append(s, e) \in Seq(X) /\ Len(Append(s, e)) = Len(s) + 1 /\ Len(s) \in Nat
                                  /\ Append(s, e)[Len(s) + 1] = e /\ \A m \in 1..Len(s) : Append(s, e)[m] = s[m]
  BY AppendProperties, LenProperties
<1> DEFINE C == B \union {b}
<1>3. bs \in Seq(C) /\ b \in C
  BY <1>1
<1> HIDE DEF C
<1>n. PICK n : Is(n, Len(bs))
  BY DEF Is
<1>4. n \in Nat /\ Len(lots) = n /\ Len(accs) = n /\ Len(ends) = n
      /\ \A m \in 1..n : EntryIs(k, bs[m], lots[m], accs[m], ends[m])
  <2>1. Len(bs) \in Nat
    BY <1>1, LenProperties
  <2> QED BY <1>n, <2>1, Zenon DEF Entered, Is
<1>5. Append(bs, b) \in Seq(C) /\ Len(Append(bs, b)) = n + 1 /\ Append(bs, b)[n + 1] = b /\ \A m \in 1..n : Append(bs, b)[m] = bs[m]
  <2>1. Append(bs, b) \in Seq(C) /\ Len(Append(bs, b)) = Len(bs) + 1 /\ Append(bs, b)[Len(bs) + 1] = b
        /\ \A m \in 1..Len(bs) : Append(bs, b)[m] = bs[m]
    BY <1>2, <1>3
  <2> QED BY <1>n, <2>1, Zenon DEF Is
<1>6. Len(Append(lots, lot)) = n + 1 /\ Append(lots, lot)[n + 1] = lot /\ \A m \in 1..n : Append(lots, lot)[m] = lots[m]
  BY <1>2, <1>4
<1>7. Len(Append(accs, acc)) = n + 1 /\ Append(accs, acc)[n + 1] = acc /\ \A m \in 1..n : Append(accs, acc)[m] = accs[m]
  BY <1>2, <1>4
<1>8. Len(Append(ends, end)) = n + 1 /\ Append(ends, end)[n + 1] = end /\ \A m \in 1..n : Append(ends, end)[m] = ends[m]
  BY <1>2, <1>4
<1>9. ASSUME NEW m \in 1..(n + 1)
      PROVE  EntryIs(k, Append(bs, b)[m], Append(lots, lot)[m], Append(accs, acc)[m], Append(ends, end)[m])
  <2>1. CASE m = n + 1
    BY <1>5, <1>6, <1>7, <1>8, <2>1, Zenon
  <2>2. CASE m # n + 1
    <3>1. m \in 1..n
      BY <1>4, <2>2
    <3>2. Append(bs, b)[m] = bs[m] /\ Append(lots, lot)[m] = lots[m] /\ Append(accs, acc)[m] = accs[m] /\ Append(ends, end)[m] = ends[m]
      BY <1>5, <1>6, <1>7, <1>8, <3>1, Zenon
    <3> QED BY <1>4, <3>1, <3>2, Zenon
  <2> QED BY <2>1, <2>2
<1> QED BY <1>5, <1>6, <1>7, <1>8, <1>9, Zenon DEF Entered

(* A batch is submitted.                                                   *)
LEMMA Enter ==
  ASSUME NEW k, IsQuery(k), NEW sub, NEW ac, NEW D, NEW bs, NEW S, NEW A, NEW T, Books(k, sub, ac, D, bs, S, A, T),
         NEW i, i \in CurrentOf(k), NEW m, m \in Nat, NEW n, n \in Nat,
         sub[i] <= m, ac[i] <= n, m <= n, n <= Total(k, i),
         NEW b, Carries(k, b, Slice(k, i, sub[i], m), Slice(k, i, ac[i], n)), b.complete \in BOOLEAN,
         NEW end, end \in Seq(CurrentOf(k)), Distinct(end), Elems(end) \intersect D = {},
         Len(end) = IF b.complete THEN 1 ELSE 0
  PROVE  Books(k, Moved(sub, i, m), Moved(ac, i, n), D \union Elems(end), Append(bs, b), S, A, T)
<1>1. Progressed(k, sub, ac)
  BY DEF Books
<1>2. PICK lots, accs, ends :
       /\ Ledger(Items(k), Reached(k, sub), S, lots)
       /\ Ledger(Items(k), Reached(k, ac), A, accs)
       /\ Ledger(CurrentOf(k), D, T, ends)
       /\ Entered(k, bs, lots, accs, ends)
       /\ Ahead(S, lots, A, accs)
  BY DEF Books
<1>3. sub \in Progress(k) /\ ac \in Progress(k) /\ sub[i] \in Nat /\ ac[i] \in Nat /\ Total(k, i) \in Nat
      /\ \A j \in CurrentOf(k) : sub[j] <= ac[j] /\ ac[j] <= Total(k, j)
  <2>1. i \in DOMAIN k.tiles
    BY DEF CurrentOf
  <2>2. Total(k, i) \in Nat
    BY FoundType
  <2> QED BY <1>1, <2>1, <2>2 DEF Progressed, Progress
<1>s. PICK s : Is(s, Moved(sub, i, m))
  BY DEF Is
<1>u. PICK u : Is(u, Moved(ac, i, n))
  BY DEF Is
<1>x. PICK x : Is(x, Slice(k, i, sub[i], m))
  BY DEF Is
<1>y. PICK y : Is(y, Slice(k, i, ac[i], n))
  BY DEF Is
<1>4. /\ s \in Progress(k) /\ Elems(x) \intersect Reached(k, sub) = {}
      /\ Reached(k, s) = Reached(k, sub) \union Elems(x)
  <2>1. m <= Total(k, i)
    BY <1>3
  <2>2. /\ Moved(sub, i, m) \in Progress(k)
        /\ Elems(Slice(k, i, sub[i], m)) \intersect Reached(k, sub) = {}
        /\ Reached(k, Moved(sub, i, m)) = Reached(k, sub) \union Elems(Slice(k, i, sub[i], m))
    <3>1. \A j \in CurrentOf(k) : sub[j] <= Total(k, j)
      <4>1. ASSUME NEW j \in CurrentOf(k) PROVE sub[j] <= Total(k, j)
        <5>1. j \in DOMAIN k.tiles
          BY DEF CurrentOf
        <5>2. Total(k, j) \in Nat
          BY FoundType
        <5> QED BY <1>3, <5>1, <5>2 DEF Progress
      <4> QED BY <4>1
    <3> QED BY <1>3, <2>1, <3>1, ReachMore
  <2> QED BY <1>s, <1>x, <2>2, Zenon DEF Is
<1>5. /\ u \in Progress(k) /\ Elems(y) \intersect Reached(k, ac) = {}
      /\ Reached(k, u) = Reached(k, ac) \union Elems(y)
  <2>2. /\ Moved(ac, i, n) \in Progress(k)
        /\ Elems(Slice(k, i, ac[i], n)) \intersect Reached(k, ac) = {}
        /\ Reached(k, Moved(ac, i, n)) = Reached(k, ac) \union Elems(Slice(k, i, ac[i], n))
    BY <1>3, ReachMore
  <2> QED BY <1>u, <1>y, <2>2, Zenon DEF Is
<1>6. x \in Seq(Items(k)) /\ Distinct(x)
  <2>1. m <= Total(k, i)
    BY <1>3
  <2>2. Slice(k, i, sub[i], m) \in Seq(Items(k))
    BY <1>3, <2>1, SliceType
  <2>3. Distinct(Slice(k, i, sub[i], m))
    BY <1>3, <2>1, SliceOnce
  <2> QED BY <1>x, <2>2, <2>3, Zenon DEF Is
<1>7. y \in Seq(Items(k)) /\ Distinct(y)
  <2>2. Slice(k, i, ac[i], n) \in Seq(Items(k))
    BY <1>3, SliceType
  <2>3. Distinct(Slice(k, i, ac[i], n))
    BY <1>3, SliceOnce
  <2> QED BY <1>y, <2>2, <2>3, Zenon DEF Is
<1>8. Progressed(k, s, u)
  <2>1. ASSUME NEW j \in CurrentOf(k) PROVE s[j] <= u[j] /\ u[j] <= Total(k, j)
    <3>0. i \in DOMAIN k.tiles /\ j \in DOMAIN k.tiles
      BY DEF CurrentOf
    <3>1. s[j] = IF j = i THEN m ELSE sub[j]
      BY <1>3, <1>s, <3>0 DEF Is, Moved, Progress
    <3>2. u[j] = IF j = i THEN n ELSE ac[j]
      BY <1>3, <1>u, <3>0 DEF Is, Moved, Progress
    <3> QED BY <1>3, <3>1, <3>2
  <2> QED BY <1>4, <1>5, <2>1 DEF Progressed
<1>9. Ledger(Items(k), Reached(k, s), S, Append(lots, x))
  <2>1. Ledger(Items(k), Reached(k, sub) \union Elems(x), S, Append(lots, x))
    BY <1>2, <1>4, <1>6, LedgerAppend
  <2> QED BY <1>4, <2>1, Zenon
<1>10. Ledger(Items(k), Reached(k, u), A, Append(accs, y))
  <2>1. Ledger(Items(k), Reached(k, ac) \union Elems(y), A, Append(accs, y))
    BY <1>2, <1>5, <1>7, LedgerAppend
  <2> QED BY <1>5, <2>1, Zenon
<1>11. Ledger(CurrentOf(k), D \union Elems(end), T, Append(ends, end))
  BY <1>2, LedgerAppend
<1>12. Entered(k, Append(bs, b), Append(lots, x), Append(accs, y), Append(ends, end))
  <2>1. Carries(k, b, x, y)
    BY <1>x, <1>y, Zenon DEF Is
  <2>2. EntryIs(k, b, x, y, end)
    BY <2>1, Zenon DEF EntryIs
  <2>3. lots \in Seq(Seq(Items(k))) /\ accs \in Seq(Seq(Items(k))) /\ ends \in Seq(Seq(CurrentOf(k)))
    BY <1>2 DEF Ledger
  <2>4. Entered(k, bs, lots, accs, ends)
    BY <1>2
  <2> QED BY <1>6, <1>7, <2>2, <2>3, <2>4, EnteredMore
<1>13. Ahead(S, Append(lots, x), A, Append(accs, y))
  <2>1. Len(accs) = Len(lots)
    BY <1>2, Zenon DEF Entered
  <2>2. Reached(k, s) \subseteq Reached(k, u)
    <3>1. s \in Progress(k) /\ u \in Progress(k) /\ \A j \in CurrentOf(k) : s[j] <= u[j]
      BY <1>8 DEF Progressed
    <3> QED BY <3>1, ReachedIn
  <2>3. Reached(k, sub) \union Elems(x) \subseteq Reached(k, ac) \union Elems(y)
    BY <1>4, <1>5, <2>2, Zenon
  <2>4. /\ Ledger(Items(k), Reached(k, sub), S, lots) /\ Ledger(Items(k), Reached(k, ac), A, accs)
        /\ Ahead(S, lots, A, accs)
    BY <1>2
  <2> QED BY <1>6, <1>7, <2>1, <2>3, <2>4, AheadAppend
<1>14. Books(k, s, u, D \union Elems(end), Append(bs, b), S, A, T)
  BY <1>8, <1>9, <1>10, <1>11, <1>12, <1>13, Zenon DEF Books
<1> QED BY <1>14, <1>s, <1>u, Zenon DEF Is

(* ... the first one leaves it.                                            *)
LEMMA EnteredHead ==
  ASSUME NEW k, NEW bs, bs # <<>>, NEW lots, NEW accs, NEW ends, Entered(k, bs, lots, accs, ends),
         NEW F, lots \in Seq(F), NEW G, accs \in Seq(G), NEW H, ends \in Seq(H)
  PROVE  /\ lots # <<>> /\ accs # <<>> /\ ends # <<>>
         /\ EntryIs(k, Head(bs), Head(lots), Head(accs), Head(ends))
         /\ Entered(k, Tail(bs), Tail(lots), Tail(accs), Tail(ends))
<1>1. PICK B : bs \in Seq(B)
  BY DEF Entered
<1>2. \A X : \A s \in Seq(X) : s # <<>> =>
         /\ Len(s) \in Nat \ {0} /\ Head(s) = s[1] /\ Tail(s) \in Seq(X) /\ Len(Tail(s)) = Len(s) - 1
         /\ \A m \in 1..Len(s) - 1 : Tail(s)[m] = s[m + 1]
  BY HeadTailProperties, EmptySeq, LenProperties
<1>n. PICK n : Is(n, Len(bs))
  BY DEF Is
<1>3. /\ n \in Nat \ {0} /\ Head(bs) = bs[1] /\ Tail(bs) \in Seq(B) /\ Len(Tail(bs)) = n - 1
      /\ \A m \in 1..n - 1 : Tail(bs)[m] = bs[m + 1]
  <2>1. /\ Len(bs) \in Nat \ {0} /\ Head(bs) = bs[1] /\ Tail(bs) \in Seq(B) /\ Len(Tail(bs)) = Len(bs) - 1
        /\ \A m \in 1..Len(bs) - 1 : Tail(bs)[m] = bs[m + 1]
    BY <1>1, <1>2
  <2> QED BY <1>n, <2>1, Zenon DEF Is
<1>4. Len(lots) = n /\ Len(accs) = n /\ Len(ends) = n
      /\ \A m \in 1..n : EntryIs(k, bs[m], lots[m], accs[m], ends[m])
  BY <1>n, Zenon DEF Entered, Is
<1>5. lots # <<>> /\ accs # <<>> /\ ends # <<>>
  <2>1. \A x : Len(x) # 0 => x # <<>>
    BY EmptyFacts
  <2> QED BY <1>3, <1>4, <2>1
<1>6. Head(lots) = lots[1] /\ Len(Tail(lots)) = n - 1 /\ \A m \in 1..n - 1 : Tail(lots)[m] = lots[m + 1]
  BY <1>2, <1>4, <1>5
<1>7. Head(accs) = accs[1] /\ Len(Tail(accs)) = n - 1 /\ \A m \in 1..n - 1 : Tail(accs)[m] = accs[m + 1]
  BY <1>2, <1>4, <1>5
<1>8. Head(ends) = ends[1] /\ Len(Tail(ends)) = n - 1 /\ \A m \in 1..n - 1 : Tail(ends)[m] = ends[m + 1]
  BY <1>2, <1>4, <1>5
<1>9. EntryIs(k, Head(bs), Head(lots), Head(accs), Head(ends))
  <2>1. 1 \in 1..n
    BY <1>3
  <2>2. EntryIs(k, bs[1], lots[1], accs[1], ends[1])
    BY <1>4, <2>1, Zenon
  <2> QED BY <1>3, <1>6, <1>7, <1>8, <2>2, Zenon
<1>10. ASSUME NEW m \in 1..n - 1
       PROVE  EntryIs(k, Tail(bs)[m], Tail(lots)[m], Tail(accs)[m], Tail(ends)[m])
  <2>1. m + 1 \in 1..n
    BY <1>3
  <2>2. EntryIs(k, bs[m + 1], lots[m + 1], accs[m + 1], ends[m + 1])
    BY <1>4, <2>1, Zenon
  <2> QED BY <1>3, <1>6, <1>7, <1>8, <2>2, Zenon
<1>11. Entered(k, Tail(bs), Tail(lots), Tail(accs), Tail(ends))
  BY <1>3, <1>6, <1>7, <1>8, <1>10, Zenon DEF Entered
<1> QED BY <1>5, <1>9, <1>11

(* A batch is taken from the queue.                                        *)
LEMMA Leave ==
  ASSUME NEW k, IsQuery(k), NEW sub, NEW ac, NEW D, NEW bs, bs # <<>>, NEW S, NEW A, NEW T,
         Books(k, sub, ac, D, bs, S, A, T)
  PROVE  \E lot, acc, end :
           /\ EntryIs(k, Head(bs), lot, acc, end)
           /\ Books(k, sub, ac, D, Tail(bs), Cat(S, lot), Cat(A, acc), Cat(T, end))
           /\ Len(Cat(S, lot)) <= Len(A) + Len(acc)
           /\ Len(Cat(A, acc)) = Len(A) + Len(acc) /\ Len(Cat(T, end)) = Len(T) + Len(end)
<1>1. Progressed(k, sub, ac)
  BY DEF Books
<1>2. PICK lots, accs, ends :
       /\ Ledger(Items(k), Reached(k, sub), S, lots)
       /\ Ledger(Items(k), Reached(k, ac), A, accs)
       /\ Ledger(CurrentOf(k), D, T, ends)
       /\ Entered(k, bs, lots, accs, ends)
       /\ Ahead(S, lots, A, accs)
  BY DEF Books
<1>3. lots \in Seq(Seq(Items(k))) /\ accs \in Seq(Seq(Items(k))) /\ ends \in Seq(Seq(CurrentOf(k)))
  BY <1>2 DEF Ledger
<1>4. /\ lots # <<>> /\ accs # <<>> /\ ends # <<>>
      /\ EntryIs(k, Head(bs), Head(lots), Head(accs), Head(ends))
      /\ Entered(k, Tail(bs), Tail(lots), Tail(accs), Tail(ends))
  BY <1>2, <1>3, EnteredHead
<1>5. Ledger(Items(k), Reached(k, sub), Cat(S, Head(lots)), Tail(lots))
  BY <1>2, <1>4, LedgerHead DEF Cat
<1>6. Ledger(Items(k), Reached(k, ac), Cat(A, Head(accs)), Tail(accs)) /\ Len(Cat(A, Head(accs))) = Len(A) + Len(Head(accs))
  BY <1>2, <1>4, LedgerHead DEF Cat
<1>7. Ledger(CurrentOf(k), D, Cat(T, Head(ends)), Tail(ends)) /\ Len(Cat(T, Head(ends))) = Len(T) + Len(Head(ends))
  BY <1>2, <1>4, LedgerHead DEF Cat
<1>8. Ahead(Cat(S, Head(lots)), Tail(lots), Cat(A, Head(accs)), Tail(accs))
  <2>1. Len(accs) = Len(lots)
    BY <1>2, Zenon DEF Entered
  <2>2. Ahead(S \o Head(lots), Tail(lots), A \o Head(accs), Tail(accs))
    BY <1>2, <1>4, <2>1, AheadHead
  <2> QED BY <2>2, Zenon DEF Cat
<1>9. Books(k, sub, ac, D, Tail(bs), Cat(S, Head(lots)), Cat(A, Head(accs)), Cat(T, Head(ends)))
  BY <1>1, <1>4, <1>5, <1>6, <1>7, <1>8, Zenon DEF Books
<1>10. Len(Cat(S, Head(lots))) <= Len(Cat(A, Head(accs)))
  BY <1>5, <1>6, <1>8, AheadLength
<1>11. Len(Cat(S, Head(lots))) <= Len(A) + Len(Head(accs))
  BY <1>6, <1>10
<1> QED BY <1>4, <1>6, <1>7, <1>9, <1>11, Zenon

(* As many ends were seen as there are tiles: all tiles ended.             *)
LEMMA BooksEnded ==
  ASSUME NEW k, IsQuery(k), NEW sub, NEW ac, NEW D, NEW bs, NEW S, NEW A, NEW T,
         Books(k, sub, ac, D, bs, S, A, T), Len(T) >= Cardinality(CurrentOf(k))
  PROVE  D = CurrentOf(k) /\ Len(T) = Cardinality(D)
<1>1. PICK ends : Ledger(CurrentOf(k), D, T, ends)
  BY DEF Books
<1>2. IsFiniteSet(CurrentOf(k)) /\ Cardinality(CurrentOf(k)) \in Nat
  <2>1. DOMAIN k.tiles = 1..Len(k.tiles) /\ Len(k.tiles) \in Nat
    BY LenProperties DEF IsQuery
  <2>2. IsFiniteSet(1..Len(k.tiles))
    BY <2>1, FS_Interval
  <2>3. CurrentOf(k) \subseteq 1..Len(k.tiles)
    BY <2>1 DEF CurrentOf
  <2> QED BY <2>2, <2>3, FS_Subset, FS_CardinalityType
<1>3. IsFiniteSet(D) /\ Cardinality(D) \in Nat /\ Len(T) \in Nat /\ Len(T) <= Cardinality(D) /\ D \subseteq CurrentOf(k)
  BY <1>1, LedgerSize
<1>4. Cardinality(D) <= Cardinality(CurrentOf(k))
  BY <1>2, <1>3, FS_Subset
<1>5. Cardinality(D) = Cardinality(CurrentOf(k)) /\ Len(T) = Cardinality(D)
  BY <1>2, <1>3, <1>4
<1> QED BY <1>2, <1>3, <1>5, FS_Subset

(* ... and all was printed, if the last batch that is queued would end one. *)
LEMMA BooksClose ==
  ASSUME NEW k, IsQuery(k), NEW sub, NEW ac, NEW D, NEW bs, NEW S, NEW A, NEW T,
         Books(k, sub, ac, D, bs, S, A, T), Len(T) >= Cardinality(CurrentOf(k)),
         \A i \in D : sub[i] = Total(k, i) /\ ac[i] = Total(k, i),
         bs # <<>> => bs[Len(bs)].complete
  PROVE  /\ S \in SetToSeqs(AllOf(k)) /\ Len(S) = Cardinality(AllOf(k)) /\ Len(A) = Cardinality(AllOf(k))
         /\ IsFiniteSet(AllOf(k))
<1>1. PICK lots, accs, ends :
       /\ Ledger(Items(k), Reached(k, sub), S, lots)
       /\ Ledger(Items(k), Reached(k, ac), A, accs)
       /\ Ledger(CurrentOf(k), D, T, ends)
       /\ Entered(k, bs, lots, accs, ends)
  BY DEF Books
<1>4. D = CurrentOf(k) /\ FlattenSeq(ends) = <<>>
  <2>1. D = CurrentOf(k) /\ Len(T) = Cardinality(D)
    BY BooksEnded
  <2> QED BY <1>1, <2>1, LedgerSize
<1>5. bs = <<>>
  <2>1. SUFFICES ASSUME bs # <<>> PROVE FALSE
    OBVIOUS
  <2>2. PICK B : bs \in Seq(B)
    BY <1>1, Zenon DEF Entered
  <2>3. Len(bs) \in Nat \ {0}
    BY <2>1, <2>2, EmptySeq, LenProperties
  <2>4. ends \in Seq(Seq(CurrentOf(k))) /\ Len(ends) = Len(bs)
        /\ EntryIs(k, bs[Len(bs)], lots[Len(bs)], accs[Len(bs)], ends[Len(bs)])
    <3>1. ends \in Seq(Seq(CurrentOf(k)))
      BY <1>1 DEF Ledger
    <3>2. Len(bs) \in 1..Len(bs)
      BY <2>3
    <3> QED BY <1>1, <3>1, <3>2, Zenon DEF Entered
  <2>5. ends # <<>> /\ Last(ends) = ends[Len(ends)]
    BY <2>3, <2>4, EmptyFacts DEF Last
  <2>6. Len(Last(ends)) = 1
    BY <2>1, <2>4, <2>5 DEF EntryIs
  <2>7. FlattenSeq(ends) = FlattenSeq(Front(ends)) \o Last(ends) /\ Front(ends) \in Seq(Seq(CurrentOf(k))) /\ Last(ends) \in Seq(CurrentOf(k))
    BY <2>4, <2>5, FlattenFront
  <2>8. FlattenSeq(Front(ends)) \in Seq(CurrentOf(k))
    BY <2>7, FlattenType
  <2>9. PICK f, l : Is(f, FlattenSeq(Front(ends))) /\ Is(l, Last(ends))
    BY DEF Is
  <2>10. f \in Seq(CurrentOf(k)) /\ l \in Seq(CurrentOf(k)) /\ Len(l) = 1 /\ f \o l = <<>>
    BY <1>4, <2>6, <2>7, <2>8, <2>9, Zenon DEF Is
  <2>11. Len(f \o l) = Len(f) + Len(l) /\ Len(f) \in Nat
    BY <2>10, ConcatProperties, LenProperties
  <2>12. Len(f \o l) = 0
    BY <2>10
  <2> QED BY <2>10, <2>11, <2>12
<1>6. lots = <<>> /\ accs = <<>>
  <2>1. Len(bs) = 0
    BY <1>5
  <2>2. Len(lots) = 0 /\ Len(accs) = 0
    BY <1>1, <2>1, Zenon DEF Entered
  <2> QED BY <1>1, <2>2, EmptySeq DEF Ledger
<1>7. Reached(k, sub) = AllOf(k) /\ Reached(k, ac) = AllOf(k)
  <2>1. sub \in Progress(k) /\ ac \in Progress(k)
    BY DEF Books, Progressed
  <2> QED BY <1>4, <2>1, ReachedAll
<1>8. S \in Seq(Items(k)) /\ Distinct(S) /\ Elems(S) = AllOf(k)
  <2>1. Ledger(Items(k), AllOf(k), S, <<>>)
    BY <1>1, <1>6, <1>7
  <2> QED BY <2>1, FlattenEmpty, ConcatEmptySeq DEF Ledger
<1>9. A \in Seq(Items(k)) /\ Distinct(A) /\ Elems(A) = AllOf(k)
  <2>1. Ledger(Items(k), AllOf(k), A, <<>>)
    BY <1>1, <1>6, <1>7
  <2> QED BY <2>1, FlattenEmpty, ConcatEmptySeq DEF Ledger
<1>10. Len(S) = Cardinality(AllOf(k)) /\ Len(A) = Cardinality(AllOf(k)) /\ IsFiniteSet(AllOf(k))
  BY <1>8, <1>9, DistinctLength
<1>11. S \in SetToSeqs(AllOf(k))
  <2>1. S \in [1..Cardinality(AllOf(k)) -> AllOf(k)]
    BY <1>8, <1>10, LenProperties, ElementOfSeq DEF Elems
  <2>2. DOMAIN S = 1..Cardinality(AllOf(k))
    BY <2>1
  <2>3. \A i, j \in 1..Cardinality(AllOf(k)) : i # j => S[i] # S[j]
    BY <1>8, <2>2, Zenon DEF Distinct
  <2> QED BY <2>1, <2>3 DEF SetToSeqs
<1> QED BY <1>10, <1>11

-----------------------------------------------------------------------------
(* The threads that query the tiles                                        *)

(* The entries of a tile of the query.                                     *)
EntriesIn(k, i) == Entries(k.tiles[i].pages)

(* A thread has written n of the results in tile i, those from m on to its *)
(* buffer, which accounts for those from a to c[n]; the others are td.     *)
TaskAt(k, i, td, bf, m, a, c, n) ==
  /\ Cover(EntriesIn(k, i), c) /\ n \in 0..Total(k, i) /\ m \in Nat /\ a \in Nat /\ m <= n
  /\ td = SubSeq(EntriesIn(k, i), n + 1, Total(k, i))
  /\ bf \in Buffers(k) /\ FlattenSeq(bf.chain) = Texts(k, Slice(k, i, m, n))
  /\ a + bf.count = c[n]

(* They are its results in order.                                          *)
LEMMA EntriesFacts ==
  ASSUME NEW k, IsQuery(k), NEW i \in CurrentOf(k)
  PROVE  /\ EntriesIn(k, i) \in Seq(EntriesOf(DOMAIN k.lib)) /\ Len(EntriesIn(k, i)) = Total(k, i)
         /\ \A n \in 1..Total(k, i) : EntriesIn(k, i)[n].f = Found(k, i)[n]
         /\ \E c : Cover(EntriesIn(k, i), c)
<1>1. k.tiles \in Seq([current : BOOLEAN, pages : Seq(Seq(DOMAIN k.lib))]) /\ i \in DOMAIN k.tiles
  BY Zenon DEF IsQuery, CurrentOf
<1>2. k.tiles[i].pages \in Seq(Seq(DOMAIN k.lib))
  <2>1. \A X : \A s \in Seq(X) : \A j \in DOMAIN s : s[j] \in X
    BY ElementOfSeq, LenProperties
  <2>2. k.tiles[i] \in [current : BOOLEAN, pages : Seq(Seq(DOMAIN k.lib))]
    BY <1>1, <2>1, Zenon
  <2> QED BY <2>2
<1> PICK pg : Is(pg, k.tiles[i].pages)
  BY DEF Is
<1>3. pg \in Seq(Seq(DOMAIN k.lib))
  BY <1>2 DEF Is
<1>4. /\ Entries(pg) \in Seq(EntriesOf(DOMAIN k.lib)) /\ Len(Entries(pg)) = Len(FlattenSeq(pg))
      /\ \A n \in 1..Len(FlattenSeq(pg)) : Entries(pg)[n].f = FlattenSeq(pg)[n]
      /\ \E c : Cover(Entries(pg), c)
  BY <1>3, EntriesAre
<1> QED BY <1>4, Zenon DEF EntriesIn, Total, Found, Is

(* One result more.                                                        *)
LEMMA SliceMore ==
  ASSUME NEW k, IsQuery(k), NEW i \in CurrentOf(k), NEW m \in Nat, NEW n \in Nat, m <= n, n + 1 <= Total(k, i)
  PROVE  /\ Slice(k, i, m, n + 1) = Append(Slice(k, i, m, n), Found(k, i)[n + 1])
         /\ Slice(k, i, n, n + 1) = <<Found(k, i)[n + 1]>> /\ Found(k, i)[n + 1] \in Items(k)
         /\ Slice(k, i, n, n) = <<>>
<1>1. Found(k, i) \in Seq(Items(k)) /\ Total(k, i) \in Nat
  BY FoundType
<1>2. /\ n + 1 \in 1..Total(k, i) /\ n + 1 \in Nat /\ m <= n + 1 /\ n <= Total(k, i) /\ n <= n + 1
      /\ n <= n /\ i \in CurrentOf(k)
  BY <1>1
<1>s. ASSUME NEW u \in Nat, NEW v \in Nat, u <= v, v <= Total(k, i)
      PROVE  /\ Slice(k, i, u, v) \in Seq(Items(k)) /\ Len(Slice(k, i, u, v)) = v - u
             /\ \A j \in 1..(v - u) : Slice(k, i, u, v)[j] = Found(k, i)[u + j]
  <2>1. PICK t : Is(t, Found(k, i))
    BY DEF Is
  <2>2. t \in Seq(Items(k)) /\ v <= Len(t)
    BY <1>1, <1>s, <2>1, Zenon DEF Is, Total
  <2>3. /\ SubSeq(t, u + 1, v) \in Seq(Items(k)) /\ Len(SubSeq(t, u + 1, v)) = v - u
        /\ \A j \in 1..(v - u) : SubSeq(t, u + 1, v)[j] = t[u + j]
    BY <1>s, <2>2, SliceIs
  <2> QED BY <2>1, <2>3, Zenon DEF Is, Slice
<1>3. Found(k, i)[n + 1] \in Items(k)
  BY <1>1, <1>2, ElementOfSeq DEF Total
<1>g. PICK g : Is(g, Found(k, i)[n + 1])
  BY DEF Is
<1>4. /\ Slice(k, i, m, n + 1) \in Seq(Items(k)) /\ Len(Slice(k, i, m, n + 1)) = (n + 1) - m
      /\ \A j \in 1..((n + 1) - m) : Slice(k, i, m, n + 1)[j] = Found(k, i)[m + j]
  BY <1>2, <1>s, Zenon
<1>5. /\ Slice(k, i, m, n) \in Seq(Items(k)) /\ Len(Slice(k, i, m, n)) = n - m
      /\ \A j \in 1..(n - m) : Slice(k, i, m, n)[j] = Found(k, i)[m + j]
  BY <1>2, <1>s, Zenon
<1>x. PICK x : Is(x, Slice(k, i, m, n + 1))
  BY DEF Is
<1>y. PICK y : Is(y, Slice(k, i, m, n))
  BY DEF Is
<1>6. /\ x \in Seq(Items(k)) /\ Len(x) = (n + 1) - m
      /\ \A j \in 1..((n + 1) - m) : x[j] = Found(k, i)[m + j]
  BY <1>4, <1>x, Zenon DEF Is
<1>7. /\ y \in Seq(Items(k)) /\ Len(y) = n - m
      /\ \A j \in 1..(n - m) : y[j] = Found(k, i)[m + j]
  BY <1>5, <1>y, Zenon DEF Is
<1>8. g \in Items(k) /\ Found(k, i)[n + 1] = g
  BY <1>3, <1>g, Zenon DEF Is
<1>9. /\ Append(y, g) \in Seq(Items(k)) /\ Len(Append(y, g)) = Len(y) + 1
      /\ Append(y, g)[Len(y) + 1] = g /\ \A j \in 1..Len(y) : Append(y, g)[j] = y[j]
  BY <1>7, <1>8, AppendProperties
<1>10. Len(x) = Len(Append(y, g))
  BY <1>6, <1>7, <1>9
<1>11. \A j \in 1..Len(x) : x[j] = Append(y, g)[j]
  <2>1. ASSUME NEW j \in 1..Len(x) PROVE x[j] = Append(y, g)[j]
    <3>1. CASE j = Len(y) + 1
      <4>1. m + j = n + 1 /\ j \in 1..((n + 1) - m)
        BY <1>6, <1>7, <3>1
      <4>2. x[j] = Found(k, i)[m + j] /\ Append(y, g)[j] = g
        BY <1>6, <1>9, <3>1, <4>1, Zenon
      <4> QED BY <1>8, <4>1, <4>2
    <3>2. CASE j # Len(y) + 1
      <4>1. j \in 1..Len(y) /\ j \in 1..(n - m) /\ j \in 1..((n + 1) - m)
        BY <1>6, <1>7, <3>2
      <4> QED BY <1>6, <1>7, <1>9, <4>1, Zenon
    <3> QED BY <3>1, <3>2
  <2> QED BY <2>1
<1>12. x = Append(y, g)
  BY <1>6, <1>9, <1>10, <1>11, SeqEqual
<1>13. Slice(k, i, n, n) = <<>>
  <2>1. Slice(k, i, n, n) \in Seq(Items(k)) /\ Len(Slice(k, i, n, n)) = n - n
    BY <1>2, <1>s, Zenon
  <2> QED BY <2>1, EmptySeq
<1>14. Slice(k, i, n, n + 1) = <<Found(k, i)[n + 1]>>
  <2>1. /\ Slice(k, i, n, n + 1) \in Seq(Items(k)) /\ Len(Slice(k, i, n, n + 1)) = (n + 1) - n
        /\ \A j \in 1..((n + 1) - n) : Slice(k, i, n, n + 1)[j] = Found(k, i)[n + j]
    BY <1>2, <1>s, Zenon
  <2>2. PICK z : Is(z, Slice(k, i, n, n + 1))
    BY DEF Is
  <2>3. z \in Seq(Items(k)) /\ Len(z) = 1 /\ z[1] = g
    <3>1. z \in Seq(Items(k)) /\ Len(z) = (n + 1) - n /\ \A j \in 1..((n + 1) - n) : z[j] = Found(k, i)[n + j]
      BY <2>1, <2>2, Zenon DEF Is
    <3>2. (n + 1) - n = 1 /\ 1 \in 1..((n + 1) - n)
      OBVIOUS
    <3>3. z[1] = Found(k, i)[n + 1]
      BY <3>1, <3>2, Zenon
    <3> QED BY <1>8, <3>1, <3>2, <3>3, Zenon
  <2>4. z = <<g>>
    BY <2>3
  <2> QED BY <1>8, <2>2, <2>4, Zenon DEF Is
<1> QED BY <1>3, <1>8, <1>12, <1>13, <1>14, <1>x, <1>y, Zenon DEF Is

(* The numbers of a task, and the next result.                             *)
LEMMA TaskBounds ==
  ASSUME NEW k, IsQuery(k), NEW i \in CurrentOf(k), NEW td, NEW bf, NEW m, NEW a, NEW c, NEW n,
         TaskAt(k, i, td, bf, m, a, c, n)
  PROVE  /\ m \in Nat /\ a \in Nat /\ n \in Nat /\ c[n] \in Nat /\ Total(k, i) \in Nat /\ bf.count \in Nat
         /\ m <= n /\ n <= c[n] /\ a <= c[n] /\ c[n] <= Total(k, i) /\ n <= Total(k, i)
         /\ n < Total(k, i) => /\ n + 1 \in 1..Total(k, i) /\ c[n + 1] = c[n] + EntriesIn(k, i)[n + 1].count
                               /\ EntriesIn(k, i)[n + 1].count \in Nat
                               /\ c[n + 1] \in Nat /\ n + 1 <= c[n + 1] /\ c[n + 1] <= Total(k, i)
         /\ n = Total(k, i) => c[n] = Total(k, i)
<1>1. PICK es : Is(es, EntriesIn(k, i))
  BY DEF Is
<1>2. es \in Seq(EntriesOf(DOMAIN k.lib)) /\ Len(es) = Total(k, i) /\ Total(k, i) \in Nat /\ Cover(es, c)
  <2>1. EntriesIn(k, i) \in Seq(EntriesOf(DOMAIN k.lib)) /\ Len(EntriesIn(k, i)) = Total(k, i)
    BY EntriesFacts
  <2>2. Total(k, i) \in Nat
    BY FoundType
  <2> QED BY <1>1, <2>1, <2>2, Zenon DEF Is, TaskAt
<1>3. n \in 0..Total(k, i) /\ m \in Nat /\ a \in Nat /\ m <= n /\ bf \in Buffers(k) /\ a + bf.count = c[n]
  BY DEF TaskAt
<1>4. bf.count \in Nat
  BY <1>3 DEF Buffers
<1>5. n \in Nat /\ c[n] \in Nat /\ n <= c[n] /\ c[n] <= Total(k, i) /\ (n = Total(k, i) => c[n] = Total(k, i))
  <2>1. n \in 0..Len(es)
    BY <1>2, <1>3
  <2>2. c \in [0..Len(es) -> Nat] /\ c[Len(es)] = Len(es) /\ \A j \in 0..Len(es) : j <= c[j] /\ c[j] <= Len(es)
    BY <1>2, Zenon DEF Cover
  <2>3. c[n] \in Nat /\ n <= c[n] /\ c[n] <= Len(es)
    BY <2>1, <2>2
  <2>4. n = Total(k, i) => c[n] = Total(k, i)
    BY <1>2, <2>2, Zenon
  <2> QED BY <1>2, <2>1, <2>3, <2>4
<1>6. ASSUME n < Total(k, i)
      PROVE  /\ n + 1 \in 1..Total(k, i) /\ c[n + 1] = c[n] + es[n + 1].count /\ es[n + 1].count \in Nat
             /\ c[n + 1] \in Nat /\ n + 1 <= c[n + 1] /\ c[n + 1] <= Total(k, i)
  <2>1. n + 1 \in 1..Len(es) /\ n + 1 \in 0..Len(es) /\ (n + 1) - 1 = n
    BY <1>2, <1>3, <1>6
  <2>2. es[n + 1] \in EntriesOf(DOMAIN k.lib)
    BY <1>2, <2>1, ElementOfSeq
  <2>3. es[n + 1].count \in Nat
    BY <2>2 DEF EntriesOf
  <2>4. c[n + 1] = c[(n + 1) - 1] + es[n + 1].count /\ c[n + 1] \in Nat /\ n + 1 <= c[n + 1] /\ c[n + 1] <= Len(es)
    BY <1>2, <2>1 DEF Cover
  <2> QED BY <1>2, <2>1, <2>3, <2>4
<1>7. a <= c[n]
  BY <1>3, <1>4, <1>5
<1>8. n < Total(k, i) => /\ n + 1 \in 1..Total(k, i) /\ c[n + 1] = c[n] + EntriesIn(k, i)[n + 1].count
                               /\ EntriesIn(k, i)[n + 1].count \in Nat
                               /\ c[n + 1] \in Nat /\ n + 1 <= c[n + 1] /\ c[n + 1] <= Total(k, i)
  BY <1>1, <1>6, Zenon DEF Is
<1>9. n <= Total(k, i)
  BY <1>2, <1>3
<1> QED BY <1>2, <1>3, <1>4, <1>5, <1>7, <1>8, <1>9

(* A task begins with all results before it.                               *)
LEMMA TaskBegins ==
  ASSUME NEW k, IsQuery(k), AsText(k), NEW i \in CurrentOf(k)
  PROVE  \E c : TaskAt(k, i, EntriesIn(k, i), NewBuffer, 0, 0, c, 0)
<1>1. /\ EntriesIn(k, i) \in Seq(EntriesOf(DOMAIN k.lib)) /\ Len(EntriesIn(k, i)) = Total(k, i)
      /\ \E c : Cover(EntriesIn(k, i), c)
  BY EntriesFacts
<1>2. PICK c : Cover(EntriesIn(k, i), c)
  BY <1>1
<1>3. Total(k, i) \in Nat
  BY FoundType
<1>4. EntriesIn(k, i) = SubSeq(EntriesIn(k, i), 0 + 1, Total(k, i))
  <2>1. SubSeq(EntriesIn(k, i), 1, Len(EntriesIn(k, i))) = EntriesIn(k, i)
    BY <1>1, SubSeqFull
  <2> QED BY <1>1, <2>1
<1>5. NewBuffer \in Buffers(k) /\ FlattenSeq(NewBuffer.chain) = <<>> /\ NewBuffer.count = 0
  <2>1. PICK x : Is(x, <<>>)
    BY DEF Is
  <2>2. x \in Seq(Tokens(k)) /\ <<x>> \in Seq(Seq(Tokens(k))) /\ Len(<<x>>) = 1 /\ <<x>> # <<>>
    <3>1. x \in Seq(Tokens(k))
      BY <2>1 DEF Is
    <3> HIDE DEF Tokens
    <3> QED BY <3>1
  <2>3. FullFront(<<x>>)
    BY <2>2 DEF FullFront
  <2>4. <<x>> \in Chains(k) \ {<<>>}
    BY <2>2, <2>3 DEF Chains
  <2>5. FlattenSeq(<<x>>) = x
    BY <2>2, FlattenOne
  <2>6. PICK w : Is(w, <<x>>)
    BY DEF Is
  <2>7. w \in Chains(k) \ {<<>>} /\ FlattenSeq(w) = x
    BY <2>4, <2>5, <2>6, Zenon DEF Is
  <2>8. NewBuffer = [chain |-> w, start |-> 0, count |-> 0, sent |-> <<>>]
    BY <2>1, <2>6, Zenon DEF Is, NewBuffer
  <2>9. NewBuffer \in Buffers(k) /\ NewBuffer.chain = w /\ NewBuffer.count = 0
    BY <2>7, <2>8 DEF Buffers
  <2>10. FlattenSeq(NewBuffer.chain) = <<>>
    BY <2>1, <2>7, <2>9, Zenon DEF Is
  <2> QED BY <2>9, <2>10
<1>6. FlattenSeq(NewBuffer.chain) = Texts(k, Slice(k, i, 0, 0))
  <2>1. 0 \in Nat /\ 0 <= 0 /\ 0 <= Total(k, i)
    BY <1>3
  <2>2. Slice(k, i, 0, 0) = <<>>
    BY <1>3, SubSeqEmpty DEF Slice
  <2> QED BY <1>5, <2>2, TextsEmpty
<1>7. 0 \in 0..Total(k, i) /\ 0 \in Nat /\ 0 <= 0
  BY <1>3
<1>8. 0 + NewBuffer.count = c[0]
  BY <1>2, <1>5 DEF Cover
<1> HIDE DEF NewBuffer
<1>9. TaskAt(k, i, EntriesIn(k, i), NewBuffer, 0, 0, c, 0)
  BY <1>2, <1>4, <1>5, <1>6, <1>7, <1>8, Zenon DEF TaskAt
<1> QED BY <1>9

(* The fields of a batch.                                                  *)
LEMMA BatchFields ==
  ASSUME NEW x, NEW y, NEW n, NEW z
  PROVE  Batch(x, y, n, z).chain = x /\ Batch(x, y, n, z).results = y /\ Batch(x, y, n, z).count = n
         /\ Batch(x, y, n, z).complete = z
BY DEF Batch

(* What a buffer holds can be submitted.                                   *)
LEMMA TaskCarries ==
  ASSUME NEW k, IsQuery(k), AsText(k), NEW i \in CurrentOf(k), NEW td, NEW bf, NEW m, NEW a, NEW c, NEW n,
         TaskAt(k, i, td, bf, m, a, c, n), NEW d, d \in Nat, a <= d, d <= Total(k, i),
         NEW b, b.chain = bf.chain, b.count = d - a
  PROVE  Carries(k, b, Slice(k, i, m, n), Slice(k, i, a, d))
<1>1. m \in Nat /\ n \in Nat /\ m <= n /\ n <= Total(k, i) /\ a \in Nat
  BY TaskBounds
<1>2. Slice(k, i, m, n) \in Seq(Items(k))
  BY <1>1, SliceType
<1>3. Slice(k, i, a, d) \in Seq(Items(k)) /\ Len(Slice(k, i, a, d)) = d - a
  BY <1>1, SliceType
<1>4. ~IsBrief(k) /\ ~IsFile(k) /\ ~IsCount(k) /\ Items(k) = Sized(k)
  BY KindsOfFormat, ItemsSized
<1>5. bf.chain \in Chains(k) /\ FlattenSeq(bf.chain) = Texts(k, Slice(k, i, m, n))
  BY DEF TaskAt, Buffers
<1>6. Holds(k, b.chain, Slice(k, i, m, n))
  BY <1>2, <1>4, <1>5, Zenon DEF Holds
<1>7. b.count = Len(Slice(k, i, a, d))
  BY <1>3
<1> QED BY <1>2, <1>3, <1>4, <1>6, <1>7, Zenon DEF Carries

(* The batch that ends it has all results that were not submitted, and     *)
(* accounts for all.                                                       *)
LEMMA TaskEnds ==
  ASSUME NEW k, IsQuery(k), AsText(k), NEW i \in CurrentOf(k), NEW td, NEW bf, NEW m, NEW a, NEW c, NEW n,
         TaskAt(k, i, td, bf, m, a, c, n), td = <<>>
  PROVE  /\ Carries(k, Flush(bf), Slice(k, i, m, n), Slice(k, i, a, Total(k, i)))
         /\ Flush(bf).complete = TRUE /\ m \in Nat /\ a \in Nat /\ m <= Total(k, i) /\ a <= Total(k, i)
         /\ Total(k, i) \in Nat /\ n = Total(k, i)
<1>1. /\ m \in Nat /\ a \in Nat /\ n \in Nat /\ c[n] \in Nat /\ Total(k, i) \in Nat /\ bf.count \in Nat
      /\ m <= n /\ a <= c[n] /\ (n = Total(k, i) => c[n] = Total(k, i))
  BY TaskBounds
<1>2. n = Total(k, i)
  <2>1. EntriesIn(k, i) \in Seq(EntriesOf(DOMAIN k.lib)) /\ Len(EntriesIn(k, i)) = Total(k, i)
    BY EntriesFacts
  <2>2. n \in 0..Len(EntriesIn(k, i)) /\ Is(td, SubSeq(EntriesIn(k, i), n + 1, Len(EntriesIn(k, i))))
    BY <2>1, Zenon DEF TaskAt, Is
  <2>3. td = <<>> => n = Len(EntriesIn(k, i))
    BY <2>1, <2>2, Rest
  <2> QED BY <2>1, <2>3
<1>3. Flush(bf).chain = bf.chain /\ Flush(bf).count = bf.count /\ Flush(bf).complete = TRUE
  BY DEF Flush, Batch
<1>4. a + bf.count = c[n]
  BY DEF TaskAt
<1>5. bf.count = Total(k, i) - a /\ a <= Total(k, i)
  BY <1>1, <1>2, <1>4
<1>6. Carries(k, Flush(bf), Slice(k, i, m, n), Slice(k, i, a, Total(k, i)))
  BY <1>1, <1>3, <1>5, TaskCarries
<1> QED BY <1>1, <1>2, <1>3, <1>5, <1>6

(* Submitting a batch leaves the rest of a buffer alone.                   *)
LEMMA UnsentFields ==
  ASSUME NEW k, NEW r, Unsent(r) \in Buffers(k)
  PROVE  Unsent(r).chain = r.chain /\ Unsent(r).count = r.count
<1>1. DOMAIN Unsent(r) = {"chain", "start", "count", "sent"}
  BY DEF Buffers
<1>2. DOMAIN Unsent(r) = DOMAIN r
  BY DEF Unsent
<1> QED BY <1>1, <1>2 DEF Unsent

(* So does counting results.                                               *)
LEMMA CountAdded ==
  ASSUME NEW k, NEW b \in Buffers(k), NEW n \in Nat
  PROVE  AddCount(b, n) \in Buffers(k) /\ AddCount(b, n).chain = b.chain /\ AddCount(b, n).count = b.count + n
<1>1. b.chain \in Chains(k) \ {<<>>} /\ b.start \in Nat /\ b.count \in Nat /\ b.sent = <<>>
      /\ b = [chain |-> b.chain, start |-> b.start, count |-> b.count, sent |-> b.sent]
  BY DEF Buffers
<1>2. AddCount(b, n) = [chain |-> b.chain, start |-> b.start, count |-> b.count + n, sent |-> b.sent]
  BY <1>1 DEF AddCount
<1>3. b.count + n \in Nat
  BY <1>1
<1> QED BY <1>1, <1>2, <1>3 DEF Buffers

(* The text of the next result.                                            *)
LEMMA NextText ==
  ASSUME NEW k, IsQuery(k), AsText(k), NEW i \in CurrentOf(k), NEW m \in Nat, NEW n \in Nat, m <= n, n + 1 <= Total(k, i)
  PROVE  /\ Printed(k.format, Found(k, i)[n + 1], k.sizes[Found(k, i)[n + 1]]) \in Seq(Tokens(k))
         /\ Texts(k, Slice(k, i, m, n + 1))
              = Texts(k, Slice(k, i, m, n)) \o Printed(k.format, Found(k, i)[n + 1], k.sizes[Found(k, i)[n + 1]])
         /\ Texts(k, Slice(k, i, n, n + 1)) = Printed(k.format, Found(k, i)[n + 1], k.sizes[Found(k, i)[n + 1]])
<1>1. /\ Slice(k, i, m, n + 1) = Append(Slice(k, i, m, n), Found(k, i)[n + 1])
      /\ Slice(k, i, n, n + 1) = <<Found(k, i)[n + 1]>> /\ Found(k, i)[n + 1] \in Items(k)
  BY SliceMore
<1>2. Items(k) = Sized(k) /\ k.format # "brief"
  <2>1. ~IsBrief(k) /\ Items(k) = Sized(k)
    BY KindsOfFormat, ItemsSized
  <2> QED BY <2>1 DEF IsBrief
<1>3. k.format \in Formats
  BY IsFormats DEF AsText
<1>g. PICK g : Is(g, Found(k, i)[n + 1])
  BY DEF Is
<1>s. PICK s : Is(s, Slice(k, i, m, n))
  BY DEF Is
<1>4. g \in Sized(k)
  BY <1>1, <1>2, <1>g, Zenon DEF Is
<1>5. s \in Seq(Sized(k))
  <2>1. n <= Total(k, i)
    <3>1. Total(k, i) \in Nat
      BY FoundType
    <3> QED BY <3>1
  <2>2. Slice(k, i, m, n) \in Seq(Items(k))
    BY <2>1, SliceType
  <2> QED BY <1>2, <1>s, <2>2, Zenon DEF Is
<1>6. Texts(k, Append(s, g)) = Texts(k, s) \o TextOf(k, g)
  BY <1>3, <1>4, <1>5, TextsAppend
<1>7. Texts(k, <<g>>) = TextOf(k, g)
  BY <1>3, <1>4, TextsOne
<1>8. TextOf(k, g) = Printed(k.format, g, k.sizes[g])
  BY <1>2, Zenon DEF TextOf
<1>9. TextOf(k, g) \in Seq(Tokens(k))
  BY <1>3, <1>4, TextOfType
<1> QED BY <1>1, <1>6, <1>7, <1>8, <1>9, <1>g, <1>s, Zenon DEF Is

(* The next result is written to the buffer.                               *)
NextWritten(k, td, bf, r) ==
  td # <<>> /\ r = PrintFeature(AddCount(bf, Head(td).count), k.format, Head(td).f, k.sizes[Head(td).f])
(* Either all that was written is in the buffer, or what was there before  *)
(* is submitted.                                                           *)
WritesOn(k, i, td, m, a, c, n, r) ==
  /\ n < Total(k, i)
  /\ \/ r.sent = <<>> /\ TaskAt(k, i, Tail(td), Unsent(r), m, a, c, n + 1)
     \/ \E b : /\ r.sent = <<b>> /\ b.complete = FALSE
               /\ Carries(k, b, Slice(k, i, m, n), Slice(k, i, a, c[n + 1]))
               /\ TaskAt(k, i, Tail(td), Unsent(r), n, c[n + 1], c, n + 1)

(* Each result that is written becomes part of the text in the chunks, or  *)
(* of the next ones.                                                       *)
LEMMA TaskPrints ==
  ASSUME NEW k, IsQuery(k), AsText(k), NEW i \in CurrentOf(k), NEW td, NEW bf, NEW m, NEW a, NEW c, NEW n,
         TaskAt(k, i, td, bf, m, a, c, n), NEW r, NextWritten(k, td, bf, r)
  PROVE  WritesOn(k, i, td, m, a, c, n, r)
<1>0. td # <<>> /\ r = PrintFeature(AddCount(bf, Head(td).count), k.format, Head(td).f, k.sizes[Head(td).f])
  BY DEF NextWritten
<1>1. /\ m \in Nat /\ a \in Nat /\ n \in Nat /\ c[n] \in Nat /\ Total(k, i) \in Nat /\ bf.count \in Nat
      /\ m <= n /\ a <= c[n] /\ n <= Total(k, i)
  BY TaskBounds
<1>2. EntriesIn(k, i) \in Seq(EntriesOf(DOMAIN k.lib)) /\ Len(EntriesIn(k, i)) = Total(k, i)
      /\ \A j \in 1..Total(k, i) : EntriesIn(k, i)[j].f = Found(k, i)[j]
  BY EntriesFacts
<1>3. n + 1 \in 1..Total(k, i) /\ Head(td) = EntriesIn(k, i)[n + 1] /\ Tail(td) = SubSeq(EntriesIn(k, i), n + 2, Total(k, i))
  <2>1. PICK es : Is(es, EntriesIn(k, i))
    BY DEF Is
  <2>2. es \in Seq(EntriesOf(DOMAIN k.lib)) /\ Len(es) = Total(k, i)
    BY <1>2, <2>1, Zenon DEF Is
  <2>3. n \in 0..Len(es)
    BY <1>1, <2>2
  <2>4. Is(td, SubSeq(es, n + 1, Len(es)))
    BY <2>1, <2>2, Zenon DEF TaskAt, Is
  <2>5. n + 1 \in 1..Len(es) /\ Head(td) = es[n + 1] /\ Tail(td) = SubSeq(es, n + 2, Len(es))
    BY <1>0, <2>2, <2>3, <2>4, Rest, SMTT(30)
  <2> QED BY <2>1, <2>2, <2>5, Zenon DEF Is
<1>4. n < Total(k, i) /\ n + 1 <= Total(k, i)
  BY <1>1, <1>3
<1>e. PICK e : Is(e, Head(td).count)
  BY DEF Is
<1>5. /\ c[n + 1] = c[n] + e /\ e \in Nat /\ c[n + 1] \in Nat /\ n + 1 <= c[n + 1] /\ c[n + 1] <= Total(k, i)
  <2>1. /\ c[n + 1] = c[n] + EntriesIn(k, i)[n + 1].count /\ EntriesIn(k, i)[n + 1].count \in Nat
        /\ c[n + 1] \in Nat /\ n + 1 <= c[n + 1] /\ c[n + 1] <= Total(k, i)
    BY <1>4, TaskBounds
  <2> QED BY <1>3, <1>e, <2>1, Zenon DEF Is
<1>6. Head(td).f = Found(k, i)[n + 1]
  BY <1>2, <1>3, Zenon
<1>t. PICK t : Is(t, Printed(k.format, Found(k, i)[n + 1], k.sizes[Found(k, i)[n + 1]]))
  BY DEF Is
<1>7. /\ t \in Seq(Tokens(k))
      /\ Texts(k, Slice(k, i, m, n + 1)) = Texts(k, Slice(k, i, m, n)) \o t
      /\ Texts(k, Slice(k, i, n, n + 1)) = t
  <2>1. /\ Printed(k.format, Found(k, i)[n + 1], k.sizes[Found(k, i)[n + 1]]) \in Seq(Tokens(k))
        /\ Texts(k, Slice(k, i, m, n + 1))
             = Texts(k, Slice(k, i, m, n)) \o Printed(k.format, Found(k, i)[n + 1], k.sizes[Found(k, i)[n + 1]])
        /\ Texts(k, Slice(k, i, n, n + 1)) = Printed(k.format, Found(k, i)[n + 1], k.sizes[Found(k, i)[n + 1]])
    BY <1>1, <1>4, NextText
  <2> QED BY <1>t, <2>1, Zenon DEF Is
<1>8. bf \in Buffers(k) /\ FlattenSeq(bf.chain) = Texts(k, Slice(k, i, m, n)) /\ a + bf.count = c[n] /\ Cover(EntriesIn(k, i), c)
  BY Zenon DEF TaskAt
<1>b. PICK b1 : Is(b1, AddCount(bf, e))
  BY DEF Is
<1>9. b1 \in Buffers(k) /\ b1.chain = bf.chain /\ b1.count = bf.count + e
  <2>1. AddCount(bf, e) \in Buffers(k) /\ AddCount(bf, e).chain = bf.chain /\ AddCount(bf, e).count = bf.count + e
    BY <1>5, <1>8, CountAdded
  <2> QED BY <1>b, <2>1, Zenon DEF Is
<1>10. WrittenAs(k, b1, t, r)
  <2>1. r = Write(MarkFeatureStart(b1), t)
    BY <1>0, <1>6, <1>b, <1>e, <1>t, Zenon DEF Is, PrintFeature
  <2> QED BY <1>7, <1>9, <2>1, WriteFeature
<1>11. Unsent(r) \in Buffers(k) /\ Unsent(r).chain = r.chain /\ Unsent(r).count = r.count
  <2>1. Unsent(r) \in Buffers(k)
    BY <1>10 DEF WrittenAs
  <2> QED BY <2>1, UnsentFields
<1>12. n + 1 \in 0..Total(k, i) /\ m <= n + 1 /\ n <= n + 1
  BY <1>1, <1>3
<1>13. Tail(td) = SubSeq(EntriesIn(k, i), (n + 1) + 1, Total(k, i))
  <2>1. (n + 1) + 1 = n + 2
    BY <1>1
  <2> QED BY <1>3, <2>1
<1>14. CASE r.sent = <<>> /\ r.count = b1.count /\ FlattenSeq(r.chain) = FlattenSeq(b1.chain) \o t
  <2>1. FlattenSeq(Unsent(r).chain) = Texts(k, Slice(k, i, m, n + 1))
    BY <1>7, <1>8, <1>9, <1>11, <1>14, Zenon
  <2>2. a + Unsent(r).count = c[n + 1]
    <3>1. Unsent(r).count = bf.count + e
      BY <1>9, <1>11, <1>14, Zenon
    <3> QED BY <1>1, <1>5, <1>8, <3>1
  <2>3. TaskAt(k, i, Tail(td), Unsent(r), m, a, c, n + 1)
    BY <1>1, <1>8, <1>11, <1>12, <1>13, <2>1, <2>2, Zenon DEF TaskAt
  <2> QED BY <1>4, <1>14, <2>3, Zenon DEF WritesOn
<1>15. CASE r.sent = Sent(b1) /\ r.count = 0 /\ FlattenSeq(r.chain) = t
  <2>b. PICK b : Is(b, Batch(b1.chain, <<>>, b1.count, FALSE))
    BY DEF Is
  <2>1. b.chain = bf.chain /\ b.count = bf.count + e /\ b.complete = FALSE
    <3>1. b.chain = b1.chain /\ b.count = b1.count /\ b.complete = FALSE
      BY <2>b DEF Is, Batch
    <3> QED BY <1>9, <3>1, Zenon
  <2>2. r.sent = <<b>>
    BY <1>15, <2>b, Zenon DEF Sent, Is
  <2>3. Carries(k, b, Slice(k, i, m, n), Slice(k, i, a, c[n + 1]))
    <3>1. b.count = c[n + 1] - a /\ a <= c[n + 1]
      BY <1>1, <1>5, <1>8, <2>1
    <3> QED BY <1>5, <2>1, <3>1, TaskCarries
  <2>4. FlattenSeq(Unsent(r).chain) = Texts(k, Slice(k, i, n, n + 1))
    BY <1>7, <1>11, <1>15, Zenon
  <2>5. c[n + 1] + Unsent(r).count = c[n + 1]
    <3>1. Unsent(r).count = 0
      BY <1>11, <1>15, Zenon
    <3> QED BY <1>5, <3>1
  <2>6. TaskAt(k, i, Tail(td), Unsent(r), n, c[n + 1], c, n + 1)
    BY <1>1, <1>5, <1>8, <1>11, <1>12, <1>13, <2>4, <2>5, Zenon DEF TaskAt
  <2> QED BY <1>4, <2>1, <2>2, <2>3, <2>6, Zenon DEF WritesOn
<1> QED BY <1>10, <1>14, <1>15 DEF WrittenAs

(* A thread that works on tile i, and one whose task was submitted up to m *)
(* and accounted for up to a.                                              *)
WorkerOf(i, td, bf) == [tile |-> i, todo |-> td, buf |-> bf]
Busy(k, x, m, a) == \E i, td, bf, c, n : x = WorkerOf(i, td, bf) /\ TaskAt(k, i, td, bf, m, a, c, n)

(* A thread works on a tile that was posted, is taken and has not ended.   *)
Working(k, nx, ts, x, sub, ac, D) ==
  /\ AsText(k) /\ x.tile \in CurrentOf(k) /\ x.tile < nx /\ x.tile \notin D /\ x.tile \notin Elems(ts)
  /\ Busy(k, x, sub[x.tile], ac[x.tile])

(* The main thread and the executor: tiles before nx were posted; tasks ts *)
(* wait; D are the tiles that are done; of each tile, sub results were     *)
(* submitted, and ac accounted for. No two threads work on one tile.       *)
Crew(k, nx, ts, wk, sub, ac, D) ==
  /\ nx \in Nat \ {0} /\ ts \in Seq(CurrentOf(k)) /\ Distinct(ts)
  /\ \A i \in D : i < nx /\ sub[i] = Total(k, i) /\ ac[i] = Total(k, i)
  /\ \A i \in Elems(ts) : i < nx /\ i \notin D
  /\ \A i \in CurrentOf(k) : i \in Elems(ts) \/ nx <= i => sub[i] = 0 /\ ac[i] = 0
  /\ DOMAIN wk = Workers
  /\ \A w \in Workers : wk[w] = Idle \/ Working(k, nx, ts, wk[w], sub, ac, D)
  /\ \A v, w \in Workers : wk[v].tile = wk[w].tile /\ wk[v].tile # 0 => v = w

(* Tiles have numbers, which threads without a task have not.              *)
LEMMA CurrentFacts ==
  ASSUME NEW k, IsQuery(k)
  PROVE  /\ DOMAIN k.tiles = 1..Len(k.tiles) /\ Len(k.tiles) \in Nat
         /\ \A i \in CurrentOf(k) : i \in Nat /\ i # 0 /\ i \in DOMAIN k.tiles
         /\ Idle.tile = 0
<1>1. DOMAIN k.tiles = 1..Len(k.tiles) /\ Len(k.tiles) \in Nat
  BY LenProperties DEF IsQuery
<1>2. Idle.tile = 0
  BY DEF Idle
<1> QED BY <1>1, <1>2 DEF CurrentOf

(* A thread is not affected by what others do to other tiles.              *)
LEMMA WorkingOn ==
  ASSUME NEW k, NEW nx, NEW ts, NEW x, NEW sub, NEW ac, NEW D, Working(k, nx, ts, x, sub, ac, D),
         NEW ny, nx \in Nat, ny \in Nat, nx <= ny, x.tile \in Nat, NEW us, NEW E, NEW sub2, NEW ac2,
         x.tile \notin Elems(us), x.tile \notin E, sub2[x.tile] = sub[x.tile], ac2[x.tile] = ac[x.tile]
  PROVE  Working(k, ny, us, x, sub2, ac2, E)
<1>1. x.tile < ny
  BY DEF Working
<1>2. Busy(k, x, sub2[x.tile], ac2[x.tile])
  BY Zenon DEF Working
<1> QED BY <1>1, <1>2, Zenon DEF Working

(* The main thread comes to the next tile.                                 *)
LEMMA CrewPost ==
  ASSUME NEW k, IsQuery(k), NEW nx, NEW ts, NEW wk, NEW sub, NEW ac, NEW D, Crew(k, nx, ts, wk, sub, ac, D),
         D \subseteq CurrentOf(k), NEW us,
         \/ nx \in CurrentOf(k) /\ us = Append(ts, nx)
         \/ nx \notin CurrentOf(k) /\ us = ts
  PROVE  Crew(k, nx + 1, us, wk, sub, ac, D)
<1>1. /\ nx \in Nat \ {0} /\ ts \in Seq(CurrentOf(k)) /\ Distinct(ts)
      /\ \A i \in D : i < nx /\ sub[i] = Total(k, i) /\ ac[i] = Total(k, i)
      /\ \A i \in Elems(ts) : i < nx /\ i \notin D
      /\ \A i \in CurrentOf(k) : i \in Elems(ts) \/ nx <= i => sub[i] = 0 /\ ac[i] = 0
  BY DEF Crew
<1>2. /\ DOMAIN wk = Workers
      /\ \A w \in Workers : wk[w] = Idle \/ Working(k, nx, ts, wk[w], sub, ac, D)
      /\ \A v, w \in Workers : wk[v].tile = wk[w].tile /\ wk[v].tile # 0 => v = w
  BY DEF Crew
<1>3. \A i \in CurrentOf(k) : i \in Nat
  BY CurrentFacts
<1>4. nx \notin Elems(ts) /\ nx \notin D
  BY <1>1
<1>5. us \in Seq(CurrentOf(k)) /\ Distinct(us) /\ Elems(us) \subseteq Elems(ts) \union {nx}
      /\ (nx \notin CurrentOf(k) => Elems(us) = Elems(ts))
  <2>1. CASE nx \in CurrentOf(k) /\ us = Append(ts, nx)
    <3>1. ts \in Seq(CurrentOf(k)) /\ nx \in CurrentOf(k) /\ Distinct(ts) /\ nx \notin Elems(ts)
      BY <1>1, <1>4, <2>1
    <3>2. /\ Append(ts, nx) \in Seq(CurrentOf(k)) /\ Distinct(Append(ts, nx))
          /\ Elems(Append(ts, nx)) = Elems(ts) \union {nx}
      BY <3>1, Appended
    <3> QED BY <2>1, <3>2, Zenon
  <2>2. CASE nx \notin CurrentOf(k) /\ us = ts
    BY <1>1, <2>2, Zenon
  <2> QED BY <2>1, <2>2
<1>6. Elems(ts) \subseteq CurrentOf(k)
  BY <1>1, LenProperties, ElementOfSeq DEF Elems
<1>7. \A i \in D : i < nx + 1
  BY <1>1, <1>3
<1>8. \A i \in Elems(us) : i < nx + 1 /\ i \notin D
  BY <1>1, <1>3, <1>4, <1>5, <1>6
<1>9. \A i \in CurrentOf(k) : i \in Elems(us) \/ nx + 1 <= i => sub[i] = 0 /\ ac[i] = 0
  BY <1>1, <1>3, <1>5
<1>10. ASSUME NEW w \in Workers PROVE wk[w] = Idle \/ Working(k, nx + 1, us, wk[w], sub, ac, D)
  <2>1. SUFFICES ASSUME Working(k, nx, ts, wk[w], sub, ac, D) PROVE Working(k, nx + 1, us, wk[w], sub, ac, D)
    BY <1>2
  <2>2. wk[w].tile \in CurrentOf(k) /\ wk[w].tile < nx /\ wk[w].tile \notin D /\ wk[w].tile \notin Elems(ts)
    BY <2>1 DEF Working
  <2>3. wk[w].tile \in Nat /\ wk[w].tile # nx
    BY <1>1, <1>3, <2>2
  <2>4. wk[w].tile \notin Elems(us)
    BY <1>5, <2>2, <2>3
  <2>5. nx \in Nat /\ nx + 1 \in Nat /\ nx <= nx + 1
    BY <1>1
  <2> QED BY <2>1, <2>2, <2>3, <2>4, <2>5, WorkingOn
<1>11. nx + 1 \in Nat \ {0}
  BY <1>1
<1> QED BY <1>1, <1>2, <1>5, <1>7, <1>8, <1>9, <1>10, <1>11, Zenon DEF Crew

(* A thread w begins tile i, goes on with it or is done with it: what was   *)
(* posted is us, then, what has ended is E.                                *)
Change(k, nx, ts, wk, sub, ac, D, w, i, us, new, sub2, ac2, E) ==
  /\ w \in Workers /\ i \in CurrentOf(k) /\ i < nx /\ i \notin D /\ D \subseteq CurrentOf(k)
  /\ us \in Seq(CurrentOf(k)) /\ Distinct(us) /\ Elems(us) \subseteq Elems(ts) /\ i \notin Elems(us)
  /\ \A v \in Workers : v # w => wk[v].tile # i
  /\ D \subseteq E /\ E \subseteq D \union {i}
  /\ \A j \in CurrentOf(k) : j # i => sub2[j] = sub[j] /\ ac2[j] = ac[j]
  /\ i \in E => sub2[i] = Total(k, i) /\ ac2[i] = Total(k, i)
  /\ DOMAIN new = Workers /\ \A v \in Workers : v # w => new[v] = wk[v]
  /\ new[w] = Idle \/ (new[w].tile = i /\ Working(k, nx, us, new[w], sub2, ac2, E))

(* One thread changes what it does on one tile.                            *)
LEMMA CrewChange ==
  ASSUME NEW k, IsQuery(k), NEW nx, NEW ts, NEW wk, NEW sub, NEW ac, NEW D, Crew(k, nx, ts, wk, sub, ac, D),
         NEW w, NEW i, NEW us, NEW new, NEW sub2, NEW ac2, NEW E,
         Change(k, nx, ts, wk, sub, ac, D, w, i, us, new, sub2, ac2, E)
  PROVE  Crew(k, nx, us, new, sub2, ac2, E)
<1>r. PICK r : r = new[w]
  OBVIOUS
<1>c. /\ w \in Workers /\ i \in CurrentOf(k) /\ i < nx /\ i \notin D /\ D \subseteq CurrentOf(k)
      /\ us \in Seq(CurrentOf(k)) /\ Distinct(us) /\ Elems(us) \subseteq Elems(ts) /\ i \notin Elems(us)
      /\ \A v \in Workers : v # w => wk[v].tile # i
      /\ D \subseteq E /\ E \subseteq D \union {i}
      /\ \A j \in CurrentOf(k) : j # i => sub2[j] = sub[j] /\ ac2[j] = ac[j]
      /\ (i \in E => sub2[i] = Total(k, i) /\ ac2[i] = Total(k, i))
      /\ DOMAIN new = Workers /\ \A v \in Workers : v # w => new[v] = wk[v]
      /\ (r = Idle \/ (r.tile = i /\ Working(k, nx, us, r, sub2, ac2, E)))
  BY <1>r, Zenon DEF Change
<1>1. /\ nx \in Nat \ {0}
      /\ \A j \in D : j < nx /\ sub[j] = Total(k, j) /\ ac[j] = Total(k, j)
      /\ \A j \in Elems(ts) : j < nx /\ j \notin D
      /\ \A j \in CurrentOf(k) : j \in Elems(ts) \/ nx <= j => sub[j] = 0 /\ ac[j] = 0
  BY DEF Crew
<1>2. /\ DOMAIN wk = Workers
      /\ \A v \in Workers : wk[v] = Idle \/ Working(k, nx, ts, wk[v], sub, ac, D)
      /\ \A v, u \in Workers : wk[v].tile = wk[u].tile /\ wk[v].tile # 0 => v = u
  BY DEF Crew
<1>3. Idle.tile = 0 /\ \A j \in CurrentOf(k) : j \in Nat /\ j # 0
  BY CurrentFacts
<1>4. DOMAIN new = Workers /\ new[w] = r /\ \A v \in Workers : v # w => new[v] = wk[v]
  BY <1>c, <1>r, Zenon
<1>5. \A j \in E : j < nx /\ sub2[j] = Total(k, j) /\ ac2[j] = Total(k, j)
  BY <1>1, <1>c
<1>6. \A j \in Elems(us) : j < nx /\ j \notin E
  BY <1>1, <1>c
<1>7. \A j \in CurrentOf(k) : j \in Elems(us) \/ nx <= j => sub2[j] = 0 /\ ac2[j] = 0
  <2>1. ~(nx <= i)
    BY <1>1, <1>3, <1>c
  <2> QED BY <1>1, <1>c, <2>1
<1>8. ASSUME NEW v \in Workers PROVE new[v] = Idle \/ Working(k, nx, us, new[v], sub2, ac2, E)
  <2>1. CASE v = w
    BY <1>4, <1>c, <2>1, Zenon
  <2>2. CASE v # w
    <3>1. new[v] = wk[v]
      BY <1>4, <2>2
    <3>2. SUFFICES ASSUME Working(k, nx, ts, wk[v], sub, ac, D) PROVE Working(k, nx, us, wk[v], sub2, ac2, E)
      BY <1>2, <3>1, Zenon
    <3>3. wk[v].tile \in CurrentOf(k) /\ wk[v].tile \notin D /\ wk[v].tile \notin Elems(ts)
      BY <3>2, Zenon DEF Working
    <3>4. wk[v].tile # i
      BY <1>c, <2>2
    <3>5. wk[v].tile \notin Elems(us) /\ wk[v].tile \notin E
      BY <1>c, <3>3, <3>4, Zenon
    <3>6. sub2[wk[v].tile] = sub[wk[v].tile] /\ ac2[wk[v].tile] = ac[wk[v].tile]
      BY <1>c, <3>3, <3>4, Zenon
    <3>7. nx \in Nat /\ nx <= nx /\ wk[v].tile \in Nat
      BY <1>1, <1>3, <3>3
    <3>8. PICK x : x = wk[v]
      OBVIOUS
    <3>9. Working(k, nx, ts, x, sub, ac, D)
      BY <3>2, <3>8, Zenon
    <3>10. /\ nx \in Nat /\ nx <= nx /\ x.tile \in Nat /\ x.tile \notin Elems(us) /\ x.tile \notin E
           /\ sub2[x.tile] = sub[x.tile] /\ ac2[x.tile] = ac[x.tile]
      BY <3>5, <3>6, <3>7, <3>8, Zenon
    <3>11. Working(k, nx, us, x, sub2, ac2, E)
      BY <3>9, <3>10, WorkingOn
    <3> QED BY <3>8, <3>11, Zenon
  <2> QED BY <2>1, <2>2
<1>9. ASSUME NEW v \in Workers, NEW u \in Workers, new[v].tile = new[u].tile, new[v].tile # 0 PROVE v = u
  <2>1. r.tile = 0 \/ r.tile = i
    BY <1>3, <1>c
  <2>2. v # w /\ u # w => v = u
    BY <1>2, <1>4, <1>9
  <2>3. v = w /\ u # w => FALSE
    BY <1>3, <1>4, <1>9, <1>c, <2>1
  <2>4. v # w /\ u = w => FALSE
    BY <1>3, <1>4, <1>9, <1>c, <2>1
  <2> QED BY <2>2, <2>3, <2>4
<1> QED BY <1>1, <1>4, <1>c, <1>5, <1>6, <1>7, <1>8, <1>9, Zenon DEF Crew

(* A batch that is the last in the queue, but not of its tile, is followed *)
(* by another.                                                             *)
LastBatch(bs, wk) ==
  bs # <<>> /\ ~bs[Len(bs)].complete => \E w \in Workers : wk[w].tile # 0

(* The whole state: S were printed (or dropped, for a format that needs no *)
(* text), A accounted for, T are the tiles that ended, and what the        *)
(* batches bs carry follows them.                                          *)
Going(k, nx, ts, wk, bs, S, A, T) ==
  \E sub, ac, D : Crew(k, nx, ts, wk, sub, ac, D) /\ Books(k, sub, ac, D, bs, S, A, T) /\ LastBatch(bs, wk)

(* Types, and how a batch enters a queue.                                  *)
LEMMA BooksFacts ==
  ASSUME NEW k, NEW sub, NEW ac, NEW D, NEW bs, NEW S, NEW A, NEW T, Books(k, sub, ac, D, bs, S, A, T)
  PROVE  /\ sub \in Progress(k) /\ ac \in Progress(k) /\ D \subseteq CurrentOf(k)
         /\ \A j \in CurrentOf(k) : sub[j] <= ac[j] /\ ac[j] <= Total(k, j)
         /\ bs \o <<>> = bs
         /\ \A b : /\ bs \o <<b>> = Append(bs, b) /\ Append(bs, b) # <<>>
                   /\ Append(bs, b)[Len(Append(bs, b))] = b
<1>1. PICK lots, accs, ends :
       /\ Ledger(Items(k), Reached(k, sub), S, lots)
       /\ Ledger(Items(k), Reached(k, ac), A, accs)
       /\ Ledger(CurrentOf(k), D, T, ends)
       /\ Entered(k, bs, lots, accs, ends)
  BY DEF Books
<1>2. PICK B : bs \in Seq(B)
  BY <1>1, Zenon DEF Entered
<1>3. D \subseteq CurrentOf(k)
  BY <1>1, LedgerSize
<1>4. bs \o <<>> = bs
  BY <1>2, ConcatEmptySeq
<1>5. ASSUME NEW b
      PROVE  /\ bs \o <<b>> = Append(bs, b) /\ Append(bs, b) # <<>>
             /\ Append(bs, b)[Len(Append(bs, b))] = b
  <2> DEFINE C == B \union {b}
  <2>1. bs \in Seq(C) /\ b \in C
    BY <1>2
  <2> HIDE DEF C
  <2>2. bs \o <<b>> = Append(bs, b)
    BY <2>1, AppendIsConcat
  <2>3. Len(Append(bs, b)) = Len(bs) + 1 /\ Len(bs) \in Nat /\ Append(bs, b)[Len(bs) + 1] = b
    BY <2>1, AppendProperties, LenProperties
  <2>4. Append(bs, b) # <<>>
    <3>1. Len(Append(bs, b)) # 0
      BY <2>3
    <3> QED BY <3>1, EmptyFacts
  <2> QED BY <2>2, <2>3, <2>4
<1> QED BY <1>3, <1>4, <1>5 DEF Books, Progressed

(* A tile that is taken was not begun.                                     *)
LEMMA TaskTaken ==
  ASSUME NEW k, IsQuery(k), NEW nx, NEW ts, NEW wk, NEW sub, NEW ac, NEW D, Crew(k, nx, ts, wk, sub, ac, D),
         ts # <<>>, NEW w \in Workers, wk[w] = Idle
  PROVE  /\ Head(ts) \in CurrentOf(k) /\ Head(ts) < nx /\ Head(ts) \notin D
         /\ Tail(ts) \in Seq(CurrentOf(k)) /\ Distinct(Tail(ts)) /\ Elems(Tail(ts)) \subseteq Elems(ts)
         /\ Head(ts) \notin Elems(Tail(ts)) /\ sub[Head(ts)] = 0 /\ ac[Head(ts)] = 0
         /\ \A v \in Workers : v # w => wk[v].tile # Head(ts)
<1>1. /\ nx \in Nat \ {0} /\ ts \in Seq(CurrentOf(k)) /\ Distinct(ts)
      /\ \A i \in Elems(ts) : i < nx /\ i \notin D
      /\ \A i \in CurrentOf(k) : i \in Elems(ts) \/ nx <= i => sub[i] = 0 /\ ac[i] = 0
      /\ \A v \in Workers : wk[v] = Idle \/ Working(k, nx, ts, wk[v], sub, ac, D)
  BY DEF Crew
<1>2. /\ Head(ts) \in CurrentOf(k) /\ Tail(ts) \in Seq(CurrentOf(k)) /\ Distinct(Tail(ts))
      /\ Elems(ts) = Elems(Tail(ts)) \union {Head(ts)}
      /\ Head(ts) \notin Elems(Tail(ts))
  BY <1>1, HeadTail
<1>3. Head(ts) \in Elems(ts)
  BY <1>2
<1>4. \A v \in Workers : v # w => wk[v].tile # Head(ts)
  <2>1. Idle.tile = 0 /\ Head(ts) # 0
    BY <1>2, CurrentFacts
  <2>2. \A v \in Workers : Working(k, nx, ts, wk[v], sub, ac, D) => wk[v].tile \notin Elems(ts)
    BY DEF Working
  <2> QED BY <1>1, <1>3, <2>1, <2>2, Zenon
<1> QED BY <1>1, <1>2, <1>3, <1>4, Zenon

(* Progress of one tile.                                                   *)
LEMMA MovedFacts ==
  ASSUME NEW k, NEW s \in Progress(k), NEW i \in CurrentOf(k), NEW m
  PROVE  /\ Moved(s, i, m)[i] = m
         /\ \A j \in CurrentOf(k) : j # i => Moved(s, i, m)[j] = s[j]
BY DEF Progress, CurrentOf, Moved

(* The results in a tile are submitted as a whole.                         *)
LEMMA GoingWhole ==
  ASSUME NEW k, IsQuery(k), NEW nx, NEW ts, NEW wk, NEW bs, NEW S, NEW A, NEW T, Going(k, nx, ts, wk, bs, S, A, T),
         ts # <<>>, NEW w \in Workers, wk[w] = Idle, NEW i, i = Head(ts),
         NEW b, Carries(k, b, Slice(k, i, 0, Total(k, i)), Slice(k, i, 0, Total(k, i))), b.complete = TRUE
  PROVE  Going(k, nx, Tail(ts), wk, bs \o <<b>>, S, A, T)
<1>1. PICK sub, ac, D : Crew(k, nx, ts, wk, sub, ac, D) /\ Books(k, sub, ac, D, bs, S, A, T)
  BY DEF Going
<1>2. /\ sub \in Progress(k) /\ ac \in Progress(k) /\ D \subseteq CurrentOf(k)
      /\ bs \o <<b>> = Append(bs, b) /\ Append(bs, b)[Len(Append(bs, b))] = b
  BY <1>1, BooksFacts
<1>3. /\ i \in CurrentOf(k) /\ i < nx /\ i \notin D
      /\ Tail(ts) \in Seq(CurrentOf(k)) /\ Distinct(Tail(ts)) /\ Elems(Tail(ts)) \subseteq Elems(ts)
      /\ i \notin Elems(Tail(ts)) /\ sub[i] = 0 /\ ac[i] = 0
      /\ \A v \in Workers : v # w => wk[v].tile # i
  BY <1>1, TaskTaken
<1>n. PICK n : Is(n, Total(k, i))
  BY DEF Is
<1>4. n \in Nat /\ n <= Total(k, i) /\ Total(k, i) = n
  <2>1. Total(k, i) \in Nat
    BY <1>3, FoundType
  <2> QED BY <1>n, <2>1 DEF Is
<1>s. PICK s : Is(s, Moved(sub, i, n))
  BY DEF Is
<1>u. PICK u : Is(u, Moved(ac, i, n))
  BY DEF Is
<1>5. s[i] = n /\ u[i] = n /\ \A j \in CurrentOf(k) : j # i => s[j] = sub[j] /\ u[j] = ac[j]
  <2>1. Moved(sub, i, n)[i] = n /\ \A j \in CurrentOf(k) : j # i => Moved(sub, i, n)[j] = sub[j]
    BY <1>2, <1>3, MovedFacts
  <2>2. Moved(ac, i, n)[i] = n /\ \A j \in CurrentOf(k) : j # i => Moved(ac, i, n)[j] = ac[j]
    BY <1>2, <1>3, MovedFacts
  <2> QED BY <1>s, <1>u, <2>1, <2>2, Zenon DEF Is
<1>e. PICK e : Is(e, <<i>>)
  BY DEF Is
<1>6. e \in Seq(CurrentOf(k)) /\ Distinct(e) /\ Elems(e) = {i} /\ Len(e) = 1
  BY <1>3, <1>e DEF Is, Distinct, Elems
<1>7. Books(k, s, u, D \union {i}, Append(bs, b), S, A, T)
  <2>1. Elems(e) \intersect D = {} /\ Len(e) = IF b.complete THEN 1 ELSE 0
    BY <1>3, <1>6
  <2>2. Carries(k, b, Slice(k, i, sub[i], n), Slice(k, i, ac[i], n))
    BY <1>3, <1>4, Zenon
  <2>3. sub[i] <= n /\ ac[i] <= n /\ n <= n /\ n <= Total(k, i) /\ b.complete \in BOOLEAN
    <3>1. b.complete \in BOOLEAN
      OBVIOUS
    <3>2. sub[i] <= n /\ ac[i] <= n /\ n <= n
      BY <1>3, <1>4
    <3> QED BY <1>4, <3>1, <3>2
  <2>4. Books(k, Moved(sub, i, n), Moved(ac, i, n), D \union Elems(e), Append(bs, b), S, A, T)
    BY <1>1, <1>3, <1>4, <1>6, <2>1, <2>2, <2>3, Enter
  <2> QED BY <1>6, <1>s, <1>u, <2>4, Zenon DEF Is
<1>8. Crew(k, nx, Tail(ts), wk, s, u, D \union {i})
  <2>1. DOMAIN wk = Workers
    BY <1>1 DEF Crew
  <2>2. /\ D \subseteq D \union {i} /\ D \union {i} \subseteq D \union {i}
        /\ (i \in D \union {i} => s[i] = Total(k, i) /\ u[i] = Total(k, i))
    BY <1>4, <1>5
  <2>3. Change(k, nx, ts, wk, sub, ac, D, w, i, Tail(ts), wk, s, u, D \union {i})
    BY <1>2, <1>3, <1>5, <2>1, <2>2, Zenon DEF Change
  <2> QED BY <1>1, <2>3, CrewChange
<1>9. LastBatch(Append(bs, b), wk)
  BY <1>2 DEF LastBatch
<1> QED BY <1>2, <1>7, <1>8, <1>9, Zenon DEF Going

(* The fields of a thread.                                                 *)
LEMMA WorkerFields ==
  ASSUME NEW i, NEW td, NEW bf
  PROVE  WorkerOf(i, td, bf).tile = i /\ WorkerOf(i, td, bf).todo = td /\ WorkerOf(i, td, bf).buf = bf
BY DEF WorkerOf

(* A thread begins to write the results in a tile.                         *)
LEMMA GoingTile ==
  ASSUME NEW k, IsQuery(k), AsText(k), NEW nx, NEW ts, NEW wk, NEW bs, NEW S, NEW A, NEW T,
         Going(k, nx, ts, wk, bs, S, A, T),
         ts # <<>>, NEW w \in Workers, wk[w] = Idle, NEW i, i = Head(ts),
         NEW new, DOMAIN new = Workers, new[w] = WorkerOf(i, EntriesIn(k, i), NewBuffer),
         \A v \in Workers : v # w => new[v] = wk[v]
  PROVE  Going(k, nx, Tail(ts), new, bs, S, A, T)
<1>1. PICK sub, ac, D : Crew(k, nx, ts, wk, sub, ac, D) /\ Books(k, sub, ac, D, bs, S, A, T) /\ LastBatch(bs, wk)
  BY DEF Going
<1>2. sub \in Progress(k) /\ ac \in Progress(k) /\ D \subseteq CurrentOf(k)
  BY <1>1, BooksFacts
<1>3. /\ i \in CurrentOf(k) /\ i < nx /\ i \notin D
      /\ Tail(ts) \in Seq(CurrentOf(k)) /\ Distinct(Tail(ts)) /\ Elems(Tail(ts)) \subseteq Elems(ts)
      /\ i \notin Elems(Tail(ts)) /\ sub[i] = 0 /\ ac[i] = 0
      /\ \A v \in Workers : v # w => wk[v].tile # i
  BY <1>1, TaskTaken
<1>4. PICK c : TaskAt(k, i, EntriesIn(k, i), NewBuffer, 0, 0, c, 0)
  BY <1>3, TaskBegins
<1>5. new[w].tile = i
  BY WorkerFields
<1>6. Working(k, nx, Tail(ts), new[w], sub, ac, D)
  <2>1. Busy(k, new[w], 0, 0)
    BY <1>4, Zenon DEF Busy
  <2> QED BY <1>3, <1>5, <2>1, Zenon DEF Working
<1>7. Change(k, nx, ts, wk, sub, ac, D, w, i, Tail(ts), new, sub, ac, D)
  BY <1>2, <1>3, <1>5, <1>6, Zenon DEF Change
<1>8. Crew(k, nx, Tail(ts), new, sub, ac, D)
  BY <1>1, <1>7, CrewChange
<1>9. LastBatch(bs, new)
  <2>1. Idle.tile = 0 /\ i # 0
    BY <1>3, CurrentFacts
  <2> QED BY <1>1, <1>5, <2>1, Zenon DEF LastBatch
<1> QED BY <1>1, <1>8, <1>9, Zenon DEF Going

(* What a thread that has a tile knows.                                    *)
OnTile(k, nx, ts, wk, sub, ac, D, w, i, td, bf, c, n) ==
  /\ wk[w] = WorkerOf(i, td, bf) /\ TaskAt(k, i, td, bf, sub[i], ac[i], c, n) /\ AsText(k)
  /\ i \in CurrentOf(k) /\ i < nx /\ i \notin D /\ i \notin Elems(ts)
  /\ ts \in Seq(CurrentOf(k)) /\ Distinct(ts) /\ i # 0
  /\ \A v \in Workers : v # w => wk[v].tile # i

(* A thread that is not idle is on some tile.                              *)
LEMMA WorkingFacts ==
  ASSUME NEW k, IsQuery(k), NEW nx, NEW ts, NEW wk, NEW sub, NEW ac, NEW D, Crew(k, nx, ts, wk, sub, ac, D),
         NEW w \in Workers, wk[w] # Idle
  PROVE  \E i, td, bf, c, n : OnTile(k, nx, ts, wk, sub, ac, D, w, i, td, bf, c, n)
<1>1. /\ ts \in Seq(CurrentOf(k)) /\ Distinct(ts)
      /\ \A v, u \in Workers : wk[v].tile = wk[u].tile /\ wk[v].tile # 0 => v = u
      /\ Working(k, nx, ts, wk[w], sub, ac, D)
  BY DEF Crew
<1>2. PICK i, td, bf, c, n : wk[w] = WorkerOf(i, td, bf) /\ TaskAt(k, i, td, bf, sub[wk[w].tile], ac[wk[w].tile], c, n)
  BY <1>1, Zenon DEF Working, Busy
<1>3. wk[w].tile = i
  BY <1>2, WorkerFields
<1>4. AsText(k) /\ i \in CurrentOf(k) /\ i < nx /\ i \notin D /\ i \notin Elems(ts)
  BY <1>1, <1>3, Zenon DEF Working
<1>5. i # 0
  BY <1>4, CurrentFacts
<1>6. \A v \in Workers : v # w => wk[v].tile # i
  BY <1>1, <1>3, <1>5, Zenon
<1>7. TaskAt(k, i, td, bf, sub[i], ac[i], c, n)
  BY <1>2, <1>3, Zenon
<1>8. OnTile(k, nx, ts, wk, sub, ac, D, w, i, td, bf, c, n)
  BY <1>1, <1>2, <1>4, <1>5, <1>6, <1>7, Zenon DEF OnTile
<1> QED BY <1>8, Zenon

(* ... and what becomes of it.                                             *)
GoesOn(k, wk, sub, ac, D, w, i, new, s, u) ==
  /\ D \subseteq CurrentOf(k) /\ wk[w] # Idle /\ w \in Workers /\ wk[w].tile = i
  /\ DOMAIN new = Workers /\ \A v \in Workers : v # w => new[v] = wk[v]
  /\ \A j \in CurrentOf(k) : j # i => s[j] = sub[j] /\ u[j] = ac[j]
  /\ \E td, bf, c, n : TaskAt(k, i, td, bf, s[i], u[i], c, n) /\ new[w] = WorkerOf(i, td, bf)

(* It is still on that tile.                                               *)
WentOn(k, nx, ts, w, i, new, s, u, D) == Crew(k, nx, ts, new, s, u, D) /\ new[w].tile = i /\ i # 0

(* A thread goes on with its tile.                                         *)
LEMMA GoingOnTile ==
  ASSUME NEW k, IsQuery(k), NEW nx, NEW ts, NEW wk, NEW sub, NEW ac, NEW D, Crew(k, nx, ts, wk, sub, ac, D),
         NEW w, NEW i, NEW new, NEW s, NEW u, GoesOn(k, wk, sub, ac, D, w, i, new, s, u)
  PROVE  WentOn(k, nx, ts, w, i, new, s, u, D)
<1>g. /\ D \subseteq CurrentOf(k) /\ wk[w] # Idle /\ w \in Workers /\ wk[w].tile = i
      /\ DOMAIN new = Workers /\ \A v \in Workers : v # w => new[v] = wk[v]
      /\ \A j \in CurrentOf(k) : j # i => s[j] = sub[j] /\ u[j] = ac[j]
      /\ \E td, bf, c, n : TaskAt(k, i, td, bf, s[i], u[i], c, n) /\ new[w] = WorkerOf(i, td, bf)
  BY Zenon DEF GoesOn
<1>p. PICK td, bf, c, n : TaskAt(k, i, td, bf, s[i], u[i], c, n) /\ new[w] = WorkerOf(i, td, bf)
  BY <1>g
<1>0. PICK i1, td1, bf1, c1, n1 : OnTile(k, nx, ts, wk, sub, ac, D, w, i1, td1, bf1, c1, n1)
  BY <1>g, WorkingFacts
<1>1. /\ wk[w] = WorkerOf(i1, td1, bf1) /\ AsText(k)
      /\ i1 \in CurrentOf(k) /\ i1 < nx /\ i1 \notin D /\ i1 \notin Elems(ts)
      /\ ts \in Seq(CurrentOf(k)) /\ Distinct(ts) /\ i1 # 0
      /\ \A v \in Workers : v # w => wk[v].tile # i1
  BY <1>0, Zenon DEF OnTile
<1>2. i1 = i /\ new[w].tile = i
  BY <1>1, <1>g, <1>p, WorkerFields
<1>3. Working(k, nx, ts, new[w], s, u, D)
  <2>1. Busy(k, new[w], s[i], u[i])
    BY <1>p, Zenon DEF Busy
  <2> QED BY <1>1, <1>2, <2>1, Zenon DEF Working
<1>4. Change(k, nx, ts, wk, sub, ac, D, w, i, ts, new, s, u, D)
  BY <1>1, <1>2, <1>3, <1>g, Zenon DEF Change
<1>5. Crew(k, nx, ts, new, s, u, D)
  BY <1>4, CrewChange
<1> QED BY <1>1, <1>2, <1>5, Zenon DEF WentOn

(* It has other results to do.                                             *)
Went(x, td, bf) == [x EXCEPT !.todo = td, !.buf = bf]

(* Its fields.                                                             *)
LEMMA WorkerChanged ==
  ASSUME NEW i, NEW td, NEW bf, NEW t2, NEW b2
  PROVE  Went(WorkerOf(i, td, bf), t2, b2) = WorkerOf(i, t2, b2)
<1>1. [WorkerOf(i, td, bf) EXCEPT !.todo = t2, !.buf = b2]
        = [[WorkerOf(i, td, bf) EXCEPT !.todo = t2] EXCEPT !.buf = b2]
  OBVIOUS
<1>2. [WorkerOf(i, td, bf) EXCEPT !.todo = t2] = WorkerOf(i, t2, bf)
  BY DEF WorkerOf
<1>3. [WorkerOf(i, t2, bf) EXCEPT !.buf = b2] = WorkerOf(i, t2, b2)
  BY DEF WorkerOf
<1> QED BY <1>1, <1>2, <1>3, Zenon DEF Went

(* A batch of one tile is submitted: the tile has ended if it is complete. *)
Entering(k, sub, ac, D, i, m, n, b) ==
  /\ i \in CurrentOf(k) /\ i \notin D /\ m \in Nat /\ n \in Nat
  /\ sub[i] <= m /\ ac[i] <= n /\ m <= n /\ n <= Total(k, i)
  /\ Carries(k, b, Slice(k, i, sub[i], m), Slice(k, i, ac[i], n)) /\ b.complete \in BOOLEAN
(* The tiles that are done when batch b of tile i was submitted.           *)
EndedBy(b, i, D) == IF b.complete THEN D \union {i} ELSE D
(* The books after that.                                                   *)
EnteredTo(k, sub, ac, D, bs, S, A, T, i, m, n, b, s, u) ==
  /\ Books(k, s, u, EndedBy(b, i, D), bs \o <<b>>, S, A, T)
  /\ s[i] = m /\ u[i] = n
  /\ \A j \in CurrentOf(k) : j # i => s[j] = sub[j] /\ u[j] = ac[j]
  /\ (bs \o <<b>>)[Len(bs \o <<b>>)] = b

(* A batch that a thread submits is entered in the books.                  *)
LEMMA EnterOne ==
  ASSUME NEW k, IsQuery(k), NEW sub, NEW ac, NEW D, NEW bs, NEW S, NEW A, NEW T, Books(k, sub, ac, D, bs, S, A, T),
         NEW i, NEW m, NEW n, NEW b, Entering(k, sub, ac, D, i, m, n, b)
  PROVE  EnteredTo(k, sub, ac, D, bs, S, A, T, i, m, n, b, Moved(sub, i, m), Moved(ac, i, n))
<1>0. /\ i \in CurrentOf(k) /\ i \notin D /\ m \in Nat /\ n \in Nat
      /\ sub[i] <= m /\ ac[i] <= n /\ m <= n /\ n <= Total(k, i)
      /\ Carries(k, b, Slice(k, i, sub[i], m), Slice(k, i, ac[i], n)) /\ b.complete \in BOOLEAN
  BY DEF Entering
<1>1. sub \in Progress(k) /\ ac \in Progress(k) /\ bs \o <<b>> = Append(bs, b) /\ Append(bs, b)[Len(Append(bs, b))] = b
  BY BooksFacts
<1>2. \A X : <<>> \in Seq(X) /\ Len(<<>>) = 0 /\ Distinct(<<>>) /\ Elems(<<>>) = {}
  BY EmptySeq DEF Distinct, Elems
<1>e. PICK e : Is(e, IF b.complete THEN <<i>> ELSE <<>>)
  BY DEF Is
<1>3. /\ e \in Seq(CurrentOf(k)) /\ Distinct(e) /\ Elems(e) \intersect D = {}
      /\ Len(e) = (IF b.complete THEN 1 ELSE 0) /\ D \union Elems(e) = IF b.complete THEN D \union {i} ELSE D
  <2>1. CASE b.complete
    <3>1. e = <<i>>
      BY <1>e, <2>1 DEF Is
    <3>2. e \in Seq(CurrentOf(k)) /\ Distinct(e) /\ Elems(e) = {i} /\ Len(e) = 1
      BY <1>0, <3>1 DEF Distinct, Elems
    <3> QED BY <1>0, <2>1, <3>2
  <2>2. CASE ~b.complete
    <3>1. e = <<>>
      BY <1>e, <2>2 DEF Is
    <3> QED BY <1>2, <2>2, <3>1
  <2> QED BY <2>1, <2>2
<1>4. Books(k, Moved(sub, i, m), Moved(ac, i, n), D \union Elems(e), Append(bs, b), S, A, T)
  BY <1>0, <1>3, Enter
<1>5. Moved(sub, i, m)[i] = m /\ \A j \in CurrentOf(k) : j # i => Moved(sub, i, m)[j] = sub[j]
  BY <1>0, <1>1, MovedFacts
<1>6. Moved(ac, i, n)[i] = n /\ \A j \in CurrentOf(k) : j # i => Moved(ac, i, n)[j] = ac[j]
  BY <1>0, <1>1, MovedFacts
<1>7. Books(k, Moved(sub, i, m), Moved(ac, i, n), EndedBy(b, i, D), Append(bs, b), S, A, T)
  BY <1>3, <1>4, Zenon DEF EndedBy
<1> QED BY <1>1, <1>5, <1>6, <1>7, Zenon DEF EnteredTo

(* A thread writes a result.                                               *)
LEMMA GoingPrints ==
  ASSUME NEW k, IsQuery(k), NEW nx, NEW ts, NEW wk, NEW bs, NEW S, NEW A, NEW T,
         Going(k, nx, ts, wk, bs, S, A, T), NEW w \in Workers, wk[w].todo # <<>>,
         NEW r, r = PrintFeature(AddCount(wk[w].buf, Head(wk[w].todo).count), k.format, Head(wk[w].todo).f,
                                 k.sizes[Head(wk[w].todo).f]),
         NEW new, DOMAIN new = Workers, new[w] = Went(wk[w], Tail(wk[w].todo), Unsent(r)),
         \A v \in Workers : v # w => new[v] = wk[v]
  PROVE  Going(k, nx, ts, new, bs \o r.sent, S, A, T)
<1>1. PICK sub, ac, D : Crew(k, nx, ts, wk, sub, ac, D) /\ Books(k, sub, ac, D, bs, S, A, T) /\ LastBatch(bs, wk)
  BY DEF Going
<1>2. sub \in Progress(k) /\ ac \in Progress(k) /\ D \subseteq CurrentOf(k) /\ bs \o <<>> = bs
  BY <1>1, BooksFacts
<1>3. wk[w] # Idle
  BY DEF Idle
<1>4. PICK i, td, bf, c, n : OnTile(k, nx, ts, wk, sub, ac, D, w, i, td, bf, c, n)
  BY <1>1, <1>3, WorkingFacts
<1>5. /\ wk[w] = WorkerOf(i, td, bf) /\ TaskAt(k, i, td, bf, sub[i], ac[i], c, n) /\ AsText(k)
      /\ i \in CurrentOf(k) /\ i \notin D
  BY <1>4, Zenon DEF OnTile
<1>6. wk[w].tile = i /\ wk[w].todo = td /\ wk[w].buf = bf
  BY <1>5, WorkerFields
<1>m. PICK m : Is(m, sub[i])
  BY DEF Is
<1>a. PICK a : Is(a, ac[i])
  BY DEF Is
<1>7. TaskAt(k, i, td, bf, m, a, c, n) /\ sub[i] = m /\ ac[i] = a
  BY <1>5, <1>m, <1>a, Zenon DEF Is
<1>8. WritesOn(k, i, td, m, a, c, n, r)
  <2>1. td # <<>>
    BY <1>6
  <2>2. r = PrintFeature(AddCount(bf, Head(td).count), k.format, Head(td).f, k.sizes[Head(td).f])
    BY <1>6, Zenon
  <2>3. NextWritten(k, td, bf, r)
    BY <2>1, <2>2, Zenon DEF NextWritten
  <2> QED BY <1>5, <1>7, <2>3, TaskPrints
<1>9. new[w] = WorkerOf(i, Tail(td), Unsent(r))
  <2>1. Went(WorkerOf(i, td, bf), Tail(td), Unsent(r)) = WorkerOf(i, Tail(td), Unsent(r))
    <3>1. PICK x, y : Is(x, Tail(td)) /\ Is(y, Unsent(r))
      BY DEF Is
    <3>2. Went(WorkerOf(i, td, bf), x, y) = WorkerOf(i, x, y)
      BY WorkerChanged
    <3> QED BY <3>1, <3>2, Zenon DEF Is
  <2> QED BY <1>5, <1>6, <2>1, Zenon
<1>10. CASE r.sent = <<>> /\ TaskAt(k, i, Tail(td), Unsent(r), m, a, c, n + 1)
  <2>1. GoesOn(k, wk, sub, ac, D, w, i, new, sub, ac)
    BY <1>2, <1>3, <1>6, <1>7, <1>9, <1>10, Zenon DEF GoesOn
  <2>5. WentOn(k, nx, ts, w, i, new, sub, ac, D)
    BY <1>1, <2>1, GoingOnTile
  <2>2. Crew(k, nx, ts, new, sub, ac, D) /\ new[w].tile = i /\ i # 0
    BY <2>5, Zenon DEF WentOn
  <2>3. LastBatch(bs, new)
    BY <2>2, Zenon DEF LastBatch
  <2>4. bs \o r.sent = bs
    BY <1>2, <1>10, Zenon
  <2> QED BY <1>1, <2>2, <2>3, <2>4, Zenon DEF Going
<1>11. ASSUME NEW b, r.sent = <<b>>, b.complete = FALSE,
              Carries(k, b, Slice(k, i, m, n), Slice(k, i, a, c[n + 1])),
              TaskAt(k, i, Tail(td), Unsent(r), n, c[n + 1], c, n + 1)
       PROVE  Going(k, nx, ts, new, bs \o r.sent, S, A, T)
  <2>d. PICK d : Is(d, c[n + 1])
    BY DEF Is
  <2>1. m \in Nat /\ a \in Nat /\ n \in Nat /\ m <= n /\ a <= d /\ n <= d /\ d <= Total(k, i) /\ d \in Nat
    <3>0. n < Total(k, i)
      BY <1>8, Zenon DEF WritesOn
    <3>1. /\ m \in Nat /\ a \in Nat /\ n \in Nat /\ c[n] \in Nat /\ m <= n /\ a <= c[n] /\ n <= c[n]
      BY <1>5, <1>7, TaskBounds
    <3>2. /\ c[n + 1] = c[n] + EntriesIn(k, i)[n + 1].count /\ EntriesIn(k, i)[n + 1].count \in Nat
          /\ c[n + 1] <= Total(k, i)
      BY <1>5, <1>7, <3>0, TaskBounds
    <3>3. PICK x : Is(x, EntriesIn(k, i)[n + 1].count)
      BY DEF Is
    <3>4. x \in Nat /\ d = c[n] + x /\ d <= Total(k, i)
      BY <2>d, <3>2, <3>3, Zenon DEF Is
    <3> QED BY <3>1, <3>4
  <2>2. Entering(k, sub, ac, D, i, n, d, b)
    <3>1. Carries(k, b, Slice(k, i, sub[i], n), Slice(k, i, ac[i], d))
      BY <1>7, <1>11, <2>d, ZenonT(30) DEF Is
    <3>2. b.complete \in BOOLEAN
      BY <1>11
    <3> QED BY <1>5, <1>7, <2>1, <3>1, <3>2, Zenon DEF Entering
  <2>s. PICK s, u : Is(s, Moved(sub, i, n)) /\ Is(u, Moved(ac, i, d))
    BY DEF Is
  <2>3. EnteredTo(k, sub, ac, D, bs, S, A, T, i, n, d, b, s, u)
    <3>1. EnteredTo(k, sub, ac, D, bs, S, A, T, i, n, d, b, Moved(sub, i, n), Moved(ac, i, d))
      BY <1>1, <2>2, EnterOne
    <3> QED BY <2>s, <3>1, Zenon DEF Is
  <2>4. /\ s[i] = n /\ u[i] = d
        /\ \A j \in CurrentOf(k) : j # i => s[j] = sub[j] /\ u[j] = ac[j]
    BY <2>3, Zenon DEF EnteredTo
  <2>5. Books(k, s, u, D, bs \o <<b>>, S, A, T)
    <3>1. EndedBy(b, i, D) = D
      BY <1>11 DEF EndedBy
    <3>2. Books(k, s, u, EndedBy(b, i, D), bs \o <<b>>, S, A, T)
      BY <2>3, Zenon DEF EnteredTo
    <3> QED BY <3>1, <3>2, ZenonT(30)
  <2>6. TaskAt(k, i, Tail(td), Unsent(r), s[i], u[i], c, n + 1)
    BY <1>11, <2>d, <2>4, Zenon DEF Is
  <2>7. GoesOn(k, wk, sub, ac, D, w, i, new, s, u)
    BY <1>2, <1>3, <1>6, <1>9, <2>4, <2>6, Zenon DEF GoesOn
  <2>10. WentOn(k, nx, ts, w, i, new, s, u, D)
    BY <1>1, <2>7, GoingOnTile
  <2>8. Crew(k, nx, ts, new, s, u, D) /\ new[w].tile = i /\ i # 0
    BY <2>10, Zenon DEF WentOn
  <2>9. LastBatch(bs \o <<b>>, new)
    BY <2>8, Zenon DEF LastBatch
  <2> QED BY <1>11, <2>5, <2>8, <2>9, Zenon DEF Going
<1> QED BY <1>8, <1>10, <1>11, Zenon DEF WritesOn

(* A thread submits the last batch of a tile.                              *)
LEMMA GoingFlushes ==
  ASSUME NEW k, IsQuery(k), NEW nx, NEW ts, NEW wk, NEW bs, NEW S, NEW A, NEW T,
         Going(k, nx, ts, wk, bs, S, A, T), NEW w \in Workers, wk[w].tile # 0, wk[w].todo = <<>>,
         NEW new, DOMAIN new = Workers, new[w] = Idle, \A v \in Workers : v # w => new[v] = wk[v]
  PROVE  Going(k, nx, ts, new, bs \o <<Flush(wk[w].buf)>>, S, A, T)
<1>1. PICK sub, ac, D : Crew(k, nx, ts, wk, sub, ac, D) /\ Books(k, sub, ac, D, bs, S, A, T) /\ LastBatch(bs, wk)
  BY DEF Going
<1>2. sub \in Progress(k) /\ ac \in Progress(k) /\ D \subseteq CurrentOf(k)
  BY <1>1, BooksFacts
<1>3. wk[w] # Idle
  BY DEF Idle
<1>4. PICK i, td, bf, c, n : OnTile(k, nx, ts, wk, sub, ac, D, w, i, td, bf, c, n)
  BY <1>1, <1>3, WorkingFacts
<1>5. /\ wk[w] = WorkerOf(i, td, bf) /\ TaskAt(k, i, td, bf, sub[i], ac[i], c, n) /\ AsText(k)
      /\ i \in CurrentOf(k) /\ i < nx /\ i \notin D /\ i \notin Elems(ts)
      /\ ts \in Seq(CurrentOf(k)) /\ Distinct(ts)
      /\ \A v \in Workers : v # w => wk[v].tile # i
  BY <1>4, Zenon DEF OnTile
<1>6. wk[w].todo = td /\ wk[w].buf = bf
  BY <1>5, WorkerFields
<1>m. PICK m, a : Is(m, sub[i]) /\ Is(a, ac[i])
  BY DEF Is
<1>t. PICK t : Is(t, Total(k, i))
  BY DEF Is
<1>b. PICK b : Is(b, Flush(bf))
  BY DEF Is
<1>7. TaskAt(k, i, td, bf, m, a, c, n) /\ td = <<>>
  BY <1>5, <1>6, <1>m, Zenon DEF Is
<1>8. /\ Carries(k, Flush(bf), Slice(k, i, m, n), Slice(k, i, a, Total(k, i)))
      /\ Flush(bf).complete = TRUE /\ m \in Nat /\ a \in Nat /\ m <= Total(k, i) /\ a <= Total(k, i)
      /\ Total(k, i) \in Nat /\ n = Total(k, i)
  <2>1. i \in CurrentOf(k) /\ AsText(k)
    BY <1>5, Zenon
  <2>2. TaskAt(k, i, td, bf, m, a, c, n)
    BY <1>7, Zenon
  <2>3. td = <<>>
    BY <1>7, Zenon
  <2> QED BY <2>1, <2>2, <2>3, TaskEnds, Zenon
<1>9. Entering(k, sub, ac, D, i, t, t, b) /\ b.complete = TRUE
  <2>1. /\ t \in Nat /\ t = Total(k, i) /\ t <= t /\ m <= t /\ a <= t /\ t <= Total(k, i)
    BY <1>8, <1>t DEF Is
  <2>2. b.complete = TRUE
    BY <1>8, <1>b, Zenon DEF Is
  <2>3. b.complete \in BOOLEAN
    BY <2>2
  <2>4. Carries(k, b, Slice(k, i, sub[i], t), Slice(k, i, ac[i], t))
    BY <1>8, <1>b, <1>m, <1>t, Zenon DEF Is
  <2>5. sub[i] <= t /\ ac[i] <= t
    BY <1>m, <2>1, Zenon DEF Is
  <2> QED BY <1>5, <2>1, <2>2, <2>3, <2>4, <2>5, Zenon DEF Entering
<1>s. PICK s, u : Is(s, Moved(sub, i, t)) /\ Is(u, Moved(ac, i, t))
  BY DEF Is
<1>10. EnteredTo(k, sub, ac, D, bs, S, A, T, i, t, t, b, s, u)
  <2>1. EnteredTo(k, sub, ac, D, bs, S, A, T, i, t, t, b, Moved(sub, i, t), Moved(ac, i, t))
    BY <1>1, <1>9, EnterOne
  <2> QED BY <1>s, <2>1, Zenon DEF Is
<1>11. /\ Books(k, s, u, D \union {i}, bs \o <<b>>, S, A, T) /\ s[i] = t /\ u[i] = t
       /\ \A j \in CurrentOf(k) : j # i => s[j] = sub[j] /\ u[j] = ac[j]
       /\ (bs \o <<b>>)[Len(bs \o <<b>>)] = b
  <2>1. EndedBy(b, i, D) = D \union {i}
    BY <1>9 DEF EndedBy
  <2> QED BY <1>10, <2>1, Zenon DEF EnteredTo
<1>12. Change(k, nx, ts, wk, sub, ac, D, w, i, ts, new, s, u, D \union {i})
  <2>1. D \subseteq D \union {i} /\ D \union {i} \subseteq D \union {i} /\ Elems(ts) \subseteq Elems(ts)
    OBVIOUS
  <2>2. s[i] = Total(k, i) /\ u[i] = Total(k, i)
    BY <1>11, <1>t, Zenon DEF Is
  <2> QED BY <1>2, <1>5, <1>11, <2>1, <2>2, Zenon DEF Change
<1>13. Crew(k, nx, ts, new, s, u, D \union {i})
  BY <1>1, <1>12, CrewChange
<1>14. LastBatch(bs \o <<b>>, new)
  BY <1>9, <1>11, Zenon DEF LastBatch
<1>15. Going(k, nx, ts, new, bs \o <<b>>, S, A, T)
  BY <1>11, <1>13, <1>14, Zenon DEF Going
<1> QED BY <1>6, <1>15, <1>b, Zenon DEF Is

(* The main thread posts the next tile.                                    *)
LEMMA GoingPost ==
  ASSUME NEW k, IsQuery(k), NEW nx, NEW ts, NEW wk, NEW bs, NEW S, NEW A, NEW T, Going(k, nx, ts, wk, bs, S, A, T),
         NEW us, us = IF nx \in CurrentOf(k) THEN Append(ts, nx) ELSE ts
  PROVE  Going(k, nx + 1, us, wk, bs, S, A, T)
<1>1. PICK sub, ac, D : Crew(k, nx, ts, wk, sub, ac, D) /\ Books(k, sub, ac, D, bs, S, A, T) /\ LastBatch(bs, wk)
  BY DEF Going
<1>2. D \subseteq CurrentOf(k)
  BY <1>1, BooksFacts
<1>3. \/ nx \in CurrentOf(k) /\ us = Append(ts, nx)
      \/ nx \notin CurrentOf(k) /\ us = ts
  OBVIOUS
<1>4. Crew(k, nx + 1, us, wk, sub, ac, D)
  BY <1>1, <1>2, <1>3, CrewPost
<1> QED BY <1>1, <1>4, Zenon DEF Going

(* What the first batch of the queue carries, and the state without it.    *)
LeftBy(k, nx, ts, wk, bs, S, A, T, lot, acc, end) ==
  /\ EntryIs(k, Head(bs), lot, acc, end)
  /\ Going(k, nx, ts, wk, Tail(bs), Cat(S, lot), Cat(A, acc), Cat(T, end))
  /\ Len(Cat(S, lot)) <= Len(A) + Len(acc)
  /\ Len(Cat(A, acc)) = Len(A) + Len(acc) /\ Len(Cat(T, end)) = Len(T) + Len(end)

(* It leaves the queue.                                                    *)
LEMMA GoingLeaves ==
  ASSUME NEW k, IsQuery(k), NEW nx, NEW ts, NEW wk, NEW bs, NEW S, NEW A, NEW T, Going(k, nx, ts, wk, bs, S, A, T),
         bs # <<>>
  PROVE  \E lot, acc, end : LeftBy(k, nx, ts, wk, bs, S, A, T, lot, acc, end)
<1>1. PICK sub, ac, D : Crew(k, nx, ts, wk, sub, ac, D) /\ Books(k, sub, ac, D, bs, S, A, T) /\ LastBatch(bs, wk)
  BY DEF Going
<1>2. PICK lot, acc, end :
           /\ EntryIs(k, Head(bs), lot, acc, end)
           /\ Books(k, sub, ac, D, Tail(bs), Cat(S, lot), Cat(A, acc), Cat(T, end))
           /\ Len(Cat(S, lot)) <= Len(A) + Len(acc)
           /\ Len(Cat(A, acc)) = Len(A) + Len(acc) /\ Len(Cat(T, end)) = Len(T) + Len(end)
  BY <1>1, Leave
<1>3. LastBatch(Tail(bs), wk)
  <2>1. PICK B : bs \in Seq(B)
    <3>1. PICK lots, accs, ends : Entered(k, bs, lots, accs, ends)
      BY <1>1, Zenon DEF Books
    <3> QED BY <3>1, Zenon DEF Entered
  <2>2. Len(bs) \in Nat \ {0} /\ Len(Tail(bs)) = Len(bs) - 1 /\ Tail(bs) \in Seq(B)
        /\ \A m \in 1..Len(bs) - 1 : Tail(bs)[m] = bs[m + 1]
    BY <2>1, HeadTailProperties, EmptySeq, LenProperties
  <2>3. ASSUME Tail(bs) # <<>> PROVE Tail(bs)[Len(Tail(bs))] = bs[Len(bs)]
    <3>1. Len(Tail(bs)) # 0
      BY <2>2, <2>3, EmptySeq
    <3>2. Len(Tail(bs)) \in 1..Len(bs) - 1 /\ Len(Tail(bs)) + 1 = Len(bs)
      BY <2>2, <3>1
    <3> QED BY <2>2, <3>2
  <2> QED BY <1>1, <2>3, Zenon DEF LastBatch
<1>4. Going(k, nx, ts, wk, Tail(bs), Cat(S, lot), Cat(A, acc), Cat(T, end))
  BY <1>1, <1>2, <1>3, Zenon DEF Going
<1>5. LeftBy(k, nx, ts, wk, bs, S, A, T, lot, acc, end)
  BY <1>2, <1>4, Zenon DEF LeftBy
<1> QED BY <1>5, Zenon

(* As many tiles have ended as there are: every result was printed, once,  *)
(* and accounted for.                                                      *)
LEMMA GoingCloses ==
  ASSUME NEW k, IsQuery(k), NEW nx, NEW ts, NEW wk, NEW bs, NEW S, NEW A, NEW T, Going(k, nx, ts, wk, bs, S, A, T),
         Len(T) >= Cardinality(CurrentOf(k))
  PROVE  /\ S \in SetToSeqs(AllOf(k)) /\ Len(S) = Cardinality(AllOf(k)) /\ Len(A) = Cardinality(AllOf(k))
         /\ IsFiniteSet(AllOf(k))
<1>1. PICK sub, ac, D : Crew(k, nx, ts, wk, sub, ac, D) /\ Books(k, sub, ac, D, bs, S, A, T) /\ LastBatch(bs, wk)
  BY DEF Going
<1>2. D = CurrentOf(k)
  BY <1>1, BooksEnded
<1>3. \A w \in Workers : wk[w].tile = 0
  <2>1. \A w \in Workers : wk[w] = Idle \/ Working(k, nx, ts, wk[w], sub, ac, D)
    BY <1>1 DEF Crew
  <2>2. Idle.tile = 0
    BY CurrentFacts
  <2> QED BY <1>2, <2>1, <2>2, Zenon DEF Working
<1>4. bs # <<>> => bs[Len(bs)].complete
  BY <1>1, <1>3, Zenon DEF LastBatch
<1>5. \A i \in D : sub[i] = Total(k, i) /\ ac[i] = Total(k, i)
  BY <1>1, Zenon DEF Crew
<1> QED BY <1>1, <1>4, <1>5, BooksClose

(* These are the results.                                                  *)
LEMMA GoingElems ==
  ASSUME NEW k, IsQuery(k), NEW nx, NEW ts, NEW wk, NEW bs, NEW S, NEW A, NEW T, Going(k, nx, ts, wk, bs, S, A, T),
         Len(T) >= Cardinality(CurrentOf(k))
  PROVE  Elems(S) = AllOf(k)
<1>1. S \in SetToSeqs(AllOf(k)) /\ Len(S) = Cardinality(AllOf(k)) /\ IsFiniteSet(AllOf(k))
  BY GoingCloses
<1>2. PICK sub, lots : Ledger(Items(k), Reached(k, sub), S, lots)
  BY Zenon DEF Going, Books
<1>3. S \in Seq(Items(k)) /\ Distinct(S)
  <2>1. S \in Seq(Items(k)) /\ lots \in Seq(Seq(Items(k))) /\ Distinct(S \o FlattenSeq(lots))
    BY <1>2, Zenon DEF Ledger
  <2>2. FlattenSeq(lots) \in Seq(Items(k))
    BY <2>1, FlattenType
  <2> QED BY <2>1, <2>2, ConcatDistinct
<1>4. IsFiniteSet(Elems(S)) /\ Cardinality(Elems(S)) = Len(S)
  BY <1>3, DistinctLength
<1>5. Elems(S) \subseteq AllOf(k)
  BY <1>1 DEF SetToSeqs, Elems
<1> QED BY <1>1, <1>4, <1>5, FS_Subset

(* Nothing was posted yet.                                                 *)
LEMMA GoingBegins ==
  ASSUME NEW k, IsQuery(k), NEW wk, DOMAIN wk = Workers, \A w \in Workers : wk[w] = Idle
  PROVE  Going(k, 1, <<>>, wk, <<>>, <<>>, <<>>, <<>>)
<1> DEFINE z == [i \in DOMAIN k.tiles |-> 0]
<1>1. z \in Progress(k) /\ \A i \in CurrentOf(k) : z[i] = 0
  BY DEF Progress, CurrentOf
<1> HIDE DEF z
<1>2. Crew(k, 1, <<>>, wk, z, z, {})
  <2>1. <<>> \in Seq(CurrentOf(k)) /\ Distinct(<<>>) /\ Elems(<<>>) = {}
    BY EmptySeq DEF Distinct, Elems
  <2>2. Idle.tile = 0
    BY CurrentFacts
  <2> QED BY <1>1, <2>1, <2>2 DEF Crew
<1>3. Reached(k, z) = {}
  <2>1. \A i \in CurrentOf(k) : 1..z[i] = {}
    BY <1>1
  <2> QED BY <2>1 DEF Reached
<1>4. \A F : Ledger(F, {}, <<>>, <<>>)
  <2>1. \A F : <<>> \in Seq(F) /\ <<>> \in Seq(Seq(F))
    BY EmptySeq
  <2>2. FlattenSeq(<<>>) = <<>> /\ <<>> \o <<>> = <<>>
    BY <2>1, FlattenEmpty, ConcatEmptySeq
  <2>3. Distinct(<<>>) /\ Elems(<<>>) = {}
    BY DEF Distinct, Elems
  <2> QED BY <2>1, <2>2, <2>3, Zenon DEF Ledger
<1>5. Progressed(k, z, z)
  <2>1. \A i \in CurrentOf(k) : Total(k, i) \in Nat
    BY FoundType
  <2> QED BY <1>1, <2>1 DEF Progressed
<1>6. Entered(k, <<>>, <<>>, <<>>, <<>>)
  <2>1. Len(<<>>) = 0 /\ <<>> \in Seq({}) /\ 1..0 = {}
    BY EmptySeq
  <2> QED BY <2>1 DEF Entered
<1>7. Ahead(<<>>, <<>>, <<>>, <<>>)
  BY DEF Ahead
<1>8. Ledger(Items(k), Reached(k, z), <<>>, <<>>) /\ Ledger(CurrentOf(k), {}, <<>>, <<>>)
  BY <1>3, <1>4, Zenon
<1>9. Books(k, z, z, {}, <<>>, <<>>, <<>>, <<>>)
  BY <1>5, <1>6, <1>7, <1>8, Zenon DEF Books
<1>10. LastBatch(<<>>, wk)
  BY DEF LastBatch
<1> QED BY <1>2, <1>9, <1>10, Zenon DEF Going

-----------------------------------------------------------------------------
(* What is collected for an OSM file                                       *)

(* What is collected, with the calls that are left.                        *)
Collecting(lib) == (SUBSET DOMAIN lib) \X Seq(Calls(lib))

(* Members are features of the library.                                    *)
LEMMA MembersIn ==
  ASSUME NEW lib, IsLibrary(lib), NEW f \in DOMAIN lib, f[1] # 0
  PROVE  /\ lib[f].members \in Seq(Members(lib)) /\ DOMAIN lib[f].members = 1..Len(lib[f].members)
         /\ Len(lib[f].members) \in Nat
         /\ \A i \in DOMAIN lib[f].members : lib[f].members[i].f \in DOMAIN lib /\ lib[f].members[i].role \in STRING
<1> PICK ms : Is(ms, lib[f].members)
  BY DEF Is
<1>1. ms \in Seq(Members(lib))
  BY DEF IsLibrary, Is
<1>2. DOMAIN ms = 1..Len(ms) /\ Len(ms) \in Nat
  BY <1>1, LenProperties
<1>3. \A i \in DOMAIN ms : ms[i] \in Members(lib)
  BY <1>1, <1>2, ElementOfSeq
<1>4. \A i \in DOMAIN ms : ms[i].f \in DOMAIN lib /\ ms[i].role \in STRING
  BY <1>3 DEF Members
<1> QED BY <1>1, <1>2, <1>4, Zenon DEF Is

(* The types of one call.                                                  *)
LEMMA CallTypes ==
  ASSUME NEW k, NEW lib, IsLibrary(lib), NEW s \in SUBSET DOMAIN lib, NEW x \in Calls(lib)
  PROVE  /\ Inserted(lib, s, x) \in SUBSET DOMAIN lib /\ s \subseteq Inserted(lib, s, x)
         /\ CallsFor(k, lib, s, x) \in Seq(Calls(lib))
<1>1. x.f \in DOMAIN lib /\ x.taken \in BOOLEAN
  BY DEF Calls
<1>3. x.f[1] = 1 => NodesOfWay(lib, x.f) \subseteq DOMAIN lib
  <2>1. ASSUME x.f[1] = 1 PROVE \A i \in DOMAIN lib[x.f].members : lib[x.f].members[i].f \in DOMAIN lib
    BY <1>1, <2>1, MembersIn
  <2> QED BY <2>1 DEF NodesOfWay
<1>4. CASE x.taken /\ x.f[1] = 2 /\ x.f \notin s
  <2> PICK ms : Is(ms, lib[x.f].members)
    BY DEF Is
  <2>2. DOMAIN ms = 1..Len(ms) /\ Len(ms) \in Nat /\ \A i \in 1..Len(ms) : ms[i].f \in DOMAIN lib
    <3>1. x.f[1] # 0
      BY <1>4
    <3>2. /\ DOMAIN lib[x.f].members = 1..Len(lib[x.f].members) /\ Len(lib[x.f].members) \in Nat
          /\ \A i \in DOMAIN lib[x.f].members : lib[x.f].members[i].f \in DOMAIN lib
      BY <1>1, <3>1, MembersIn
    <3> QED BY <3>2, Zenon DEF Is
  <2> DEFINE t(i) == CompleteRelation(k, lib, x.f) \/ AcceptMember(k, ms[i].f)
  <2>3. \A i \in 1..Len(ms) : t(i) \in BOOLEAN
    BY DEF CompleteRelation, Completes, AcceptMember
  <2> HIDE DEF t
  <2>4. [i \in 1..Len(ms) |-> [f |-> ms[i].f, taken |-> t(i)]] \in [1..Len(ms) -> Calls(lib)]
    BY <2>2, <2>3 DEF Calls
  <2>5. CallsFor(k, lib, s, x) = [i \in 1..Len(ms) |-> [f |-> ms[i].f, taken |-> t(i)]]
    BY <1>4, <2>2, Zenon DEF CallsFor, t, Is
  <2>6. CallsFor(k, lib, s, x) \in Seq(Calls(lib))
    BY <2>2, <2>4, <2>5, SeqDef
  <2> QED BY <1>1, <1>3, <1>4, <2>6 DEF Inserted
<1>5. CASE ~(x.taken /\ x.f[1] = 2 /\ x.f \notin s)
  <2>1. CallsFor(k, lib, s, x) = <<>>
    BY <1>5 DEF CallsFor
  <2> QED BY <1>1, <1>3, <2>1, EmptySeq DEF Inserted
<1> QED BY <1>4, <1>5

(* ... and of what comes after it.                                         *)
LEMMA NextCallType ==
  ASSUME NEW k, NEW lib, IsLibrary(lib), NEW p \in Collecting(lib), p[2] # <<>>
  PROVE  NextCall(k, lib, p) \in Collecting(lib)
<1>1. p[1] \in SUBSET DOMAIN lib /\ p[2] \in Seq(Calls(lib))
  BY DEF Collecting
<1>2. Head(p[2]) \in Calls(lib) /\ Tail(p[2]) \in Seq(Calls(lib))
  BY <1>1
<1>3. Inserted(lib, p[1], Head(p[2])) \in SUBSET DOMAIN lib /\ CallsFor(k, lib, p[1], Head(p[2])) \in Seq(Calls(lib))
  BY <1>1, <1>2, CallTypes
<1>4. CallsFor(k, lib, p[1], Head(p[2])) \o Tail(p[2]) \in Seq(Calls(lib))
  BY <1>2, <1>3, ConcatProperties
<1> QED BY <1>3, <1>4, Zenon DEF NextCall, Collecting

(* AddFeatures as a function of both.                                      *)
Collects(k, lib, F) ==
  \A p \in Collecting(lib) : F[p] = IF p[2] = <<>> THEN p[1] ELSE F[NextCall(k, lib, p)]

(* There is one that collects.                                             *)
LEMMA CollectsExists ==
  ASSUME NEW k, NEW lib, IsLibrary(lib)
  PROVE  \E F \in [Collecting(lib) -> SUBSET DOMAIN lib] : Collects(k, lib, F)
<1> DEFINE X == Collecting(lib)
           step == [p \in X |-> IF p[2] = <<>> THEN p ELSE NextCall(k, lib, p)]
           T == {p \in X : p[2] = <<>>}
           out == [p \in X |-> p[1]]
<1>1. step \in [X -> X]
  BY NextCallType
<1>2. T \in SUBSET X /\ (\A p \in T : step[p] = p) /\ {} \in SUBSET DOMAIN lib
  OBVIOUS
<1>3. out \in [X -> SUBSET DOMAIN lib]
  BY DEF Collecting
<1>4. PICK F \in [X -> SUBSET DOMAIN lib] : \A p \in X : F[p] = IF p \in T THEN out[p] ELSE F[step[p]]
  <2> DEFINE Y == SUBSET DOMAIN lib
  <2>1. out \in [X -> Y] /\ Y # {}
    BY <1>3
  <2> HIDE DEF X, step, T, out, Y
  <2>2. Continuing(X, step, T, Y, out)
    BY <1>1, <1>2, <2>1, Zenon DEF Continuing
  <2>3. PICK F \in Outcomes(X, step, T, Y, out) : TRUE
    BY <2>2, OutcomesExist
  <2> QED BY <2>3 DEF Outcomes, Y
<1>5. ASSUME NEW p \in X PROVE F[p] = IF p[2] = <<>> THEN p[1] ELSE F[NextCall(k, lib, p)]
  <2>1. F[p] = IF p \in T THEN out[p] ELSE F[step[p]]
    BY <1>4
  <2>2. out[p] = p[1] /\ (p \in T <=> p[2] = <<>>) /\ (p[2] # <<>> => step[p] = NextCall(k, lib, p))
    <3> HIDE DEF X
    <3> QED OBVIOUS
  <2> QED BY <2>1, <2>2, Zenon
<1> QED BY <1>4, <1>5, Zenon DEF Collects

(* AddFeatures is such a function.                                         *)
LEMMA AddFeaturesIs ==
  ASSUME NEW k, NEW lib, IsLibrary(lib)
  PROVE  \E F : Collects(k, lib, F) /\ \A s, w : AddFeatures(s, k, lib, w) = F[<<s, w>>]
<1> DEFINE X == (SUBSET DOMAIN lib) \X Seq(Calls(lib))
           Step(h) == [p \in X |-> IF p[2] = <<>> THEN p[1] ELSE h[NextCall(k, lib, p)]]
           F == CHOOSE h : h = Step(h)
<1>1. \A s, w : AddFeatures(s, k, lib, w) = F[<<s, w>>]
  BY Zenon DEF AddFeatures
<1>2. PICK G \in [Collecting(lib) -> SUBSET DOMAIN lib] : Collects(k, lib, G)
  BY CollectsExists
<1>3. G \in [X -> SUBSET DOMAIN lib] /\ \A p \in X : G[p] = IF p[2] = <<>> THEN p[1] ELSE G[NextCall(k, lib, p)]
  BY <1>2, Zenon DEF Collects, Collecting
<1>4. G = Step(G)
  <2> HIDE DEF X
  <2>1. G = [p \in X |-> G[p]]
    BY <1>3
  <2> QED BY <1>3, <2>1
<1>5. F = Step(F)
  <2> HIDE DEF Step
  <2> QED BY <1>4
<1> HIDE DEF F
<1>6. \A p \in X : F[p] = IF p[2] = <<>> THEN p[1] ELSE F[NextCall(k, lib, p)]
  <2> HIDE DEF X
  <2> QED BY <1>5
<1>7. Collects(k, lib, F)
  BY <1>6, Zenon DEF Collects, Collecting
<1> QED BY <1>1, <1>7, Zenon

(* The features that calls are made for and taken.                         *)
Wants(w) == {w[i].f : i \in {j \in DOMAIN w : w[j].taken}}
(* What is collected because of a feature, and for results: for PBF, that  *)
(* is what is needed and wanted, but relations of XML bring all members.   *)
Takes(k, lib, f) ==
  CASE f[1] = 0 -> {}
    [] f[1] = 1 -> NodesOfWay(lib, f)
    [] f[1] = 2 -> {m.f : m \in {n \in ToSet(lib[f].members) :
                                    CompleteRelation(k, lib, f) \/ AcceptMember(k, n.f)}}
Taken(k, lib, results) ==
  LET closed == {s \in SUBSET DOMAIN lib :
                    results \subseteq s /\ \A f \in s : Takes(k, lib, f) \subseteq s}
  IN  CHOOSE s \in closed : \A t \in closed : s \subseteq t

(* All that is taken because of the features of C is in C.                 *)
Closed(k, lib, C) == C \in SUBSET DOMAIN lib /\ \A f \in C : Takes(k, lib, f) \subseteq C

(* r is what is collected from p on: what there was and what is wanted,    *)
(* and what new features need, but nothing that is not needed.             *)
Good(k, lib, p, r) ==
  /\ r \in SUBSET DOMAIN lib /\ p[1] \subseteq r /\ Wants(p[2]) \subseteq r
  /\ \A f \in r : f \notin p[1] => Takes(k, lib, f) \subseteq r
  /\ \A C : Closed(k, lib, C) /\ p[1] \subseteq C /\ Wants(p[2]) \subseteq C => r \subseteq C

(* What is wanted by the first call, and by the others.                    *)
LEMMA WantsHead ==
  ASSUME NEW S, NEW w \in Seq(S), w # <<>>
  PROVE  Wants(w) = (IF Head(w).taken THEN {Head(w).f} ELSE {}) \union Wants(Tail(w))
<1>1. /\ Len(w) \in Nat \ {0} /\ DOMAIN w = 1..Len(w) /\ Head(w) = w[1] /\ Tail(w) \in Seq(S)
      /\ Len(Tail(w)) = Len(w) - 1 /\ \A i \in 1..Len(w) - 1 : Tail(w)[i] = w[i + 1]
  BY HeadTailProperties, EmptySeq, LenProperties
<1>t. PICK t : Is(t, Tail(w))
  BY DEF Is
<1>2. DOMAIN t = 1..Len(w) - 1 /\ \A i \in 1..Len(w) - 1 : t[i] = w[i + 1]
  <2>1. DOMAIN Tail(w) = 1..Len(w) - 1
    BY <1>1, LenProperties
  <2> QED BY <1>1, <1>t, <2>1, Zenon DEF Is
<1>3. ASSUME NEW f \in Wants(w) PROVE f \in (IF w[1].taken THEN {w[1].f} ELSE {}) \union Wants(t)
  <2>1. PICK i \in 1..Len(w) : w[i].taken /\ f = w[i].f
    BY <1>1, <1>3 DEF Wants
  <2>2. CASE i = 1
    BY <2>1, <2>2
  <2>3. CASE i # 1
    <3>1. i - 1 \in 1..Len(w) - 1 /\ (i - 1) + 1 = i
      BY <1>1, <2>3
    <3>2. i - 1 \in DOMAIN t /\ t[i - 1] = w[i]
      BY <1>2, <3>1
    <3> QED BY <2>1, <3>2, Zenon DEF Wants
  <2> QED BY <2>2, <2>3
<1>4. ASSUME NEW f \in Wants(t) PROVE f \in Wants(w)
  <2>1. PICK i \in 1..Len(w) - 1 : t[i].taken /\ f = t[i].f
    BY <1>2, <1>4 DEF Wants
  <2>2. i + 1 \in DOMAIN w /\ t[i] = w[i + 1]
    BY <1>1, <1>2
  <2> QED BY <2>1, <2>2, Zenon DEF Wants
<1>5. w[1].taken => w[1].f \in Wants(w)
  <2>1. 1 \in DOMAIN w
    BY <1>1
  <2> QED BY <2>1, Zenon DEF Wants
<1>6. Wants(w) = (IF w[1].taken THEN {w[1].f} ELSE {}) \union Wants(t)
  <2> PICK a, b : Is(a, Wants(w)) /\ Is(b, Wants(t))
    BY DEF Is
  <2>1. /\ \A f \in a : f \in (IF w[1].taken THEN {w[1].f} ELSE {}) \union b
        /\ \A f \in b : f \in a
        /\ w[1].taken => w[1].f \in a
    BY <1>3, <1>4, <1>5, Zenon DEF Is
  <2>2. a = (IF w[1].taken THEN {w[1].f} ELSE {}) \union b
    BY <2>1
  <2> QED BY <2>2, Zenon DEF Is
<1> QED BY <1>1, <1>6, <1>t, Zenon DEF Is

(* ... and by calls that are made one after the other.                     *)
LEMMA WantsConcat ==
  ASSUME NEW S, NEW v \in Seq(S), NEW w \in Seq(S)
  PROVE  Wants(v \o w) = Wants(v) \union Wants(w)
<1>1. \A u \in Seq(S) : Wants(u) = {x.f : x \in {y \in Elems(u) : y.taken}}
  <2> TAKE u \in Seq(S)
  <2>1. ASSUME NEW f \in Wants(u) PROVE f \in {x.f : x \in {y \in Elems(u) : y.taken}}
    <3>1. PICK i \in DOMAIN u : u[i].taken /\ f = u[i].f
      BY <2>1 DEF Wants
    <3>2. u[i] \in Elems(u)
      BY DEF Elems
    <3> QED BY <3>1, <3>2
  <2>2. ASSUME NEW f \in {x.f : x \in {y \in Elems(u) : y.taken}} PROVE f \in Wants(u)
    <3>1. PICK x \in Elems(u) : x.taken /\ f = x.f
      BY <2>2
    <3>2. PICK i \in DOMAIN u : x = u[i]
      BY DEF Elems
    <3> QED BY <3>1, <3>2, Zenon DEF Wants
  <2> QED BY <2>1, <2>2
<1>2. v \o w \in Seq(S) /\ Elems(v \o w) = Elems(v) \union Elems(w)
  BY ConcatElems
<1> PICK z \in Seq(S) : z = v \o w
  BY <1>2
<1>3. Wants(z) = {x.f : x \in {y \in Elems(v) \union Elems(w) : y.taken}}
  BY <1>1, <1>2
<1>4. Wants(v) = {x.f : x \in {y \in Elems(v) : y.taken}} /\ Wants(w) = {x.f : x \in {y \in Elems(w) : y.taken}}
  BY <1>1
<1>5. Wants(z) = Wants(v) \union Wants(w)
  BY <1>3, <1>4
<1> QED BY <1>5

(* What is taken because of a feature of each type.                        *)
LEMMA TakesForms ==
  ASSUME NEW k, NEW lib, NEW f
  PROVE  /\ f[1] = 0 => Takes(k, lib, f) = {}
         /\ f[1] = 1 => Takes(k, lib, f) = NodesOfWay(lib, f)
         /\ f[1] = 2 => Takes(k, lib, f) =
                {m.f : m \in {n \in ToSet(lib[f].members) : CompleteRelation(k, lib, f) \/ AcceptMember(k, n.f)}}
<1> DEFINE A == {m.f : m \in {n \in ToSet(lib[f].members) : CompleteRelation(k, lib, f) \/ AcceptMember(k, n.f)}}
<1> PICK a, b : Is(a, A) /\ Is(b, NodesOfWay(lib, f))
  BY DEF Is
<1>1. Takes(k, lib, f) = CASE f[1] = 0 -> {} [] f[1] = 1 -> b [] f[1] = 2 -> a
  BY Zenon DEF Takes, Is
<1>2. (f[1] = 0 => Takes(k, lib, f) = {}) /\ (f[1] = 1 => Takes(k, lib, f) = b) /\ (f[1] = 2 => Takes(k, lib, f) = a)
  <2> PICK y, n : Is(y, f[1]) /\ Is(n, Takes(k, lib, f))
    BY DEF Is
  <2>1. n = CASE y = 0 -> {} [] y = 1 -> b [] y = 2 -> a
    BY <1>1, Zenon DEF Is
  <2>2. (y = 0 => n = {}) /\ (y = 1 => n = b) /\ (y = 2 => n = a)
    BY <2>1
  <2> QED BY <2>2, Zenon DEF Is
<1> QED BY <1>2, Zenon DEF Is

(* The calls for the members of a relation are those that it takes.        *)
LEMMA WantsOfCalls ==
  ASSUME NEW k, NEW lib, IsLibrary(lib), NEW s \in SUBSET DOMAIN lib, NEW x \in Calls(lib),
         x.taken, x.f \notin s, x.f[1] = 2
  PROVE  Wants(CallsFor(k, lib, s, x)) = Takes(k, lib, x.f)
<1> PICK ms : Is(ms, lib[x.f].members)
  BY DEF Is
<1> DEFINE t(m) == CompleteRelation(k, lib, x.f) \/ AcceptMember(k, m)
<1>1. CallsFor(k, lib, s, x) = [i \in DOMAIN ms |-> [f |-> ms[i].f, taken |-> t(ms[i].f)]]
  BY Zenon DEF CallsFor, Is
<1>2. Takes(k, lib, x.f) = {m.f : m \in {n \in ToSet(ms) : t(n.f)}}
  <2>1. Takes(k, lib, x.f) = {m.f : m \in {n \in ToSet(lib[x.f].members) :
                                CompleteRelation(k, lib, x.f) \/ AcceptMember(k, n.f)}}
    BY TakesForms
  <2> QED BY <2>1, Zenon DEF Is
<1>3. ToSet(ms) = {ms[i] : i \in DOMAIN ms}
  BY DEF ToSet
<1> HIDE DEF t
<1> PICK c : Is(c, CallsFor(k, lib, s, x))
  BY DEF Is
<1>4. DOMAIN c = DOMAIN ms /\ \A i \in DOMAIN ms : c[i].f = ms[i].f /\ c[i].taken = t(ms[i].f)
  <2>1. c = [i \in DOMAIN ms |-> [f |-> ms[i].f, taken |-> t(ms[i].f)]]
    BY <1>1, Zenon DEF Is
  <2> QED BY <2>1
<1>5. ASSUME NEW f \in Wants(c) PROVE f \in Takes(k, lib, x.f)
  <2>1. PICK i \in DOMAIN ms : c[i].taken /\ f = c[i].f
    BY <1>4, <1>5 DEF Wants
  <2>2. t(ms[i].f) /\ f = ms[i].f
    BY <1>4, <2>1
  <2> QED BY <1>2, <1>3, <2>2
<1>6. ASSUME NEW f \in Takes(k, lib, x.f) PROVE f \in Wants(c)
  <2>1. PICK i \in DOMAIN ms : t(ms[i].f) /\ f = ms[i].f
    BY <1>2, <1>3, <1>6
  <2>2. c[i].taken /\ f = c[i].f /\ i \in DOMAIN c
    BY <1>4, <2>1
  <2> QED BY <2>2, Zenon DEF Wants
<1> QED BY <1>5, <1>6, Zenon DEF Is

(* When no calls are left, ...                                             *)
LEMMA GoodEnds ==
  ASSUME NEW k, NEW lib, NEW p \in Collecting(lib), p[2] = <<>>
  PROVE  Good(k, lib, p, p[1])
<1>1. Wants(<<>>) = {}
  <2>1. DOMAIN <<>> = {}
    OBVIOUS
  <2> QED BY <2>1 DEF Wants
<1>2. p[1] \in SUBSET DOMAIN lib
  BY DEF Collecting
<1> QED BY <1>1, <1>2 DEF Good

(* A call that is made: what it inserts, and the calls that it brings.     *)
LEMMA InsertedTakes ==
  ASSUME NEW k, NEW lib, IsLibrary(lib), NEW s \in SUBSET DOMAIN lib, NEW x \in Calls(lib)
  PROVE  /\ x.taken => x.f \in Inserted(lib, s, x)
         /\ \A f \in Inserted(lib, s, x) : f \notin s =>
                Takes(k, lib, f) \subseteq Inserted(lib, s, x) \union Wants(CallsFor(k, lib, s, x))
         /\ \A C : Closed(k, lib, C) /\ s \subseteq C /\ (x.taken => x.f \in C) =>
                Inserted(lib, s, x) \union Wants(CallsFor(k, lib, s, x)) \subseteq C
<1>1. x.f \in DOMAIN lib /\ x.taken \in BOOLEAN /\ x.f[1] \in 0..2
  <2>1. x.f \in DOMAIN lib /\ x.taken \in BOOLEAN
    BY DEF Calls
  <2> QED BY <2>1 DEF IsLibrary, Names
<1> PICK i, c : Is(i, Inserted(lib, s, x)) /\ Is(c, Wants(CallsFor(k, lib, s, x)))
  BY DEF Is
<1> PICK n : Is(n, NodesOfWay(lib, x.f))
  BY DEF Is
<1>2. i = IF ~x.taken THEN s ELSE s \union {x.f} \union (IF x.f[1] = 1 /\ x.f \notin s THEN n ELSE {})
  BY Zenon DEF Inserted, Is
<1>3. x.f[1] = 1 => \A f \in n : f[1] = 0
  <2>1. ASSUME x.f[1] = 1 PROVE \A j \in DOMAIN lib[x.f].members : lib[x.f].members[j].f[1] = 0
    BY <1>1, <2>1 DEF IsLibrary
  <2> QED BY <2>1 DEF NodesOfWay, Is
<1>4. ~(x.taken /\ x.f[1] = 2 /\ x.f \notin s) => c = {}
  <2>1. ASSUME ~(x.taken /\ x.f[1] = 2 /\ x.f \notin s) PROVE CallsFor(k, lib, s, x) = <<>>
    BY <2>1, Zenon DEF CallsFor
  <2>2. Wants(<<>>) = {}
    <3>1. DOMAIN <<>> = {}
      OBVIOUS
    <3> QED BY <3>1 DEF Wants
  <2> QED BY <2>1, <2>2, Zenon DEF Is
<1>5. x.taken /\ x.f[1] = 2 /\ x.f \notin s => c = Takes(k, lib, x.f)
  BY WantsOfCalls, Zenon DEF Is
<1>6. x.taken /\ x.f \notin s => Takes(k, lib, x.f) \subseteq i \union c
  <2>1. SUFFICES ASSUME x.taken, x.f \notin s PROVE Takes(k, lib, x.f) \subseteq i \union c
    OBVIOUS
  <2>2. CASE x.f[1] = 0
    BY <2>2, TakesForms
  <2>3. CASE x.f[1] = 1
    <3>1. Takes(k, lib, x.f) = n
      BY <2>3, TakesForms DEF Is
    <3> QED BY <1>2, <2>1, <2>3, <3>1
  <2>4. CASE x.f[1] = 2
    BY <1>5, <2>1, <2>4
  <2> QED BY <1>1, <2>2, <2>3, <2>4
<1>7. ASSUME NEW f \in i, f \notin s PROVE Takes(k, lib, f) \subseteq i \union c
  <2>1. CASE f = x.f
    <3>1. x.taken
      BY <1>2, <1>7
    <3> QED BY <1>6, <1>7, <2>1, <3>1
  <2>2. CASE f # x.f
    <3>1. x.f[1] = 1 /\ f \in n
      BY <1>2, <1>7, <2>2
    <3>2. f[1] = 0
      BY <1>3, <3>1
    <3> QED BY <3>2, TakesForms
  <2> QED BY <2>1, <2>2
<1>8. ASSUME NEW C, Closed(k, lib, C), s \subseteq C, x.taken => x.f \in C PROVE i \union c \subseteq C
  <2>1. x.taken => Takes(k, lib, x.f) \subseteq C
    BY <1>8, Zenon DEF Closed
  <2>2. x.taken /\ x.f[1] = 1 => n \subseteq C
    BY <2>1, TakesForms DEF Is
  <2>3. i \subseteq C
    BY <1>2, <1>8, <2>2
  <2>4. c \subseteq C
    BY <1>4, <1>5, <2>1
  <2> QED BY <2>3, <2>4
<1>9. x.taken => x.f \in i
  BY <1>2
<1> QED BY <1>7, <1>8, <1>9, Zenon DEF Is

(* ... and when one more call is made.                                     *)
LEMMA GoodStep ==
  ASSUME NEW k, NEW lib, IsLibrary(lib), NEW p \in Collecting(lib), p[2] # <<>>, NEW r,
         Good(k, lib, NextCall(k, lib, p), r)
  PROVE  Good(k, lib, p, r)
<1>1. p[1] \in SUBSET DOMAIN lib /\ p[2] \in Seq(Calls(lib))
  BY DEF Collecting
<1> PICK s, w, x, t : Is(s, p[1]) /\ Is(w, p[2]) /\ Is(x, Head(p[2])) /\ Is(t, Tail(p[2]))
  BY DEF Is
<1>2. s \in SUBSET DOMAIN lib /\ w \in Seq(Calls(lib)) /\ x \in Calls(lib) /\ t \in Seq(Calls(lib))
  <2>1. Head(p[2]) \in Calls(lib) /\ Tail(p[2]) \in Seq(Calls(lib))
    BY <1>1
  <2> QED BY <1>1, <2>1, Zenon DEF Is
<1>3. Wants(w) = (IF x.taken THEN {x.f} ELSE {}) \union Wants(t)
  <2>1. Wants(p[2]) = (IF Head(p[2]).taken THEN {Head(p[2]).f} ELSE {}) \union Wants(Tail(p[2]))
    BY <1>1, WantsHead
  <2> QED BY <2>1, Zenon DEF Is
<1> PICK i, c : Is(i, Inserted(lib, s, x)) /\ Is(c, CallsFor(k, lib, s, x))
  BY DEF Is
<1>4. i \in SUBSET DOMAIN lib /\ s \subseteq i /\ c \in Seq(Calls(lib))
  BY <1>2, CallTypes DEF Is
<1>5. /\ x.taken => x.f \in i
      /\ \A f \in i : f \notin s => Takes(k, lib, f) \subseteq i \union Wants(c)
      /\ \A C : Closed(k, lib, C) /\ s \subseteq C /\ (x.taken => x.f \in C) => i \union Wants(c) \subseteq C
  <2>1. /\ x.taken => x.f \in Inserted(lib, s, x)
        /\ \A f \in Inserted(lib, s, x) : f \notin s =>
                Takes(k, lib, f) \subseteq Inserted(lib, s, x) \union Wants(CallsFor(k, lib, s, x))
        /\ \A C : Closed(k, lib, C) /\ s \subseteq C /\ (x.taken => x.f \in C) =>
                Inserted(lib, s, x) \union Wants(CallsFor(k, lib, s, x)) \subseteq C
    BY <1>2, InsertedTakes
  <2> QED BY <2>1, Zenon DEF Is
<1>6. Wants(c \o t) = Wants(c) \union Wants(t)
  BY <1>2, <1>4, WantsConcat
<1>7. Good(k, lib, <<i, c \o t>>, r)
  BY Zenon DEF NextCall, Is
<1> PICK wc, wt, ww : Is(wc, Wants(c)) /\ Is(wt, Wants(t)) /\ Is(ww, Wants(w))
  BY DEF Is
<1>8. /\ r \in SUBSET DOMAIN lib /\ i \subseteq r /\ wc \union wt \subseteq r
      /\ \A f \in r : f \notin i => Takes(k, lib, f) \subseteq r
      /\ \A C : Closed(k, lib, C) /\ i \subseteq C /\ wc \union wt \subseteq C => r \subseteq C
  <2>1. <<i, c \o t>>[1] = i /\ <<i, c \o t>>[2] = c \o t
    OBVIOUS
  <2>2. Wants(c \o t) = wc \union wt
    BY <1>6, Zenon DEF Is
  <2> QED BY <1>7, <2>1, <2>2, Zenon DEF Good
<1>9. ww = (IF x.taken THEN {x.f} ELSE {}) \union wt
  BY <1>3, Zenon DEF Is
<1>10. \A f \in r : f \notin s => Takes(k, lib, f) \subseteq r
  <2> SUFFICES ASSUME NEW f \in r, f \notin s PROVE Takes(k, lib, f) \subseteq r
    OBVIOUS
  <2>1. CASE f \in i
    <3>1. Takes(k, lib, f) \subseteq i \union wc
      BY <1>5, <2>1, Zenon DEF Is
    <3> QED BY <1>8, <3>1
  <2>2. CASE f \notin i
    BY <1>8, <2>2
  <2> QED BY <2>1, <2>2
<1>11. ASSUME NEW C, Closed(k, lib, C), s \subseteq C, ww \subseteq C PROVE r \subseteq C
  <2>1. x.taken => x.f \in C
    BY <1>9, <1>11
  <2>2. i \union wc \subseteq C
    BY <1>5, <1>11, <2>1, Zenon DEF Is
  <2>3. i \subseteq C /\ wc \union wt \subseteq C
    BY <1>9, <1>11, <2>2
  <2> QED BY <1>8, <1>11, <2>3, Zenon
<1>12. r \in SUBSET DOMAIN lib /\ s \subseteq r /\ ww \subseteq r
  BY <1>4, <1>5, <1>8, <1>9
<1> QED BY <1>10, <1>11, <1>12, Zenon DEF Good, Is

(* How many features are not collected yet: never more after a call, and   *)
(* fewer if the call brings others.                                        *)
Missing(lib, p) == Cardinality(DOMAIN lib \ p[1])
(* Fewer are missing after a feature was inserted.                         *)
LEMMA MissingLess ==
  ASSUME NEW k, NEW lib, IsLibrary(lib), NEW p \in Collecting(lib), p[2] # <<>>
  PROVE  /\ Missing(lib, p) \in Nat /\ Missing(lib, NextCall(k, lib, p)) \in Nat
         /\ Len(NextCall(k, lib, p)[2]) \in Nat /\ Len(p[2]) \in Nat
         /\ \/ Missing(lib, NextCall(k, lib, p)) < Missing(lib, p)
            \/ Missing(lib, NextCall(k, lib, p)) <= Missing(lib, p) /\ Len(NextCall(k, lib, p)[2]) = Len(p[2]) - 1
<1>1. p[1] \in SUBSET DOMAIN lib /\ p[2] \in Seq(Calls(lib)) /\ IsFiniteSet(DOMAIN lib)
  BY DEF Collecting, IsLibrary
<1> PICK s, w, x, t : Is(s, p[1]) /\ Is(w, p[2]) /\ Is(x, Head(p[2])) /\ Is(t, Tail(p[2]))
  BY DEF Is
<1>2. s \in SUBSET DOMAIN lib /\ w \in Seq(Calls(lib)) /\ x \in Calls(lib) /\ t \in Seq(Calls(lib))
      /\ Len(t) = Len(w) - 1 /\ Len(w) \in Nat /\ Len(t) \in Nat
  <2>1. Head(p[2]) \in Calls(lib) /\ Tail(p[2]) \in Seq(Calls(lib)) /\ Len(Tail(p[2])) = Len(p[2]) - 1
        /\ Len(p[2]) \in Nat /\ Len(Tail(p[2])) \in Nat
    BY <1>1
  <2> QED BY <1>1, <2>1, Zenon DEF Is
<1> PICK i, c : Is(i, Inserted(lib, s, x)) /\ Is(c, CallsFor(k, lib, s, x))
  BY DEF Is
<1>3. i \in SUBSET DOMAIN lib /\ s \subseteq i /\ c \in Seq(Calls(lib))
  BY <1>2, CallTypes DEF Is
<1>4. NextCall(k, lib, p) = <<i, c \o t>>
  BY Zenon DEF NextCall, Is
<1>5. NextCall(k, lib, p)[1] = i /\ NextCall(k, lib, p)[2] = c \o t
  BY <1>4
<1> DEFINE D == DOMAIN lib \ s
           E == DOMAIN lib \ i
<1>6. IsFiniteSet(D) /\ IsFiniteSet(E) /\ E \subseteq D /\ Cardinality(D) \in Nat /\ Cardinality(E) \in Nat
      /\ Cardinality(E) <= Cardinality(D)
  <2>1. D \subseteq DOMAIN lib /\ E \subseteq D
    BY <1>3
  <2> QED BY <1>1, <2>1, FS_Subset, FS_CardinalityType
<1>7. Missing(lib, p) = Cardinality(D) /\ Missing(lib, NextCall(k, lib, p)) = Cardinality(E)
  BY <1>5, Zenon DEF Missing, Is
<1>8. CASE x.taken /\ x.f[1] = 2 /\ x.f \notin s
  <2>1. x.f \in D /\ x.f \notin E
    <3>1. x.f \in DOMAIN lib
      BY <1>2 DEF Calls
    <3>2. i = s \union {x.f} \union (IF x.f[1] = 1 /\ x.f \notin s THEN NodesOfWay(lib, x.f) ELSE {})
      BY <1>8, Zenon DEF Inserted, Is
    <3>3. x.f \in i
      <4> HIDE DEF D, E
      <4> QED BY <3>2
    <3> QED BY <1>8, <3>1, <3>3
  <2>2. Cardinality(E) # Cardinality(D)
    BY <1>6, <2>1, FS_Subset
  <2>3. c \o t \in Seq(Calls(lib))
    BY <1>2, <1>3, ConcatProperties
  <2> HIDE DEF D, E
  <2>4. Cardinality(E) < Cardinality(D)
    BY <1>6, <2>2
  <2>5. Len(c \o t) \in Nat
    BY <2>3, LenProperties
  <2> QED BY <1>2, <1>5, <1>6, <1>7, <2>4, <2>5, Zenon DEF Is
<1>9. CASE ~(x.taken /\ x.f[1] = 2 /\ x.f \notin s)
  <2>1. c = <<>>
    BY <1>9, Zenon DEF CallsFor, Is
  <2>2. c \o t = t
    BY <1>2, <2>1, ConcatEmptySeq
  <2> HIDE DEF D, E
  <2> QED BY <1>2, <1>5, <1>6, <1>7, <2>2, Zenon DEF Is
<1> QED BY <1>8, <1>9

(* Induction on both.                                                      *)
LEMMA CollectsGood ==
  ASSUME NEW k, NEW lib, IsLibrary(lib), NEW F, Collects(k, lib, F), NEW p \in Collecting(lib)
  PROVE  Good(k, lib, p, F[p])
<1> DEFINE P == {n \in Nat : \A x \in Collecting(lib) : Missing(lib, x) < n => Good(k, lib, x, F[x])}
<1>0. \A x \in Collecting(lib) : Missing(lib, x) \in Nat
  <2> TAKE x \in Collecting(lib)
  <2>1. DOMAIN lib \ x[1] \subseteq DOMAIN lib /\ IsFiniteSet(DOMAIN lib)
    BY DEF IsLibrary
  <2> QED BY <2>1, FS_Subset, FS_CardinalityType DEF Missing
<1>1. 0 \in P
  BY <1>0
<1>2. ASSUME NEW n \in Nat, n \in P PROVE n + 1 \in P
  <2> DEFINE Q == {m \in Nat : \A x \in Collecting(lib) :
                      Missing(lib, x) < n + 1 /\ Len(x[2]) = m => Good(k, lib, x, F[x])}
  <2>1. 0 \in Q
    <3> SUFFICES ASSUME NEW x \in Collecting(lib), Len(x[2]) = 0 PROVE Good(k, lib, x, F[x])
      OBVIOUS
    <3>1. x[2] \in Seq(Calls(lib))
      BY DEF Collecting
    <3>2. x[2] = <<>>
      BY <3>1, EmptySeq
    <3>3. F[x] = x[1]
      BY <3>2, Zenon DEF Collects
    <3>4. Good(k, lib, x, x[1])
      BY <3>2, GoodEnds
    <3> QED BY <3>3, <3>4, Zenon
  <2>2. ASSUME NEW m \in Nat, m \in Q PROVE m + 1 \in Q
    <3> SUFFICES ASSUME NEW x \in Collecting(lib), Missing(lib, x) < n + 1, Len(x[2]) = m + 1 PROVE Good(k, lib, x, F[x])
      OBVIOUS
    <3>1. x[2] # <<>>
      <4>1. Len(<<>>) = 0
        OBVIOUS
      <4> QED BY <4>1
    <3> PICK y : Is(y, NextCall(k, lib, x))
      BY DEF Is
    <3>2. y \in Collecting(lib)
      BY <3>1, NextCallType DEF Is
    <3>3. /\ Missing(lib, x) \in Nat /\ Missing(lib, y) \in Nat /\ Len(y[2]) \in Nat
          /\ \/ Missing(lib, y) < Missing(lib, x)
             \/ Missing(lib, y) <= Missing(lib, x) /\ Len(y[2]) = Len(x[2]) - 1
      BY <3>1, MissingLess DEF Is
    <3>4. Good(k, lib, y, F[y])
      <4>1. CASE Missing(lib, y) < Missing(lib, x)
        <5>1. Missing(lib, y) < n
          BY <3>3, <4>1
        <5> QED BY <1>2, <3>2, <5>1
      <4>2. CASE Missing(lib, y) <= Missing(lib, x) /\ Len(y[2]) = Len(x[2]) - 1
        <5>1. Missing(lib, y) < n + 1 /\ Len(y[2]) = m
          BY <3>3, <4>2
        <5> QED BY <2>2, <3>2, <5>1
      <4> QED BY <3>3, <4>1, <4>2
    <3>5. F[x] = F[y]
      BY <3>1, Zenon DEF Collects, Is
    <3>6. Good(k, lib, x, F[y])
      BY <3>1, <3>4, GoodStep DEF Is
    <3> QED BY <3>5, <3>6, Zenon
  <2>3. Nat \subseteq Q
    <3> HIDE DEF Q
    <3> QED BY <2>1, <2>2, NatSetInduction
  <2>4. ASSUME NEW x \in Collecting(lib), Missing(lib, x) < n + 1 PROVE Good(k, lib, x, F[x])
    <3>1. Len(x[2]) \in Nat
      BY LenProperties DEF Collecting
    <3> QED BY <2>3, <2>4, <3>1
  <2> QED BY <2>4
<1>3. Nat \subseteq P
  <2> HIDE DEF P
  <2> QED BY <1>1, <1>2, NatSetInduction
<1>4. Missing(lib, p) + 1 \in Nat /\ Missing(lib, p) < Missing(lib, p) + 1
  BY <1>0
<1> QED BY <1>3, <1>4

(* What is collected for the results of a batch.                           *)
LEMMA AddFeaturesGood ==
  ASSUME NEW k, NEW lib, IsLibrary(lib), NEW s \in SUBSET DOMAIN lib, NEW w \in Seq(Calls(lib))
  PROVE  Good(k, lib, <<s, w>>, AddFeatures(s, k, lib, w))
<1>1. PICK F : Collects(k, lib, F) /\ \A a, b : AddFeatures(a, k, lib, b) = F[<<a, b>>]
  BY AddFeaturesIs
<1>2. <<s, w>> \in Collecting(lib)
  BY DEF Collecting
<1>3. Good(k, lib, <<s, w>>, F[<<s, w>>])
  BY <1>1, <1>2, CollectsGood
<1> QED BY <1>1, <1>3, Zenon

(* The features that are collected for the results R: they are closed, and *)
(* there are no others than these need.                                    *)
Collected(k, R, s) ==
  /\ Closed(k, k.lib, s) /\ R \subseteq s
  /\ \A C : Closed(k, k.lib, C) /\ R \subseteq C => s \subseteq C

(* Nothing is collected at first, ...                                      *)
LEMMA CollectedFirst ==
  ASSUME NEW k
  PROVE  Collected(k, {}, {})
BY DEF Collected, Closed

(* ... and then with each batch.                                           *)
LEMMA CollectedMore ==
  ASSUME NEW k, IsLibrary(k.lib), NEW R, NEW s, Collected(k, R, s), NEW results \in Seq(DOMAIN k.lib)
  PROVE  Collected(k, R \union Elems(results), AddResults(s, k, results))
<1> DEFINE w == [i \in DOMAIN results |-> [f |-> results[i], taken |-> TRUE]]
<1> PICK lib : Is(lib, k.lib)
  BY DEF Is
<1>l. IsLibrary(lib) /\ results \in Seq(DOMAIN lib)
  BY Zenon DEF Is
<1>c. /\ Closed(k, lib, s) /\ R \subseteq s
      /\ \A C : Closed(k, lib, C) /\ R \subseteq C => s \subseteq C
  BY Zenon DEF Collected, Is
<1>1. w \in Seq(Calls(lib)) /\ DOMAIN w = DOMAIN results
  <2>1. DOMAIN results = 1..Len(results) /\ Len(results) \in Nat /\ \A i \in 1..Len(results) : results[i] \in DOMAIN lib
    BY <1>l, LenProperties, ElementOfSeq
  <2>2. w = [i \in 1..Len(results) |-> [f |-> results[i], taken |-> TRUE]]
    BY <2>1
  <2>3. [i \in 1..Len(results) |-> [f |-> results[i], taken |-> TRUE]] \in [1..Len(results) -> Calls(lib)]
    BY <2>1 DEF Calls
  <2>4. w \in Seq(Calls(lib))
    BY <2>1, <2>2, <2>3, SeqDef
  <2> QED BY <2>4
<1>2. Wants(w) = Elems(results)
  BY <1>1 DEF Wants, Elems
<1>3. AddResults(s, k, results) = AddFeatures(s, k, lib, w)
  BY Zenon DEF AddResults, Is
<1> HIDE DEF w
<1> PICK r : Is(r, AddFeatures(s, k, lib, w))
  BY DEF Is
<1>4. Good(k, lib, <<s, w>>, r)
  <2>1. s \in SUBSET DOMAIN lib
    BY <1>c, Zenon DEF Closed
  <2> QED BY <1>1, <1>l, <2>1, AddFeaturesGood DEF Is
<1>5. /\ r \in SUBSET DOMAIN lib /\ s \subseteq r /\ Elems(results) \subseteq r
      /\ \A f \in r : f \notin s => Takes(k, lib, f) \subseteq r
      /\ \A C : Closed(k, lib, C) /\ s \subseteq C /\ Elems(results) \subseteq C => r \subseteq C
  <2>1. <<s, w>>[1] = s /\ <<s, w>>[2] = w
    OBVIOUS
  <2> QED BY <1>2, <1>4, <2>1, Zenon DEF Good
<1>6. Closed(k, lib, r)
  <2>1. \A f \in s : Takes(k, lib, f) \subseteq s
    BY <1>c, Zenon DEF Closed
  <2>2. \A f \in r : Takes(k, lib, f) \subseteq r
    BY <1>5, <2>1
  <2> QED BY <1>5, <2>2, Zenon DEF Closed
<1>7. ASSUME NEW C, Closed(k, lib, C), R \union Elems(results) \subseteq C PROVE r \subseteq C
  <2>1. R \subseteq C /\ Elems(results) \subseteq C
    BY <1>7
  <2> QED BY <1>c, <1>5, <1>7, <2>1, Zenon
<1>8. R \union Elems(results) \subseteq r
  BY <1>c, <1>5
<1> QED BY <1>3, <1>6, <1>7, <1>8, Zenon DEF Collected, Is

(* They are what is taken for the results.                                 *)
LEMMA CollectedTaken ==
  ASSUME NEW k, NEW R, NEW s, Collected(k, R, s)
  PROVE  Taken(k, k.lib, R) = s
<1> DEFINE closed == {t \in SUBSET DOMAIN k.lib : R \subseteq t /\ \A f \in t : Takes(k, k.lib, f) \subseteq t}
<1>1. s \in closed
  BY DEF Collected, Closed
<1>2. \A t \in closed : s \subseteq t
  BY DEF Collected, Closed
<1>3. Taken(k, k.lib, R) = CHOOSE t \in closed : \A u \in closed : t \subseteq u
  BY Zenon DEF Taken
<1> HIDE DEF closed
<1> QED BY <1>1, <1>2, <1>3

-----------------------------------------------------------------------------
(* The strings of a block                                                  *)

(* A block with these strings, their numbers and their count; the rest is  *)
(* as in e.                                                                *)
Coded(e, ss, ix, c) ==
  [group |-> e.group, strings |-> ss, index |-> ix, count |-> c, feats |-> e.feats,
   prevId |-> e.prevId, prevAt |-> e.prevAt, ids |-> e.ids, lats |-> e.lats, tags |-> e.tags]

(* Its fields.                                                             *)
LEMMA CodedFields ==
  ASSUME NEW e, NEW ss, NEW ix, NEW c, NEW d, d = Coded(e, ss, ix, c)
  PROVE  /\ d.group = e.group /\ d.strings = ss /\ d.index = ix /\ d.count = c /\ d.feats = e.feats
         /\ d.prevId = e.prevId /\ d.prevAt = e.prevAt /\ d.ids = e.ids /\ d.lats = e.lats /\ d.tags = e.tags
BY DEF Coded

(* ... and one whose strings change.                                       *)
Renumbered(d, ix) == [d EXCEPT !.index = ix]
Recoded(d, ss, ix, c) == [d EXCEPT !.strings = ss, !.index = ix, !.count = c]
(* Blocks are written that way.                                            *)
LEMMA CodedExcept ==
  ASSUME NEW e, NEW ss, NEW ix, NEW c, NEW d, d = Coded(e, ss, ix, c), NEW ss2, NEW ix2, NEW c2
  PROVE  Renumbered(d, ix2) = Coded(e, ss, ix2, c) /\ Recoded(d, ss2, ix2, c2) = Coded(e, ss2, ix2, c2)
<1>1. [d EXCEPT !.index = ix2] = Coded(e, ss, ix2, c)
  BY DEF Coded
<1>2. [d EXCEPT !.strings = ss2] = Coded(e, ss2, ix, c)
  BY DEF Coded
<1>3. [Coded(e, ss2, ix, c) EXCEPT !.index = ix2] = Coded(e, ss2, ix2, c)
  BY DEF Coded
<1>4. [Coded(e, ss2, ix2, c) EXCEPT !.count = c2] = Coded(e, ss2, ix2, c2)
  BY DEF Coded
<1>5. [d EXCEPT !.strings = ss2, !.index = ix2, !.count = c2]
        = [[[d EXCEPT !.strings = ss2] EXCEPT !.index = ix2] EXCEPT !.count = c2]
  OBVIOUS
<1> QED BY <1>1, <1>2, <1>3, <1>4, <1>5, Zenon DEF Renumbered, Recoded

(* The numbers of one are replaced.                                        *)
LEMMA CodedRenumbered ==
  ASSUME NEW e, NEW ss, NEW ix, NEW c, NEW d, d = Coded(e, ss, ix, c), NEW ix2
  PROVE  Renumbered(d, ix2) = Coded(e, ss, ix2, c)
BY DEF Coded, Renumbered

(* Each string has its place; one that is negative had no room.            *)
AnyText == STRING \union {EmptyString}
Indexes == UNION {[A -> Int] : A \in SUBSET AnyText}
Coding(ss, ix, c) ==
  /\ ss \in Seq(AnyText) /\ ix \in Indexes /\ c = Len(ss) /\ c \in Nat \ {0} /\ ss[1] = EmptyString
  /\ \A s \in DOMAIN ix : ix[s] < c /\ (ix[s] >= 0 => ss[ix[s] + 1] = s)

(* A string more has a number.                                             *)
LEMMA NumberedIs ==
  ASSUME NEW ix \in Indexes, NEW s \in AnyText, NEW n \in Int
  PROVE  /\ Numbered(ix, s, n) \in Indexes /\ DOMAIN Numbered(ix, s, n) = DOMAIN ix \union {s}
         /\ Numbered(ix, s, n)[s] = n
         /\ \A t \in DOMAIN ix : t # s => Numbered(ix, s, n)[t] = ix[t]
         /\ DOMAIN ix \subseteq AnyText /\ \A t \in DOMAIN ix : ix[t] \in Int
<1>1. PICK A \in SUBSET AnyText : ix \in [A -> Int]
  BY DEF Indexes
<1>2. DOMAIN ix = A /\ \A t \in A : ix[t] \in Int
  BY <1>1
<1> DEFINE B == A \union {s}
<1>3. Numbered(ix, s, n) = [t \in B |-> IF t = s THEN n ELSE ix[t]]
  BY <1>2, Zenon DEF Numbered
<1>4. [t \in B |-> IF t = s THEN n ELSE ix[t]] \in [B -> Int]
  BY <1>2
<1>5. B \in SUBSET AnyText
  OBVIOUS
<1>6. Numbered(ix, s, n) \in Indexes
  BY <1>3, <1>4, <1>5 DEF Indexes
<1> QED BY <1>2, <1>3, <1>6

(* A string is given the next number, or finds no room.                    *)
LEMMA CodingMore ==
  ASSUME NEW ss, NEW ix, NEW c, Coding(ss, ix, c), NEW s \in AnyText
  PROVE  /\ Coding(ss, Numbered(ix, s, -1), c)
         /\ Coding(Append(ss, s), Numbered(ix, s, c), c + 1)
         /\ Len(Append(ss, s)) = Len(ss) + 1 /\ \A n \in 1..Len(ss) : Append(ss, s)[n] = ss[n]
<1>1. ss \in Seq(AnyText) /\ ix \in Indexes /\ c = Len(ss) /\ c \in Nat \ {0} /\ ss[1] = EmptyString
      /\ \A t \in DOMAIN ix : ix[t] < c /\ (ix[t] >= 0 => ss[ix[t] + 1] = t)
  BY DEF Coding
<1> PICK a, b, u : Is(a, Numbered(ix, s, -1)) /\ Is(b, Numbered(ix, s, c)) /\ Is(u, Append(ss, s))
  BY DEF Is
<1>2. /\ a \in Indexes /\ DOMAIN a = DOMAIN ix \union {s} /\ a[s] = -1 /\ \A t \in DOMAIN ix : t # s => a[t] = ix[t]
      /\ \A t \in DOMAIN ix : ix[t] \in Int
  <2>1. -1 \in Int
    OBVIOUS
  <2>2. /\ Numbered(ix, s, -1) \in Indexes /\ DOMAIN Numbered(ix, s, -1) = DOMAIN ix \union {s}
        /\ Numbered(ix, s, -1)[s] = -1
        /\ \A t \in DOMAIN ix : t # s => Numbered(ix, s, -1)[t] = ix[t]
        /\ \A t \in DOMAIN ix : ix[t] \in Int
    BY <1>1, <2>1, NumberedIs, ZenonT(30)
  <2> QED BY <2>2, Zenon DEF Is
<1>3. b \in Indexes /\ DOMAIN b = DOMAIN ix \union {s} /\ b[s] = c /\ \A t \in DOMAIN ix : t # s => b[t] = ix[t]
  <2>1. c \in Int
    BY <1>1
  <2>2. /\ Numbered(ix, s, c) \in Indexes /\ DOMAIN Numbered(ix, s, c) = DOMAIN ix \union {s}
        /\ Numbered(ix, s, c)[s] = c
        /\ \A t \in DOMAIN ix : t # s => Numbered(ix, s, c)[t] = ix[t]
    BY <1>1, <2>1, NumberedIs, ZenonT(30)
  <2> QED BY <2>2, Zenon DEF Is
<1>4. /\ u \in Seq(AnyText) /\ Len(u) = c + 1 /\ u[c + 1] = s /\ \A n \in 1..c : u[n] = ss[n]
  BY <1>1, AppendProperties DEF Is
<1>5. Coding(ss, a, c)
  <2>1. ASSUME NEW t \in DOMAIN a PROVE a[t] < c /\ (a[t] >= 0 => ss[a[t] + 1] = t)
    <3>1. CASE t = s
      BY <1>1, <1>2, <3>1
    <3>2. CASE t # s
      BY <1>1, <1>2, <3>2
    <3> QED BY <3>1, <3>2
  <2> QED BY <1>1, <1>2, <2>1 DEF Coding
<1>6. Coding(u, b, c + 1)
  <2>1. ASSUME NEW t \in DOMAIN b PROVE b[t] < c + 1 /\ (b[t] >= 0 => u[b[t] + 1] = t)
    <3>1. CASE t = s
      BY <1>1, <1>3, <1>4, <3>1
    <3>2. CASE t # s
      <4>1. b[t] = ix[t] /\ ix[t] \in Int /\ ix[t] < c /\ (ix[t] >= 0 => ss[ix[t] + 1] = t)
        BY <1>1, <1>2, <1>3, <3>2
      <4>2. ix[t] >= 0 => ix[t] + 1 \in 1..c
        BY <1>1, <4>1
      <4> QED BY <1>1, <1>4, <4>1, <4>2
    <3> QED BY <3>1, <3>2
  <2>2. u[1] = EmptyString
    BY <1>1, <1>4
  <2>3. c + 1 \in Nat \ {0} /\ c + 1 = Len(u)
    BY <1>1, <1>4
  <2> QED BY <1>3, <1>4, <2>1, <2>2, <2>3, Zenon DEF Coding
<1>7. Len(u) = Len(ss) + 1 /\ \A n \in 1..Len(ss) : u[n] = ss[n]
  BY <1>1, <1>4
<1> QED BY <1>5, <1>6, <1>7, Zenon DEF Is

(* What is said of a block when the strings up to number i were added to   *)
(* those of e.                                                             *)
StringsKept(ss, tt) == Len(ss) <= Len(tt) /\ \A n \in 1..Len(ss) : tt[n] = ss[n]
AddedTo(e, strings, i, d) ==
  \E ss, ix, c : /\ d = Coded(e, ss, ix, c) /\ Coding(ss, ix, c) /\ StringsKept(e.strings, ss)
                 /\ ~Full(d) => \A j \in 1..i : strings[j] \in DOMAIN ix

(* A string is added, or has its number, or there is no room.              *)
LEMMA GetStringAdds ==
  ASSUME NEW e, e.strings \in Seq(AnyText), NEW strings, NEW i \in Nat, NEW d, AddedTo(e, strings, i, d), ~Full(d),
         strings[i + 1] \in AnyText
  PROVE  AddedTo(e, strings, i + 1, GetString(d, strings[i + 1]))
<1> PICK s : Is(s, strings[i + 1])
  BY DEF Is
<1>1. PICK ss, ix, c : /\ d = Coded(e, ss, ix, c) /\ Coding(ss, ix, c) /\ StringsKept(e.strings, ss)
                       /\ ~Full(d) => \A j \in 1..i : strings[j] \in DOMAIN ix
  BY DEF AddedTo
<1>a. d = Coded(e, ss, ix, c)
  BY <1>1
<1>2. s \in AnyText
  BY DEF Is
<1>3. d.strings = ss /\ d.index = ix /\ d.count = c
  BY <1>1, CodedFields
<1>4. \A j \in 1..i + 1 : j \in 1..i \/ j = i + 1
  OBVIOUS
<1>5. \A y \in Indexes : DOMAIN ix \subseteq DOMAIN y /\ s \in DOMAIN y => \A j \in 1..i + 1 : strings[j] \in DOMAIN y
  BY <1>1, <1>4 DEF Is
<1> PICK g : Is(g, GetString(d, s))
  BY DEF Is
<1>6. CASE Known(d, s)
  <2>1. g = d
    BY <1>6, Zenon DEF GetString, Is
  <2>2. s \in DOMAIN ix /\ ix \in Indexes
    BY <1>1, <1>3, <1>6 DEF Known, Coding
  <2>3. \A j \in 1..i + 1 : strings[j] \in DOMAIN ix
    BY <1>5, <2>2
  <2>4. AddedTo(e, strings, i + 1, g)
    BY <1>1, <2>1, <2>3, Zenon DEF AddedTo
  <2> QED BY <2>4, Zenon DEF Is
<1>7. CASE ~Known(d, s) /\ StringsUsed(d) + 1 >= StringsSize
  <2> PICK a : Is(a, Numbered(ix, s, -1))
    BY DEF Is
  <2>1. g = Coded(e, ss, a, c)
    <3>1. g = [d EXCEPT !.index = Numbered(d.index, s, -1)]
      BY <1>7, Zenon DEF GetString, Is
    <3>2. g = [d EXCEPT !.index = a]
      BY <1>3, <3>1, Zenon DEF Is
    <3>3. Renumbered(d, a) = Coded(e, ss, a, c)
      BY <1>a, CodedRenumbered
    <3> QED BY <3>2, <3>3, Zenon DEF Renumbered, Recoded
  <2>2. Coding(ss, a, c)
    BY <1>1, <1>2, CodingMore DEF Is
  <2>3. DOMAIN a = DOMAIN ix \union {s} /\ a \in Indexes
    BY <2>2 DEF Is, Coding, Numbered
  <2>4. \A j \in 1..i + 1 : strings[j] \in DOMAIN a
    BY <1>5, <2>3
  <2>5. AddedTo(e, strings, i + 1, g)
    BY <1>1, <2>1, <2>2, <2>4, Zenon DEF AddedTo
  <2> QED BY <2>5, Zenon DEF Is
<1>8. CASE ~Known(d, s) /\ ~(StringsUsed(d) + 1 >= StringsSize)
  <2> PICK a, u : Is(a, Numbered(ix, s, c)) /\ Is(u, Append(ss, s))
    BY DEF Is
  <2>1. g = Coded(e, u, a, c + 1)
    <3>1. g = [d EXCEPT !.strings = Append(d.strings, s), !.index = Numbered(d.index, s, d.count), !.count = d.count + 1]
      BY <1>8, Zenon DEF GetString, Is
    <3>2. g = [d EXCEPT !.strings = u, !.index = a, !.count = c + 1]
      BY <1>3, <3>1, Zenon DEF Is
    <3>3. Recoded(d, u, a, c + 1) = Coded(e, u, a, c + 1)
      BY <1>a, CodedExcept
    <3> QED BY <3>2, <3>3, Zenon DEF Renumbered, Recoded
  <2>2. Coding(u, a, c + 1) /\ Len(u) = Len(ss) + 1 /\ \A n \in 1..Len(ss) : u[n] = ss[n]
    BY <1>1, <1>2, CodingMore DEF Is
  <2>3. DOMAIN a = DOMAIN ix \union {s} /\ a \in Indexes
    BY <2>2 DEF Is, Coding, Numbered
  <2>4. \A j \in 1..i + 1 : strings[j] \in DOMAIN a
    BY <1>5, <2>3
  <2>5. StringsKept(e.strings, u)
    <3>1. Len(e.strings) \in Nat /\ Len(ss) \in Nat
      BY <1>1, LenProperties DEF Coding
    <3> QED BY <1>1, <2>2, <3>1 DEF StringsKept
  <2>6. AddedTo(e, strings, i + 1, g)
    BY <2>1, <2>2, <2>4, <2>5, Zenon DEF AddedTo
  <2> QED BY <2>6, Zenon DEF Is
<1> QED BY <1>6, <1>7, <1>8

(* Blocks that differ from e in their strings only.                        *)
Codings(e) ==
  {Coded(e, z[1], z[2], z[3]) :
      z \in {y \in Seq(AnyText) \X Indexes \X Nat : Coding(y[1], y[2], y[3]) /\ StringsKept(e.strings, y[1])}}

(* They are those to which strings may have been added.                    *)
LEMMA CodingsAre ==
  ASSUME NEW e, NEW strings, NEW d
  PROVE  /\ d \in Codings(e) => AddedTo(e, strings, 0, d)
         /\ \A i : AddedTo(e, strings, i, d) => d \in Codings(e)
<1>1. ASSUME d \in Codings(e) PROVE AddedTo(e, strings, 0, d)
  <2>1. PICK z : d = Coded(e, z[1], z[2], z[3]) /\ Coding(z[1], z[2], z[3]) /\ StringsKept(e.strings, z[1])
    BY <1>1 DEF Codings
  <2>2. \A j \in 1..0 : strings[j] \in DOMAIN z[2]
    OBVIOUS
  <2> QED BY <2>1, <2>2, Zenon DEF AddedTo
<1>2. ASSUME NEW i, AddedTo(e, strings, i, d) PROVE d \in Codings(e)
  <2>1. PICK ss, ix, c : d = Coded(e, ss, ix, c) /\ Coding(ss, ix, c) /\ StringsKept(e.strings, ss)
    BY <1>2, Zenon DEF AddedTo
  <2>2. ss \in Seq(AnyText) /\ ix \in Indexes /\ c \in Nat
    BY <2>1 DEF Coding
  <2>3. PICK z : z = <<ss, ix, c>>
    OBVIOUS
  <2>4. z \in Seq(AnyText) \X Indexes \X Nat /\ z[1] = ss /\ z[2] = ix /\ z[3] = c
    BY <2>2, <2>3
  <2> QED BY <2>1, <2>4, Zenon DEF Codings
<1> QED BY <1>1, <1>2

(* A block under construction, before its strings change.                  *)
Encodes(e) == e = Coded(e, e.strings, e.index, e.count) /\ Coding(e.strings, e.index, e.count)

(* All strings of a feature are added, if there is room for them.          *)
LEMMA AddStringsAdds ==
  ASSUME NEW e, Encodes(e), NEW x, StringsOf(x) \in Seq(AnyText)
  PROVE  AddedTo(e, StringsOf(x), Len(StringsOf(x)), AddStrings(e, x))
<1> PICK strings \in Seq(AnyText) : Is(strings, StringsOf(x))
  BY DEF Is
<1> PICK n : n = Len(strings)
  OBVIOUS
<1>1. n \in Nat /\ \A i \in 1..n : strings[i] \in AnyText
  BY LenProperties, ElementOfSeq
<1>2. e.strings \in Seq(AnyText)
  BY DEF Encodes, Coding
<1>3. AddedTo(e, strings, 0, e)
  <2>1. StringsKept(e.strings, e.strings)
    BY <1>2, LenProperties DEF StringsKept
  <2>2. \A j \in 1..0 : strings[j] \in DOMAIN e.index
    OBVIOUS
  <2> QED BY <2>1, <2>2, Zenon DEF AddedTo, Encodes
<1> DEFINE S == Codings(e)
           step == [p \in S \X (1..n) |-> IF Full(p[1]) THEN p[1] ELSE GetString(p[1], strings[p[2]])]
           Step(f) == [i \in 0..n |-> IF i = 0 THEN e ELSE IF Full(f[i - 1]) THEN f[i - 1]
                                      ELSE GetString(f[i - 1], strings[i])]
           F == CHOOSE f : f = Step(f)
<1>4. AddStrings(e, x) = F[n]
  BY Zenon DEF AddStrings, Is
<1>5. ASSUME NEW d \in S, NEW i \in 1..n PROVE GetString(d, strings[i]) \in S \/ Full(d)
  <2> SUFFICES ASSUME ~Full(d) PROVE GetString(d, strings[i]) \in S
    OBVIOUS
  <2> DEFINE t == [j \in {1} |-> strings[i]]
  <2>1. t[0 + 1] = strings[i] /\ strings[i] \in AnyText /\ 0 \in Nat
    BY <1>1
  <2> HIDE DEF t
  <2>2. AddedTo(e, t, 0, d)
    BY CodingsAre
  <2>3. AddedTo(e, t, 0 + 1, GetString(d, t[0 + 1]))
    BY <1>2, <2>1, <2>2, GetStringAdds
  <2> QED BY <2>1, <2>3, CodingsAre, Zenon
<1>6. e \in S
  BY <1>3, CodingsAre
<1>7. step \in [S \X (1..n) -> S]
  <2> HIDE DEF S
  <2> QED BY <1>5
<1>8. PICK g \in Iterations(n, S, e, step) : TRUE
  <2> HIDE DEF S, step
  <2> QED BY <1>1, <1>6, <1>7, IterationExists
<1>9. g \in [0..n -> S] /\ g[0] = e /\ \A i \in 1..n : g[i] = step[<<g[i - 1], i>>]
  BY <1>8 DEF Iterations
<1>10. g = Step(g)
  <2> HIDE DEF S
  <2>1. g = [i \in 0..n |-> g[i]]
    BY <1>9
  <2>2. ASSUME NEW i \in 1..n PROVE g[i] = IF Full(g[i - 1]) THEN g[i - 1] ELSE GetString(g[i - 1], strings[i])
    <3>1. i - 1 \in 0..n
      BY <1>1
    <3>2. <<g[i - 1], i>> \in S \X (1..n)
      BY <1>9, <3>1
    <3> QED BY <1>9, <3>2
  <2>3. \A i \in 0..n : g[i] = IF i = 0 THEN e ELSE IF Full(g[i - 1]) THEN g[i - 1]
                               ELSE GetString(g[i - 1], strings[i])
    BY <1>9, <2>2
  <2> QED BY <2>1, <2>3
<1>11. F = Step(F)
  <2> HIDE DEF Step
  <2> QED BY <1>10
<1> HIDE DEF F
<1>12. \A i \in 0..n : F[i] = IF i = 0 THEN e ELSE IF Full(F[i - 1]) THEN F[i - 1]
                               ELSE GetString(F[i - 1], strings[i])
  BY <1>11
<1> DEFINE P == {i \in 0..n : AddedTo(e, strings, i, F[i])}
<1>13. 0 \in P
  BY <1>1, <1>3, <1>12
<1>14. ASSUME NEW i \in 1..n, i - 1 \in P PROVE i \in P
  <2>1. i - 1 \in Nat /\ (i - 1) + 1 = i /\ i \in 0..n /\ i # 0
    BY <1>1
  <2> PICK d : d = F[i - 1]
    OBVIOUS
  <2>2. AddedTo(e, strings, i - 1, d)
    BY <1>14
  <2>3. F[i] = IF Full(d) THEN d ELSE GetString(d, strings[i])
    BY <1>12, <2>1
  <2>4. AddedTo(e, strings, i, F[i])
    <3>1. CASE Full(d)
      <4>1. AddedTo(e, strings, i, d)
        BY <2>2, <3>1, Zenon DEF AddedTo
      <4> QED BY <2>3, <3>1, <4>1
    <3>2. CASE ~Full(d)
      <4>1. strings[(i - 1) + 1] \in AnyText
        BY <1>1, <2>1
      <4>2. AddedTo(e, strings, (i - 1) + 1, GetString(d, strings[(i - 1) + 1]))
        BY <1>2, <2>1, <2>2, <3>2, <4>1, GetStringAdds
      <4> QED BY <2>1, <2>3, <3>2, <4>2
    <3> QED BY <3>1, <3>2
  <2> QED BY <2>1, <2>4
<1>15. n \in P
  <2> HIDE DEF P
  <2>1. 0..n \subseteq P
    BY <1>1, <1>13, <1>14, IntervalInduction
  <2> QED BY <1>1, <2>1
<1>16. AddedTo(e, strings, n, F[n])
  BY <1>15
<1> QED BY <1>4, <1>16, Zenon DEF Is

-----------------------------------------------------------------------------
(* Values that are differences                                             *)

(* The sums of the first of several values.                                *)
SumTo(v, n) == SumOf([j \in 1..n |-> v[j]])
Summed(g, v, n) ==
  /\ g \in [0..n -> Int] /\ g[0] = 0 /\ \A i \in 1..n : g[i] = g[i - 1] + v[i]
  /\ \A m \in 0..n : SumTo(v, m) = g[m]
(* Sums are defined, and SumOf is the last of them.                        *)
LEMMA SumsExist ==
  ASSUME NEW n \in Nat, NEW v, \A j \in 1..n : v[j] \in Int
  PROVE  \E g : Summed(g, v, n)
<1> DEFINE step == [p \in Int \X (1..n) |-> p[1] + v[p[2]]]
<1>1. step \in [Int \X (1..n) -> Int]
  OBVIOUS
<1>2. PICK g \in Iterations(n, Int, 0, step) : TRUE
  <2> HIDE DEF step
  <2> QED BY <1>1, IterationExists
<1>3. g \in [0..n -> Int] /\ g[0] = 0
  BY <1>2 DEF Iterations
<1>4. ASSUME NEW i \in 1..n PROVE g[i] = g[i - 1] + v[i]
  <2>1. g[i] = step[<<g[i - 1], i>>]
    BY <1>2 DEF Iterations
  <2>2. <<g[i - 1], i>> \in Int \X (1..n)
    BY <1>3
  <2> QED BY <2>1, <2>2
<1>5. ASSUME NEW m \in 0..n PROVE SumOf([j \in 1..m |-> v[j]]) = g[m]
  <2> DEFINE w == [j \in 1..m |-> v[j]]
             Step(f) == [i \in 0..m |-> IF i = 0 THEN 0 ELSE f[i - 1] + w[i]]
             F == CHOOSE f : f = Step(f)
             h == [i \in 0..m |-> g[i]]
  <2>1. w \in Seq(Int) /\ Len(w) = m
    <3>1. w \in [1..m -> Int] /\ m \in Nat
      OBVIOUS
    <3>2. w \in Seq(Int)
      BY <3>1, SeqDef
    <3> QED BY <3>1, <3>2, LenProperties
  <2>2. SumOf(w) = F[m]
    <3> HIDE DEF w
    <3> QED BY <2>1, Zenon DEF SumOf
  <2>3. h = Step(h)
    <3>1. ASSUME NEW i \in 0..m PROVE h[i] = IF i = 0 THEN 0 ELSE h[i - 1] + w[i]
      <4>1. CASE i = 0
        BY <1>3, <4>1
      <4>2. CASE i # 0
        <5>1. i \in 1..n /\ i \in 1..m /\ i - 1 \in 0..m
          BY <4>2
        <5> QED BY <1>4, <4>2, <5>1
      <4> QED BY <4>1, <4>2
    <3> QED BY <3>1
  <2>4. F = Step(F)
    <3> HIDE DEF h, Step
    <3> QED BY <2>3
  <2> HIDE DEF F
  <2>5. \A i \in 0..m : F[i] = IF i = 0 THEN 0 ELSE F[i - 1] + w[i]
    <3> HIDE DEF w
    <3> QED BY <2>4
  <2> DEFINE P == {i \in 0..m : F[i] = g[i]}
  <2>6. 0 \in P
    <3>1. 0 \in 0..m
      OBVIOUS
    <3>2. F[0] = 0
      BY <2>5, <3>1
    <3> QED BY <1>3, <3>1, <3>2
  <2>7. ASSUME NEW i \in 1..m, i - 1 \in P PROVE i \in P
    <3>1. i \in 1..n /\ i \in 0..m /\ i # 0
      OBVIOUS
    <3>2. F[i] = F[i - 1] + w[i] /\ w[i] = v[i]
      BY <2>5, <3>1
    <3> QED BY <1>4, <2>7, <3>1, <3>2
  <2>8. m \in P
    <3> HIDE DEF P
    <3>1. 0..m \subseteq P
      BY <2>6, <2>7, IntervalInduction
    <3> QED BY <3>1
  <2> QED BY <2>2, <2>8
<1>6. \A m \in 0..n : SumTo(v, m) = g[m]
  BY <1>5, Zenon DEF SumTo
<1>7. Summed(g, v, n)
  BY <1>3, <1>4, <1>6, Zenon DEF Summed
<1> QED BY <1>7

-----------------------------------------------------------------------------
(* A feature and its place in a block                                      *)

(* A feature that can be encoded: a node, or one that has members.         *)
Encodable(x) ==
  /\ x.f \in Names /\ x.tags \in Seq(AnyText \X AnyText)
  /\ x.f[1] = 0 => x = [f |-> x.f, at |-> x.at, tags |-> x.tags] /\ x.at \in Int
  /\ x.f[1] # 0 => /\ x = [f |-> x.f, tags |-> x.tags, members |-> x.members]
                   /\ x.members \in Seq([f : Names, role : AnyText])
  /\ x.f[1] = 1 => \A i \in DOMAIN x.members : x.members[i].f[1] = 0 /\ x.members[i].role = EmptyString

(* Its strings are those of its tags, and the roles of a relation.         *)
LEMMA StringsAre ==
  ASSUME NEW x, Encodable(x)
  PROVE  /\ StringsOf(x) \in Seq(AnyText)
         /\ \A i \in DOMAIN x.tags : x.tags[i][1] \in Elems(StringsOf(x)) /\ x.tags[i][2] \in Elems(StringsOf(x))
         /\ x.f[1] = 2 => \A i \in DOMAIN x.members : x.members[i].role \in Elems(StringsOf(x))
<1> PICK t, m : Is(t, x.tags) /\ Is(m, x.members)
  BY DEF Is
<1> DEFINE a == IF x.f[1] = 2 THEN [i \in DOMAIN m |-> m[i].role] ELSE <<>>
           b == [i \in 1..(2 * Len(t)) |-> t[(i + 1) \div 2][IF i % 2 = 1 THEN 1 ELSE 2]]
<1>1. StringsOf(x) = a \o b
  BY Zenon DEF StringsOf, Is
<1>2. t \in Seq(AnyText \X AnyText) /\ DOMAIN t = 1..Len(t) /\ Len(t) \in Nat
      /\ \A i \in 1..Len(t) : t[i] \in AnyText \X AnyText
  <2>1. t \in Seq(AnyText \X AnyText)
    BY DEF Encodable, Is
  <2> QED BY <2>1, LenProperties, ElementOfSeq
<1>3. \A i \in 1..Len(t) : t[i][1] \in AnyText /\ t[i][2] \in AnyText
  BY <1>2
<1>4. b \in Seq(AnyText) /\ DOMAIN b = 1..(2 * Len(t))
  <2>1. ASSUME NEW i \in 1..(2 * Len(t)) PROVE t[(i + 1) \div 2][IF i % 2 = 1 THEN 1 ELSE 2] \in AnyText
    <3>1. (i + 1) \div 2 \in 1..Len(t)
      BY <1>2
    <3> QED BY <1>3, <3>1
  <2>2. b \in [1..(2 * Len(t)) -> AnyText] /\ 2 * Len(t) \in Nat
    BY <1>2, <2>1
  <2> QED BY <2>2, SeqDef
<1>5. \A i \in 1..Len(t) : t[i][1] \in Elems(b) /\ t[i][2] \in Elems(b)
  <2> TAKE i \in 1..Len(t)
  <2>1. 2 * i \in 1..(2 * Len(t)) /\ 2 * i - 1 \in 1..(2 * Len(t))
    BY <1>2
  <2>2. ((2 * i) + 1) \div 2 = i /\ (2 * i) % 2 = 0 /\ ((2 * i - 1) + 1) \div 2 = i /\ (2 * i - 1) % 2 = 1
    BY <1>2
  <2>3. b[2 * i - 1] = t[i][1] /\ b[2 * i] = t[i][2]
    BY <2>1, <2>2
  <2> HIDE DEF b
  <2> QED BY <1>4, <2>1, <2>3 DEF Elems
<1>6. a \in Seq(AnyText) /\ (x.f[1] = 2 => \A i \in DOMAIN m : m[i].role \in Elems(a))
  <2>1. CASE x.f[1] = 2
    <3>1. m \in Seq([f : Names, role : AnyText])
      BY <2>1 DEF Encodable, Is
    <3>2. DOMAIN m = 1..Len(m) /\ Len(m) \in Nat /\ \A i \in 1..Len(m) : m[i] \in [f : Names, role : AnyText]
      BY <3>1, LenProperties, ElementOfSeq
    <3>3. a = [i \in 1..Len(m) |-> m[i].role]
      BY <2>1, <3>2
    <3>4. a \in [1..Len(m) -> AnyText]
      BY <3>2, <3>3
    <3>5. a \in Seq(AnyText)
      <4> HIDE DEF a
      <4> QED BY <3>2, <3>4, SeqDef
    <3>6. \A i \in 1..Len(m) : a[i] = m[i].role /\ i \in DOMAIN a
      BY <3>3
    <3> HIDE DEF a
    <3> QED BY <3>2, <3>5, <3>6 DEF Elems
  <2>2. CASE x.f[1] # 2
    BY <2>2, EmptySeq
  <2> QED BY <2>1, <2>2
<1> HIDE DEF a, b
<1>7. a \o b \in Seq(AnyText) /\ Elems(a \o b) = Elems(a) \union Elems(b)
  BY <1>4, <1>6, ConcatElems
<1>8. \A i \in DOMAIN t : t[i][1] \in Elems(a \o b) /\ t[i][2] \in Elems(a \o b)
  BY <1>2, <1>5, <1>7
<1>9. x.f[1] = 2 => \A i \in DOMAIN m : m[i].role \in Elems(a \o b)
  BY <1>6, <1>7
<1> QED BY <1>1, <1>7, <1>8, <1>9, Zenon DEF Is

(* A string is found at its number.                                        *)
LEMMA CodeRead ==
  ASSUME NEW b, NEW ix, NEW c, Coding(b.strings, ix, c), NEW s \in DOMAIN ix, ix[s] >= 0
  PROVE  StringAt(b, ix[s]) = s /\ ix[s] \in 0..c - 1
<1> PICK ss : Is(ss, b.strings)
  BY DEF Is
<1>1. Coding(ss, ix, c)
  BY Zenon DEF Is
<1>2. c = Len(ss) /\ c \in Nat /\ ix[s] < c /\ ss[ix[s] + 1] = s /\ DOMAIN ss = 1..Len(ss) /\ ix \in Indexes
  BY <1>1, LenProperties DEF Coding
<1>3. ix[s] \in Int
  <2>1. PICK A \in SUBSET AnyText : ix \in [A -> Int]
    BY <1>2 DEF Indexes
  <2> QED BY <2>1
<1>4. ix[s] + 1 \in DOMAIN ss
  BY <1>2, <1>3
<1>5. StringAt(b, ix[s]) = s
  BY <1>2, <1>4, Zenon DEF StringAt, Is
<1> QED BY <1>2, <1>3, <1>5

(* What a block knows when a feature fits.                                 *)
Encoded1(e, x, ss, ix, c) ==
  /\ AddStrings(e, x) = Coded(e, ss, ix, c) /\ Coding(ss, ix, c) /\ StringsKept(e.strings, ss)
  /\ \A s \in DOMAIN ix : ix[s] >= 0
  /\ \A s \in Elems(StringsOf(x)) : s \in DOMAIN ix

(* All strings of a feature that fits have numbers.                        *)
LEMMA FitsCodes ==
  ASSUME NEW e, Encodes(e), NEW x, Encodable(x), Fits(e, x)
  PROVE  \E ss, ix, c : Encoded1(e, x, ss, ix, c)
<1> PICK d, strings : Is(d, AddStrings(e, x)) /\ Is(strings, StringsOf(x))
  BY DEF Is
<1>1. strings \in Seq(AnyText)
  BY StringsAre DEF Is
<1>2. AddedTo(e, strings, Len(strings), d)
  <2>1. StringsOf(x) \in Seq(AnyText)
    BY StringsAre
  <2>2. AddedTo(e, StringsOf(x), Len(StringsOf(x)), AddStrings(e, x))
    BY <2>1, AddStringsAdds
  <2> QED BY <2>2, Zenon DEF Is
<1>3. ~Full(d)
  BY Zenon DEF Fits, Is
<1>4. PICK ss, ix, c : /\ d = Coded(e, ss, ix, c) /\ Coding(ss, ix, c) /\ StringsKept(e.strings, ss)
                       /\ \A j \in 1..Len(strings) : strings[j] \in DOMAIN ix
  BY <1>2, <1>3, Zenon DEF AddedTo
<1>5. d.index = ix
  BY <1>4, CodedFields
<1>6. \A s \in DOMAIN ix : ix[s] >= 0
  <2>1. \A s \in DOMAIN ix : ~(ix[s] < 0)
    BY <1>3, <1>5 DEF Full
  <2>2. \A s \in DOMAIN ix : ix[s] \in Int
    <3>1. PICK A \in SUBSET AnyText : ix \in [A -> Int]
      BY <1>4 DEF Coding, Indexes
    <3> QED BY <3>1
  <2> QED BY <2>1, <2>2
<1>7. \A s \in Elems(strings) : s \in DOMAIN ix
  <2>1. DOMAIN strings = 1..Len(strings)
    BY <1>1, LenProperties
  <2> QED BY <1>4, <2>1 DEF Elems
<1> QED BY <1>4, <1>6, <1>7, Zenon DEF Encoded1, Is

-----------------------------------------------------------------------------
(* A block and what is read of it                                          *)

(* The strings of a feature of the block have numbers below c.             *)
FeatIn(g, y, c) ==
  /\ \A j \in DOMAIN y.tags : y.tags[j][1] \in 0..c - 1 /\ y.tags[j][2] \in 0..c - 1
  /\ g = 0 => y.id \in Int /\ y.at \in Int
  /\ g # 0 => \A j \in DOMAIN y.members : y.members[j].role \in 0..c - 1

Ids(feats, n) == [j \in 1..n |-> feats[j].id]
Ats(feats, n) == [j \in 1..n |-> feats[j].at]
FeatsIn(feats, g, c) ==
  /\ \E F : feats \in Seq(F)
  /\ \A i \in DOMAIN feats : FeatIn(g, feats[i], c)

(* A block under construction that has a type, and what of it says where    *)
(* the next node is counted from.                                          *)
Encoding(e) ==
  /\ Encodes(e) /\ e.group \in 0..2 /\ FeatsIn(e.feats, e.group, e.count)
  /\ e.group = 0 => /\ e.prevId = SumOf(Ids(e.feats, Len(e.feats))) /\ e.prevAt = SumOf(Ats(e.feats, Len(e.feats)))
                    /\ e.prevId \in Int /\ e.prevAt \in Int

ReadAt(b, i) == IF b.group = 0 THEN NodeRead(b, i) ELSE BodyRead(b, i)
(* What is read, one by one.                                               *)
LEMMA ReadIs ==
  ASSUME NEW b
  PROVE  Read(b) = [i \in DOMAIN b.feats |-> ReadAt(b, i)]
BY Zenon DEF Read, ReadAt

(* A new feature comes after the others.                                   *)
LEMMA FeatsMore ==
  ASSUME NEW feats, NEW g, NEW c \in Nat, FeatsIn(feats, g, c), NEW c2 \in Nat, c <= c2, NEW y, FeatIn(g, y, c2)
  PROVE  /\ FeatsIn(Append(feats, y), g, c2) /\ Len(feats) \in Nat /\ DOMAIN feats = 1..Len(feats)
         /\ DOMAIN Append(feats, y) = 1..(Len(feats) + 1) /\ Len(Append(feats, y)) = Len(feats) + 1
         /\ Append(feats, y)[Len(feats) + 1] = y /\ \A i \in 1..Len(feats) : Append(feats, y)[i] = feats[i]
<1>1. PICK F : feats \in Seq(F)
  BY DEF FeatsIn
<1>2. feats \in Seq(F \union {y})
  BY <1>1, LenProperties, SeqDef
<1> PICK G : G = F \union {y}
  OBVIOUS
<1> PICK u : Is(u, Append(feats, y))
  BY DEF Is
<1>3. /\ u \in Seq(G) /\ Len(u) = Len(feats) + 1 /\ u[Len(feats) + 1] = y /\ \A i \in 1..Len(feats) : u[i] = feats[i]
  BY <1>2, AppendProperties DEF Is
<1>4. Len(feats) \in Nat /\ DOMAIN feats = 1..Len(feats) /\ DOMAIN u = 1..(Len(feats) + 1)
  BY <1>2, <1>3, LenProperties
<1>5. \A i \in DOMAIN u : FeatIn(g, u[i], c2)
  <2> SUFFICES ASSUME NEW i \in DOMAIN u PROVE FeatIn(g, u[i], c2)
    OBVIOUS
  <2>1. CASE i = Len(feats) + 1
    BY <1>3, <2>1
  <2>2. CASE i \in 1..Len(feats)
    <3>1. FeatIn(g, feats[i], c)
      BY <1>4, <2>2 DEF FeatsIn
    <3>2. \A n \in 0..c - 1 : n \in 0..c2 - 1
      OBVIOUS
    <3>3. FeatIn(g, feats[i], c2)
      BY <3>1, <3>2, Zenon DEF FeatIn
    <3> QED BY <1>3, <2>2, <3>3
  <2> QED BY <1>4, <2>1, <2>2
<1>6. FeatsIn(u, g, c2)
  BY <1>3, <1>5, Zenon DEF FeatsIn
<1> QED BY <1>3, <1>4, <1>6, Zenon DEF Is

(* What was read before is read again.                                     *)
LEMMA ReadKept ==
  ASSUME NEW b, NEW d, b.group = d.group, b.strings \in Seq(AnyText), d.strings \in Seq(AnyText),
         StringsKept(b.strings, d.strings), NEW c, c = Len(b.strings), FeatsIn(b.feats, b.group, c),
         \A i \in DOMAIN b.feats : d.feats[i] = b.feats[i], NEW i \in DOMAIN b.feats
  PROVE  ReadAt(d, i) = ReadAt(b, i)
<1>1. c \in Nat /\ DOMAIN b.strings = 1..c /\ DOMAIN d.strings = 1..Len(d.strings) /\ Len(d.strings) \in Nat /\ c <= Len(d.strings)
  BY LenProperties DEF StringsKept
<1>2. \A n \in 0..c - 1 : StringAt(d, n) = StringAt(b, n)
  <2> SUFFICES ASSUME NEW n \in 0..c - 1 PROVE StringAt(d, n) = StringAt(b, n)
    OBVIOUS
  <2>1. n + 1 \in 1..c /\ n + 1 \in DOMAIN b.strings /\ n + 1 \in DOMAIN d.strings
    BY <1>1
  <2>2. d.strings[n + 1] = b.strings[n + 1]
    BY <2>1 DEF StringsKept
  <2> QED BY <2>1, <2>2, Zenon DEF StringAt
<1>3. PICK F : b.feats \in Seq(F)
  BY DEF FeatsIn
<1>4. i \in 1..Len(b.feats) /\ Len(b.feats) \in Nat /\ DOMAIN b.feats = 1..Len(b.feats)
  BY <1>3, LenProperties
<1>5. \A j \in 1..i : j \in DOMAIN b.feats
  BY <1>4
<1> PICK y : y = b.feats[i]
  OBVIOUS
<1>6. d.feats[i] = y /\ FeatIn(b.group, y, c)
  BY DEF FeatsIn
<1>7. TagsRead(d, y) = TagsRead(b, y)
  <2>1. \A j \in DOMAIN y.tags : StringAt(d, y.tags[j][1]) = StringAt(b, y.tags[j][1])
                                 /\ StringAt(d, y.tags[j][2]) = StringAt(b, y.tags[j][2])
    BY <1>2, <1>6 DEF FeatIn
  <2> QED BY <2>1, Zenon DEF TagsRead
<1>8. CASE b.group = 0
  <2>1. Ids(d.feats, i) = Ids(b.feats, i) /\ Ats(d.feats, i) = Ats(b.feats, i)
    BY <1>5, Zenon DEF Ids, Ats
  <2>2. NodeRead(b, i) = [f |-> <<0, SumOf(Ids(b.feats, i))>>, at |-> SumOf(Ats(b.feats, i)), tags |-> TagsRead(b, y)]
    BY Zenon DEF NodeRead, Ids, Ats
  <2>3. NodeRead(d, i) = [f |-> <<0, SumOf(Ids(d.feats, i))>>, at |-> SumOf(Ats(d.feats, i)), tags |-> TagsRead(d, y)]
    BY <1>6, Zenon DEF NodeRead, Ids, Ats
  <2> QED BY <1>7, <1>8, <2>1, <2>2, <2>3, Zenon DEF ReadAt
<1>9. CASE b.group # 0
  <2> DEFINE Id(k) == SumOf([j \in 1..k |-> y.members[j].id])
             Type(k) == IF b.group = 1 THEN 0 ELSE y.members[k].type
             M(z) == [k \in DOMAIN y.members |-> [f |-> <<Type(k), Id(k)>>, role |-> StringAt(z, y.members[k].role)]]
  <2>1. \A k \in DOMAIN y.members : StringAt(d, y.members[k].role) = StringAt(b, y.members[k].role)
    BY <1>2, <1>6, <1>9 DEF FeatIn
  <2>2. M(d) = M(b)
    BY <2>1, Zenon
  <2>3. BodyRead(b, i) = [f |-> <<b.group, y.id>>, tags |-> TagsRead(b, y), members |-> M(b)]
    BY Zenon DEF BodyRead
  <2>4. BodyRead(d, i) = [f |-> <<b.group, y.id>>, tags |-> TagsRead(d, y), members |-> M(d)]
    BY <1>6, Zenon DEF BodyRead
  <2> QED BY <1>7, <1>9, <2>2, <2>3, <2>4, Zenon DEF ReadAt
<1> QED BY <1>8, <1>9

-----------------------------------------------------------------------------
(* The numbers of the strings of a feature that fits                       *)

TagsIn(b, x, y, c) ==
  /\ TagsRead(b, y) = x.tags
  /\ \A j \in DOMAIN y.tags : y.tags[j][1] \in 0..c - 1 /\ y.tags[j][2] \in 0..c - 1
(* The tags of a feature are read as they are.                             *)
LEMMA TagsCoded ==
  ASSUME NEW e, NEW x, Encodable(x), NEW ss, NEW ix, NEW c, Encoded1(e, x, ss, ix, c), NEW d, d.index = ix,
         NEW b, b.strings = ss, NEW y, y.tags = TagCodes(d, x)
  PROVE  TagsIn(b, x, y, c)
<1> PICK t, strings : Is(t, x.tags) /\ Is(strings, StringsOf(x))
  BY DEF Is
<1>1. t \in Seq(AnyText \X AnyText)
  BY Zenon DEF Is, Encodable
<1>2. t = [j \in DOMAIN t |-> <<t[j][1], t[j][2]>>]
  BY <1>1, ElementOfSeq, LenProperties
<1>3. y.tags = [j \in DOMAIN t |-> <<ix[t[j][1]], ix[t[j][2]]>>]
  BY Zenon DEF TagCodes, Is
<1>4. \A j \in DOMAIN t : t[j][1] \in Elems(strings) /\ t[j][2] \in Elems(strings)
  BY StringsAre, Zenon DEF Is
<1>5. Coding(b.strings, ix, c) /\ (\A s \in DOMAIN ix : ix[s] >= 0) /\ (\A s \in Elems(strings) : s \in DOMAIN ix)
  BY Zenon DEF Encoded1, Is
<1>6. \A s \in Elems(strings) : StringAt(b, ix[s]) = s /\ ix[s] \in 0..c - 1
  <2> SUFFICES ASSUME NEW s \in Elems(strings) PROVE StringAt(b, ix[s]) = s /\ ix[s] \in 0..c - 1
    OBVIOUS
  <2>1. Coding(b.strings, ix, c) /\ s \in DOMAIN ix /\ ix[s] >= 0
    BY <1>5, Zenon
  <2> QED BY <2>1, CodeRead
<1>7. DOMAIN y.tags = DOMAIN t /\ \A j \in DOMAIN t : y.tags[j][1] = ix[t[j][1]] /\ y.tags[j][2] = ix[t[j][2]]
  BY <1>3
<1>8. TagsRead(b, y) = [j \in DOMAIN t |-> <<t[j][1], t[j][2]>>]
  BY <1>4, <1>6, <1>7, Zenon DEF TagsRead
<1>9. \A j \in DOMAIN t : ix[t[j][1]] \in 0..c - 1 /\ ix[t[j][2]] \in 0..c - 1
  BY <1>4, <1>6, Zenon
<1>10. TagsRead(b, y) = t
  BY <1>2, <1>8, Zenon
<1>11. \A j \in DOMAIN y.tags : y.tags[j][1] \in 0..c - 1 /\ y.tags[j][2] \in 0..c - 1
  BY <1>7, <1>9
<1> QED BY <1>10, <1>11, Zenon DEF Is, TagsIn

-----------------------------------------------------------------------------
(* A node                                                                  *)

Block(g, ss, ix, c, fs, i, a, n, m, k) ==
  [group |-> g, strings |-> ss, index |-> ix, count |-> c, feats |-> fs,
   prevId |-> i, prevAt |-> a, ids |-> n, lats |-> m, tags |-> k]
SetFeats(d, z) == [d EXCEPT !.feats = z]
SetId(d, z) == [d EXCEPT !.prevId = z]
SetAt(d, z) == [d EXCEPT !.prevAt = z]
SetIds(d, z) == [d EXCEPT !.ids = z]
SetLats(d, z) == [d EXCEPT !.lats = z]
SetTags(d, z) == [d EXCEPT !.tags = z]
(* What is written into the fields of a block.                             *)
LEMMA SetIs ==
  ASSUME NEW g, NEW ss, NEW ix, NEW c, NEW fs, NEW i, NEW a, NEW n, NEW m, NEW k, NEW z
  PROVE  /\ SetFeats(Block(g, ss, ix, c, fs, i, a, n, m, k), z) = Block(g, ss, ix, c, z, i, a, n, m, k)
         /\ SetId(Block(g, ss, ix, c, fs, i, a, n, m, k), z) = Block(g, ss, ix, c, fs, z, a, n, m, k)
         /\ SetAt(Block(g, ss, ix, c, fs, i, a, n, m, k), z) = Block(g, ss, ix, c, fs, i, z, n, m, k)
         /\ SetIds(Block(g, ss, ix, c, fs, i, a, n, m, k), z) = Block(g, ss, ix, c, fs, i, a, z, m, k)
         /\ SetLats(Block(g, ss, ix, c, fs, i, a, n, m, k), z) = Block(g, ss, ix, c, fs, i, a, n, z, k)
         /\ SetTags(Block(g, ss, ix, c, fs, i, a, n, m, k), z) = Block(g, ss, ix, c, fs, i, a, n, m, z)
BY DEF Block, SetFeats, SetId, SetAt, SetIds, SetLats, SetTags

NodeBlock(e, x, ss, ix, c, y, n, m, k) ==
  [group |-> e.group, strings |-> ss, index |-> ix, count |-> c, feats |-> Append(e.feats, y),
   prevId |-> x.f[2], prevAt |-> x.at, ids |-> n, lats |-> m, tags |-> k]
NodeEntry(e, d, x) == [id |-> x.f[2] - e.prevId, at |-> x.at - e.prevAt, tags |-> TagCodes(d, x)]

(* A node that is written, ...                                             *)
LEMMA NodeWritten ==
  ASSUME NEW e, NEW x, NEW ss, NEW ix, NEW c, NEW d, d = Coded(e, ss, ix, c)
  PROVE  \E n, m, k : WriteNode(d, x) = NodeBlock(e, x, ss, ix, c, NodeEntry(e, d, x), n, m, k)
<1>1. /\ d.group = e.group /\ d.strings = ss /\ d.index = ix /\ d.count = c /\ d.feats = e.feats
      /\ d.prevId = e.prevId /\ d.prevAt = e.prevAt /\ d.ids = e.ids /\ d.lats = e.lats /\ d.tags = e.tags
  BY CodedFields
<1> PICK y : Is(y, NodeEntry(e, d, x))
  BY DEF Is
<1> PICK n, m, k : Is(n, d.ids + Width(x.f[2] - d.prevId)) /\ Is(m, d.lats + Width(x.at - d.prevAt))
                   /\ Is(k, d.tags + TagBytes(x) + 1)
  BY DEF Is
<1> PICK u, v, w : Is(u, Append(d.feats, y)) /\ Is(v, x.f[2]) /\ Is(w, x.at)
  BY DEF Is
<1>2. WriteNode(d, x) = [d EXCEPT !.feats = u, !.prevId = v, !.prevAt = w, !.ids = n, !.lats = m, !.tags = k]
  <2>1. y = [id |-> x.f[2] - d.prevId, at |-> x.at - d.prevAt, tags |-> TagCodes(d, x)]
    BY <1>1, Zenon DEF Is, NodeEntry
  <2> QED BY <2>1, Zenon DEF Is, WriteNode
<1>3. [d EXCEPT !.feats = u, !.prevId = v, !.prevAt = w, !.ids = n, !.lats = m, !.tags = k]
        = [group |-> e.group, strings |-> ss, index |-> ix, count |-> c, feats |-> u,
           prevId |-> v, prevAt |-> w, ids |-> n, lats |-> m, tags |-> k]
  <2>1. d = Block(e.group, ss, ix, c, e.feats, e.prevId, e.prevAt, e.ids, e.lats, e.tags)
    BY Zenon DEF Coded, Block
  <2>2. [d EXCEPT !.feats = u, !.prevId = v, !.prevAt = w, !.ids = n, !.lats = m, !.tags = k]
          = SetTags(SetLats(SetIds(SetAt(SetId(SetFeats(d, u), v), w), n), m), k)
    BY DEF SetTags, SetLats, SetIds, SetAt, SetId, SetFeats
  <2>3. SetTags(SetLats(SetIds(SetAt(SetId(SetFeats(d, u), v), w), n), m), k)
          = Block(e.group, ss, ix, c, u, v, w, n, m, k)
    <3>1. SetFeats(d, u) = Block(e.group, ss, ix, c, u, e.prevId, e.prevAt, e.ids, e.lats, e.tags)
      BY <2>1, SetIs
    <3>2. SetId(SetFeats(d, u), v) = Block(e.group, ss, ix, c, u, v, e.prevAt, e.ids, e.lats, e.tags)
      BY <3>1, SetIs
    <3>3. SetAt(SetId(SetFeats(d, u), v), w) = Block(e.group, ss, ix, c, u, v, w, e.ids, e.lats, e.tags)
      BY <3>2, SetIs
    <3>4. SetIds(SetAt(SetId(SetFeats(d, u), v), w), n) = Block(e.group, ss, ix, c, u, v, w, n, e.lats, e.tags)
      BY <3>3, SetIs
    <3>5. SetLats(SetIds(SetAt(SetId(SetFeats(d, u), v), w), n), m) = Block(e.group, ss, ix, c, u, v, w, n, m, e.tags)
      BY <3>4, SetIs
    <3> QED BY <3>5, SetIs
  <2> QED BY <2>2, <2>3, Zenon DEF Block
<1>4. WriteNode(d, x) = NodeBlock(e, x, ss, ix, c, y, n, m, k)
  BY <1>1, <1>2, <1>3, Zenon DEF NodeBlock, Is
<1> QED BY <1>4, Zenon DEF Is

(* Sums of one value more.                                                 *)
LEMMA SumMore ==
  ASSUME NEW n \in Nat, NEW v, \A j \in 1..n + 1 : v[j] \in Int
  PROVE  SumTo(v, n + 1) = SumTo(v, n) + v[n + 1] /\ SumTo(v, n) \in Int
<1> PICK k \in Nat : k = n + 1
  OBVIOUS
<1>a. \A j \in 1..k : v[j] \in Int
  OBVIOUS
<1>b. PICK g : Summed(g, v, k)
  BY <1>a, SumsExist, Zenon
<1>1. /\ g \in [0..k -> Int] /\ g[0] = 0 /\ \A i \in 1..k : g[i] = g[i - 1] + v[i]
      /\ \A m \in 0..k : SumTo(v, m) = g[m]
  BY <1>b DEF Summed
<1>2. n \in 0..k /\ n + 1 \in 0..k /\ n + 1 \in 1..k /\ (n + 1) - 1 = n
  OBVIOUS
<1> PICK a, b : Is(a, SumTo(v, n + 1)) /\ Is(b, SumTo(v, n))
  BY DEF Is
<1>3. a = g[n + 1] /\ b = g[n]
  BY <1>1, <1>2, Zenon DEF Is
<1>4. a = b + v[n + 1] /\ b \in Int
  BY <1>1, <1>2, <1>3
<1> QED BY <1>4, Zenon DEF Is

(* ... is read.                                                            *)
LEMMA NodeReads ==
  ASSUME NEW e, Encoding(e), NEW x, Encodable(x), x.f[1] = 0, e.group = 0,
         NEW ss, NEW ix, NEW c, Encoded1(e, x, ss, ix, c), NEW d, d = Coded(e, ss, ix, c), NEW b, b = WriteNode(d, x)
  PROVE  Encoding(b) /\ b.group = 0 /\ Read(b) = Append(Read(e), x)
<1> PICK y : y = NodeEntry(e, d, x)
  OBVIOUS
<1>1. PICK n, m, k : b = NodeBlock(e, x, ss, ix, c, y, n, m, k)
  BY NodeWritten
<1> PICK u : Is(u, Append(e.feats, y))
  BY DEF Is
<1>2. /\ b.group = e.group /\ b.strings = ss /\ b.index = ix /\ b.count = c /\ b.feats = u
      /\ b.prevId = x.f[2] /\ b.prevAt = x.at /\ b = Coded(b, b.strings, b.index, b.count)
  BY <1>1 DEF NodeBlock, Coded, Is
<1>3. d.index = ix
  BY CodedFields
<1>4. y.id = x.f[2] - e.prevId /\ y.at = x.at - e.prevAt /\ y.tags = TagCodes(d, x)
  BY DEF NodeEntry
<1>5. TagsRead(b, y) = x.tags /\ \A j \in DOMAIN y.tags : y.tags[j][1] \in 0..c - 1 /\ y.tags[j][2] \in 0..c - 1
  <2>1. b.strings = ss /\ y.tags = TagCodes(d, x)
    BY <1>2, <1>4
  <2>2. TagsIn(b, x, y, c)
    BY <1>3, <2>1, TagsCoded
  <2> QED BY <2>2, Zenon DEF TagsIn
<1>6. x = [f |-> x.f, at |-> x.at, tags |-> x.tags] /\ x.at \in Int /\ x.f = <<0, x.f[2]>> /\ x.f[2] \in Int
  BY DEF Encodable, Names
<1>7. e.prevId \in Int /\ e.prevAt \in Int
  BY DEF Encoding
<1>8. FeatIn(e.group, y, c)
  BY <1>4, <1>5, <1>6, <1>7 DEF FeatIn
<1>9. Coding(e.strings, e.index, e.count) /\ Coding(ss, ix, c) /\ StringsKept(e.strings, ss)
  BY Zenon DEF Encoding, Encodes, Encoded1
<1>10. e.count = Len(e.strings) /\ c = Len(ss) /\ e.count \in Nat /\ c \in Nat /\ e.count <= c
       /\ e.strings \in Seq(AnyText) /\ ss \in Seq(AnyText)
  BY <1>9 DEF Coding, StringsKept
<1>11. FeatsIn(e.feats, e.group, e.count)
  BY DEF Encoding
<1> PICK l : Is(l, Len(e.feats))
  BY DEF Is
<1>12. /\ FeatsIn(u, e.group, c) /\ l \in Nat /\ DOMAIN e.feats = 1..l /\ DOMAIN u = 1..(l + 1) /\ Len(u) = l + 1
       /\ u[l + 1] = y /\ \A i \in 1..l : u[i] = e.feats[i]
  BY <1>8, <1>10, <1>11, FeatsMore DEF Is
<1>13. e.prevId = SumOf(Ids(e.feats, l)) /\ e.prevAt = SumOf(Ats(e.feats, l))
  BY DEF Encoding, Is
<1>14. Ids(e.feats, l) = Ids(u, l) /\ Ats(e.feats, l) = Ats(u, l)
  BY <1>12, Zenon DEF Ids, Ats
<1>15. \A i \in 1..l + 1 : u[i].id \in Int /\ u[i].at \in Int
  BY <1>12 DEF FeatsIn, FeatIn
<1>16. SumOf(Ids(u, l + 1)) = x.f[2] /\ SumOf(Ats(u, l + 1)) = x.at
  <2> PICK v, w : v = [j \in 1..l + 1 |-> u[j].id] /\ w = [j \in 1..l + 1 |-> u[j].at]
    OBVIOUS
  <2>1. \A j \in 1..l + 1 : v[j] \in Int /\ w[j] \in Int
    BY <1>15
  <2>2. \A j \in 1..l : j \in 1..l + 1
    BY <1>12
  <2>3. v[l + 1] = y.id /\ w[l + 1] = y.at
    BY <1>12
  <2>4. SumTo(v, l + 1) = SumOf(Ids(u, l + 1)) /\ SumTo(w, l + 1) = SumOf(Ats(u, l + 1))
        /\ SumTo(v, l) = SumOf(Ids(u, l)) /\ SumTo(w, l) = SumOf(Ats(u, l))
    <3>1. /\ [j \in 1..l + 1 |-> v[j]] = Ids(u, l + 1) /\ [j \in 1..l + 1 |-> w[j]] = Ats(u, l + 1)
          /\ [j \in 1..l |-> v[j]] = Ids(u, l) /\ [j \in 1..l |-> w[j]] = Ats(u, l)
      BY <2>2, Zenon DEF Ids, Ats
    <3> QED BY <3>1, Zenon DEF SumTo
  <2>5. SumTo(v, l + 1) = SumTo(v, l) + v[l + 1] /\ SumTo(w, l + 1) = SumTo(w, l) + w[l + 1]
    BY <1>12, <2>1, SumMore
  <2>7. SumOf(Ids(u, l + 1)) = e.prevId + y.id /\ SumOf(Ats(u, l + 1)) = e.prevAt + y.at
    BY <1>13, <1>14, <2>3, <2>4, <2>5, Zenon
  <2> QED BY <1>4, <1>6, <1>7, <2>7
<1>17. Encoding(b)
  <2>1. Encodes(b)
    BY <1>2, <1>9, Zenon DEF Encodes
  <2>2. FeatsIn(b.feats, b.group, b.count)
    BY <1>2, <1>12, Zenon
  <2>3. b.group \in 0..2
    BY <1>2
  <2>4. b.prevId = SumOf(Ids(b.feats, Len(b.feats))) /\ b.prevAt = SumOf(Ats(b.feats, Len(b.feats)))
    BY <1>2, <1>12, <1>16, Zenon
  <2>5. b.prevId \in Int /\ b.prevAt \in Int
    BY <1>2, <1>6, Zenon
  <2> QED BY <2>1, <2>2, <2>3, <2>4, <2>5 DEF Encoding
<1>18. ReadAt(b, l + 1) = x
  <2>1. NodeRead(b, l + 1) = [f |-> <<0, SumOf(Ids(u, l + 1))>>, at |-> SumOf(Ats(u, l + 1)), tags |-> TagsRead(b, u[l + 1])]
    BY <1>2, Zenon DEF NodeRead, Ids, Ats
  <2>2. NodeRead(b, l + 1) = [f |-> <<0, x.f[2]>>, at |-> x.at, tags |-> x.tags]
    BY <1>5, <1>12, <1>16, <2>1, Zenon
  <2>3. NodeRead(b, l + 1) = x
    BY <1>6, <2>2, Zenon
  <2> QED BY <1>2, <2>3, Zenon DEF ReadAt
<1>19. \A i \in 1..l : ReadAt(b, i) = ReadAt(e, i)
  <2>1. e.group = b.group /\ b.strings \in Seq(AnyText) /\ StringsKept(e.strings, b.strings)
    BY <1>2, <1>9, <1>10
  <2>2. \A i \in DOMAIN e.feats : b.feats[i] = e.feats[i]
    BY <1>2, <1>12
  <2>3. \A i \in DOMAIN e.feats : ReadAt(b, i) = ReadAt(e, i)
    BY <1>10, <1>11, <2>1, <2>2, ReadKept, Zenon
  <2> QED BY <1>12, <2>3
<1>20. Read(b) = Append(Read(e), x)
  <2>1. Read(b) = [i \in 1..(l + 1) |-> ReadAt(b, i)] /\ Read(e) = [i \in 1..l |-> ReadAt(e, i)]
    BY <1>2, <1>12, ReadIs, Zenon
  <2>2. Append(Read(e), x) = [i \in 1..(l + 1) |-> IF i = l + 1 THEN x ELSE ReadAt(e, i)]
    <3> PICK A, s : A = [i \in 1..l |-> ReadAt(e, i)] /\ s = Read(e)
      OBVIOUS
    <3>1. s = [i \in 1..l |-> A[i]]
      BY <2>1
    <3>2. Append(s, x) = [i \in 1..(l + 1) |-> IF i = l + 1 THEN x ELSE A[i]]
      BY <1>12, <3>1, AppendIs
    <3>3. \A i \in 1..(l + 1) : i = l + 1 \/ A[i] = ReadAt(e, i)
      BY <1>12
    <3> QED BY <3>2, <3>3
  <2>3. \A i \in 1..(l + 1) : ReadAt(b, i) = IF i = l + 1 THEN x ELSE ReadAt(e, i)
    BY <1>12, <1>18, <1>19
  <2> QED BY <2>1, <2>2, <2>3, Zenon
<1> QED BY <1>2, <1>17, <1>20

-----------------------------------------------------------------------------
(* A way or a relation                                                     *)

BodyMembers(d, x) ==
  [i \in DOMAIN x.members |->
    [id |-> Deltas(x.members)[i], type |-> x.members[i].f[1],
     role |-> IF x.f[1] = 1 THEN 0 ELSE d.index[x.members[i].role]]]
BodyEntry(d, x) == [id |-> x.f[2], tags |-> TagCodes(d, x), members |-> BodyMembers(d, x)]

(* A way or a relation that is written, ...                                *)
LEMMA BodyWritten ==
  ASSUME NEW e, NEW x, NEW ss, NEW ix, NEW c, NEW d, d = Coded(e, ss, ix, c)
  PROVE  \E n : WriteBody(d, x) = Block(e.group, ss, ix, c, Append(e.feats, BodyEntry(d, x)),
                                        e.prevId, e.prevAt, n, e.lats, e.tags)
<1>1. d.feats = e.feats /\ d.ids = e.ids
  BY CodedFields
<1> PICK y, n, u : Is(y, BodyEntry(d, x)) /\ Is(n, d.ids + (BodySize(x) + 1)) /\ Is(u, Append(d.feats, y))
  BY DEF Is
<1>2. WriteBody(d, x) = [d EXCEPT !.feats = Append(d.feats, y), !.ids = d.ids + BodySize(x) + 1]
  BY Zenon DEF WriteBody, BodyEntry, BodyMembers, Is
<1> PICK n2 : Is(n2, d.ids + BodySize(x) + 1)
  BY DEF Is
<1>3. WriteBody(d, x) = SetIds(SetFeats(d, u), n2)
  <2>1. WriteBody(d, x) = [d EXCEPT !.feats = u, !.ids = n2]
    BY <1>2, Zenon DEF Is
  <2>2. [d EXCEPT !.feats = u, !.ids = n2] = [[d EXCEPT !.feats = u] EXCEPT !.ids = n2]
    OBVIOUS
  <2> QED BY <2>1, <2>2, Zenon DEF SetIds, SetFeats
<1>4. d = Block(e.group, ss, ix, c, e.feats, e.prevId, e.prevAt, e.ids, e.lats, e.tags)
  BY Zenon DEF Coded, Block
<1>5. SetFeats(d, u) = Block(e.group, ss, ix, c, u, e.prevId, e.prevAt, e.ids, e.lats, e.tags)
  BY <1>4, SetIs
<1>6. SetIds(SetFeats(d, u), n2) = Block(e.group, ss, ix, c, u, e.prevId, e.prevAt, n2, e.lats, e.tags)
  BY <1>5, SetIs
<1> QED BY <1>1, <1>3, <1>6, Zenon DEF Is

(* The numbers of the members, each counted from the one before.           *)
LEMMA DeltasSum ==
  ASSUME NEW F, NEW m \in Seq(F), \A i \in 1..Len(m) : m[i].f[2] \in Int, NEW k \in 1..Len(m)
  PROVE  SumTo(Deltas(m), k) = m[k].f[2] /\ DOMAIN Deltas(m) = DOMAIN m
<1> PICK n \in Nat : n = Len(m)
  BY LenProperties
<1> PICK v : Is(v, Deltas(m))
  BY DEF Is
<1>1. DOMAIN m = 1..n
  BY LenProperties
<1>2. v = [i \in 1..n |-> m[i].f[2] - (IF i = 1 THEN 0 ELSE m[i - 1].f[2])]
  BY <1>1, Zenon DEF Deltas, Is
<1>3. \A i \in 1..n : i = 1 \/ i - 1 \in 1..n
  OBVIOUS
<1>4. \A i \in 1..n : v[i] \in Int /\ (v[i] = m[i].f[2] - (IF i = 1 THEN 0 ELSE m[i - 1].f[2]))
  BY <1>2, <1>3
<1>5. PICK g : Summed(g, v, n)
  BY <1>4, SumsExist, Zenon
<1>6. /\ g \in [0..n -> Int] /\ g[0] = 0 /\ \A i \in 1..n : g[i] = g[i - 1] + v[i]
      /\ \A j \in 0..n : SumTo(v, j) = g[j]
  BY <1>5 DEF Summed
<1> DEFINE P == {i \in 0..n : i = 0 \/ g[i] = m[i].f[2]}
<1>7. 0 \in P
  OBVIOUS
<1>8. ASSUME NEW i \in 1..n, i - 1 \in P PROVE i \in P
  <2>1. g[i] = g[i - 1] + v[i] /\ i \in 0..n /\ i - 1 \in 0..n
    BY <1>6
  <2>2. CASE i = 1
    <3>1. g[1] = 0 + m[1].f[2]
      BY <1>4, <1>6, <2>1, <2>2
    <3> QED BY <2>1, <2>2, <3>1
  <2>3. CASE i # 1
    <3>1. g[i - 1] = m[i - 1].f[2] /\ i - 1 \in 1..n
      BY <1>8, <2>3
    <3>2. g[i] = m[i - 1].f[2] + (m[i].f[2] - m[i - 1].f[2])
      BY <1>4, <2>1, <2>3, <3>1
    <3>3. g[i] = m[i].f[2]
      BY <3>1, <3>2
    <3> QED BY <2>1, <3>3
  <2> QED BY <2>2, <2>3
<1>9. k \in 0..n /\ k # 0 /\ k \in 1..n
  OBVIOUS
<1>10. k \in P
  <2>1. P \subseteq 0..n /\ \A i \in 1..n : i - 1 \in P => i \in P
    BY <1>8
  <2> HIDE DEF P
  <2>2. \A i \in 0..n : i \in P
    BY <1>7, <2>1, IntervalInduction
  <2> QED BY <1>9, <2>2
<1>11. SumTo(v, k) = m[k].f[2]
  BY <1>6, <1>9, <1>10
<1> QED BY <1>1, <1>2, <1>11, Zenon DEF Is

(* The members of a way or a relation are read as they are.                *)
MembersKept(b, m, w, v, c) ==
  /\ DOMAIN w = DOMAIN m
  /\ \A k \in DOMAIN m :
       /\ w[k].role \in 0..c - 1 /\ StringAt(b, w[k].role) = m[k].role /\ w[k].id = v[k]
       /\ m[k] = [f |-> <<IF b.group = 1 THEN 0 ELSE w[k].type, SumTo(v, k)>>, role |-> m[k].role]
(* They are.                                                               *)
LEMMA MembersRead ==
  ASSUME NEW e, NEW x, Encodable(x), x.f[1] \in {1, 2}, NEW ss, NEW ix, NEW c, Encoded1(e, x, ss, ix, c),
         NEW d, d.index = ix, NEW b, b.strings = ss, b.group = x.f[1],
         NEW m, Is(m, x.members), NEW w, Is(w, BodyMembers(d, x)), NEW v, Is(v, Deltas(m))
  PROVE  MembersKept(b, m, w, v, c)
<1> PICK strings : Is(strings, StringsOf(x))
  BY DEF Is
<1>0. x.f[1] # 0
  OBVIOUS
<1>1. m \in Seq([f : Names, role : AnyText])
  BY <1>0, Zenon DEF Is, Encodable
<1> PICK n \in Nat : n = Len(m)
  BY <1>1, LenProperties
<1>2. DOMAIN m = 1..n /\ \A k \in 1..n : m[k] \in [f : Names, role : AnyText]
  BY <1>1, ElementOfSeq, LenProperties
<1>3. \A k \in 1..n : m[k] = [f |-> m[k].f, role |-> m[k].role] /\ m[k].f = <<m[k].f[1], m[k].f[2]>> /\ m[k].f[2] \in Int
                      /\ m[k].role \in AnyText
  BY <1>2 DEF Names
<1>4. w = [k \in 1..n |-> [id |-> v[k], type |-> m[k].f[1],
                           role |-> IF x.f[1] = 1 THEN 0 ELSE ix[m[k].role]]]
  BY <1>2, Zenon DEF BodyMembers, Is
<1>5. DOMAIN w = 1..n /\ \A k \in 1..n : /\ w[k].id = v[k] /\ w[k].type = m[k].f[1]
                                         /\ w[k].role = IF x.f[1] = 1 THEN 0 ELSE ix[m[k].role]
  BY <1>4
<1>6. Coding(b.strings, ix, c) /\ (\A s \in DOMAIN ix : ix[s] >= 0) /\ (\A s \in Elems(strings) : s \in DOMAIN ix)
  BY Zenon DEF Encoded1, Is
<1>7. \A s \in Elems(strings) : StringAt(b, ix[s]) = s /\ ix[s] \in 0..c - 1
  <2> SUFFICES ASSUME NEW s \in Elems(strings) PROVE StringAt(b, ix[s]) = s /\ ix[s] \in 0..c - 1
    OBVIOUS
  <2>1. Coding(b.strings, ix, c) /\ s \in DOMAIN ix /\ ix[s] >= 0
    BY <1>6, Zenon
  <2> QED BY <2>1, CodeRead
<1>8. \A k \in 1..n : w[k].role \in 0..c - 1 /\ StringAt(b, w[k].role) = m[k].role
  <2>1. CASE x.f[1] = 1
    <3>1. \A k \in 1..n : m[k].role = EmptyString
      BY <1>2, <2>1 DEF Encodable, Is
    <3>2. c \in Nat \ {0} /\ c = Len(b.strings) /\ b.strings[1] = EmptyString /\ b.strings \in Seq(AnyText)
      BY <1>6 DEF Coding
    <3>3. 0 + 1 \in DOMAIN b.strings /\ b.strings[0 + 1] = EmptyString /\ 0 \in 0..c - 1
      BY <3>2, LenProperties
    <3>4. StringAt(b, 0) = EmptyString
      BY <3>3, Zenon DEF StringAt
    <3>5. \A k \in 1..n : w[k].role = 0
      BY <1>5, <2>1
    <3> QED BY <3>1, <3>3, <3>4, <3>5, Zenon
  <2>2. CASE x.f[1] = 2
    <3>1. \A k \in 1..n : m[k].role \in Elems(strings)
      <4>1. \A k \in DOMAIN m : m[k].role \in Elems(strings)
        BY <2>2, StringsAre, Zenon DEF Is
      <4> QED BY <1>2, <4>1
    <3>2. \A k \in 1..n : w[k].role = ix[m[k].role]
      BY <1>5, <2>2
    <3> QED BY <1>7, <3>1, <3>2, Zenon
  <2> QED BY <2>1, <2>2
<1>9. \A k \in 1..n : SumTo(v, k) = m[k].f[2]
  <2>1. \A k \in 1..Len(m) : m[k].f[2] \in Int
    BY <1>3
  <2>2. \A k \in 1..Len(m) : SumTo(Deltas(m), k) = m[k].f[2]
    BY <1>1, <2>1, DeltasSum, Zenon
  <2> QED BY <2>2, Zenon DEF Is
<1>10. \A k \in 1..n : (IF b.group = 1 THEN 0 ELSE w[k].type) = m[k].f[1]
  <2>1. CASE x.f[1] = 1
    <3>1. \A k \in DOMAIN m : m[k].f[1] = 0
      BY <2>1 DEF Encodable, Is
    <3> QED BY <1>2, <2>1, <3>1
  <2>2. CASE x.f[1] = 2
    BY <1>5, <2>2
  <2> QED BY <2>1, <2>2
<1>11. \A k \in 1..n : m[k] = [f |-> <<IF b.group = 1 THEN 0 ELSE w[k].type, SumTo(v, k)>>, role |-> m[k].role]
  <2> SUFFICES ASSUME NEW k \in 1..n
               PROVE  m[k] = [f |-> <<IF b.group = 1 THEN 0 ELSE w[k].type, SumTo(v, k)>>, role |-> m[k].role]
    OBVIOUS
  <2>1. m[k].f = <<IF b.group = 1 THEN 0 ELSE w[k].type, SumTo(v, k)>>
    BY <1>3, <1>9, <1>10, Zenon
  <2>2. m[k] = [f |-> m[k].f, role |-> m[k].role]
    BY <1>3, Zenon
  <2> QED BY <2>1, <2>2, Zenon
<1> QED BY <1>2, <1>5, <1>8, <1>11, Zenon DEF MembersKept

(* ... is read.                                                            *)
LEMMA BodyReads ==
  ASSUME NEW e, Encoding(e), NEW x, Encodable(x), x.f[1] \in {1, 2}, e.group = x.f[1],
         NEW ss, NEW ix, NEW c, Encoded1(e, x, ss, ix, c), NEW d, d = Coded(e, ss, ix, c), NEW b, b = WriteBody(d, x)
  PROVE  Encoding(b) /\ b.group = x.f[1] /\ Read(b) = Append(Read(e), x)
<1> PICK y : y = BodyEntry(d, x)
  OBVIOUS
<1>1. PICK n : b = Block(e.group, ss, ix, c, Append(e.feats, y), e.prevId, e.prevAt, n, e.lats, e.tags)
  BY BodyWritten
<1> PICK u : Is(u, Append(e.feats, y))
  BY DEF Is
<1>2. /\ b.group = e.group /\ b.strings = ss /\ b.index = ix /\ b.count = c /\ b.feats = u
      /\ b = Coded(b, b.strings, b.index, b.count)
  BY <1>1 DEF Block, Coded, Is
<1>3. d.index = ix
  BY CodedFields
<1>4. y.id = x.f[2] /\ y.members = BodyMembers(d, x) /\ y.tags = TagCodes(d, x)
  BY DEF BodyEntry
<1>a. b.strings = ss /\ b.group = x.f[1]
  BY <1>2
<1>5. TagsIn(b, x, y, c)
  BY <1>3, <1>4, <1>a, TagsCoded
<1> PICK m, w, v : Is(m, x.members) /\ Is(w, BodyMembers(d, x)) /\ Is(v, Deltas(m))
  BY DEF Is
<1>6. MembersKept(b, m, w, v, c)
  BY <1>3, <1>a, MembersRead
<1>b. x.members = m /\ y.members = w
  BY <1>4, Zenon DEF Is
<1>7. x = [f |-> x.f, tags |-> x.tags, members |-> x.members] /\ x.f = <<x.f[1], x.f[2]>>
  BY DEF Encodable, Names
<1>8. FeatIn(e.group, y, c)
  BY <1>5, <1>6, <1>a, <1>b DEF FeatIn, TagsIn, MembersKept
<1>9. Coding(e.strings, e.index, e.count) /\ Coding(ss, ix, c) /\ StringsKept(e.strings, ss)
  BY Zenon DEF Encoding, Encodes, Encoded1
<1>10. e.count = Len(e.strings) /\ c = Len(ss) /\ e.count \in Nat /\ c \in Nat /\ e.count <= c
       /\ e.strings \in Seq(AnyText) /\ ss \in Seq(AnyText)
  BY <1>9 DEF Coding, StringsKept
<1>11. FeatsIn(e.feats, e.group, e.count)
  BY DEF Encoding
<1> PICK l : Is(l, Len(e.feats))
  BY DEF Is
<1>12. /\ FeatsIn(u, e.group, c) /\ l \in Nat /\ DOMAIN e.feats = 1..l /\ DOMAIN u = 1..(l + 1) /\ Len(u) = l + 1
       /\ u[l + 1] = y /\ \A i \in 1..l : u[i] = e.feats[i]
  BY <1>8, <1>10, <1>11, FeatsMore DEF Is
<1>13. Encoding(b)
  <2>1. Encodes(b)
    BY <1>2, <1>9, Zenon DEF Encodes
  <2>2. FeatsIn(b.feats, b.group, b.count)
    BY <1>2, <1>12, Zenon
  <2>3. b.group \in 0..2 /\ b.group # 0
    BY <1>2
  <2> QED BY <2>1, <2>2, <2>3 DEF Encoding
<1>14. ReadAt(b, l + 1) = x
  <2>1. \A k \in DOMAIN m : [j \in 1..k |-> w[j].id] = [j \in 1..k |-> v[j]]
    <3>1. PICK S : m \in Seq(S)
      BY <1>a, <1>b DEF Encodable
    <3>2. \A k \in DOMAIN m : \A j \in 1..k : j \in DOMAIN m
      BY <3>1, LenProperties
    <3> QED BY <1>6, <3>2, Zenon DEF MembersKept
  <2>2. \A k \in DOMAIN m : SumOf([j \in 1..k |-> w[j].id]) = SumTo(v, k)
    BY <2>1, Zenon DEF SumTo
  <2> DEFINE M == [k \in DOMAIN y.members |->
                    [f |-> <<IF b.group = 1 THEN 0 ELSE y.members[k].type, SumOf([j \in 1..k |-> y.members[j].id])>>,
                     role |-> StringAt(b, y.members[k].role)]]
  <2>3. M = [k \in DOMAIN m |-> m[k]]
    <3>1. \A k \in DOMAIN m : [f |-> <<IF b.group = 1 THEN 0 ELSE w[k].type, SumOf([j \in 1..k |-> w[j].id])>>,
                               role |-> StringAt(b, w[k].role)] = m[k]
      BY <1>6, <2>2, Zenon DEF MembersKept
    <3>2. [k \in DOMAIN w |-> [f |-> <<IF b.group = 1 THEN 0 ELSE w[k].type, SumOf([j \in 1..k |-> w[j].id])>>,
                               role |-> StringAt(b, w[k].role)]] = [k \in DOMAIN m |-> m[k]]
      BY <1>6, <3>1, Zenon DEF MembersKept
    <3> QED BY <1>b, <3>2, Zenon
  <2>4. m = [k \in DOMAIN m |-> m[k]]
    <3>1. PICK S : m \in Seq(S)
      BY <1>a, <1>b DEF Encodable
    <3> QED BY <3>1, LenProperties
  <2>5. BodyRead(b, l + 1) = [f |-> <<b.group, y.id>>, tags |-> TagsRead(b, y), members |-> M]
    BY <1>2, <1>12, Zenon DEF BodyRead
  <2>6. BodyRead(b, l + 1) = [f |-> <<x.f[1], x.f[2]>>, tags |-> x.tags, members |-> m]
    BY <1>4, <1>5, <1>a, <2>3, <2>4, <2>5, Zenon DEF TagsIn
  <2>7. BodyRead(b, l + 1) = x
    BY <1>7, <1>b, <2>6, Zenon
  <2>8. b.group # 0
    BY <1>a
  <2> QED BY <2>7, <2>8, Zenon DEF ReadAt
<1>15. \A i \in 1..l : ReadAt(b, i) = ReadAt(e, i)
  <2>1. e.group = b.group /\ b.strings \in Seq(AnyText) /\ StringsKept(e.strings, b.strings)
    BY <1>2, <1>9, <1>10
  <2>2. \A i \in DOMAIN e.feats : b.feats[i] = e.feats[i]
    BY <1>2, <1>12
  <2>3. \A i \in DOMAIN e.feats : ReadAt(b, i) = ReadAt(e, i)
    BY <1>10, <1>11, <2>1, <2>2, ReadKept, Zenon
  <2> QED BY <1>12, <2>3
<1>16. Read(b) = Append(Read(e), x)
  <2>1. Read(b) = [i \in 1..(l + 1) |-> ReadAt(b, i)] /\ Read(e) = [i \in 1..l |-> ReadAt(e, i)]
    BY <1>2, <1>12, ReadIs, Zenon
  <2>2. Append(Read(e), x) = [i \in 1..(l + 1) |-> IF i = l + 1 THEN x ELSE ReadAt(e, i)]
    <3> PICK A, s : A = [i \in 1..l |-> ReadAt(e, i)] /\ s = Read(e)
      OBVIOUS
    <3>1. s = [i \in 1..l |-> A[i]]
      BY <2>1
    <3>2. Append(s, x) = [i \in 1..(l + 1) |-> IF i = l + 1 THEN x ELSE A[i]]
      BY <1>12, <3>1, AppendIs
    <3>3. \A i \in 1..(l + 1) : i = l + 1 \/ A[i] = ReadAt(e, i)
      BY <1>12
    <3> QED BY <3>2, <3>3
  <2>3. \A i \in 1..(l + 1) : ReadAt(b, i) = IF i = l + 1 THEN x ELSE ReadAt(e, i)
    BY <1>12, <1>14, <1>15
  <2> QED BY <2>1, <2>2, <2>3, Zenon
<1> QED BY <1>a, <1>13, <1>16

(* A feature that fits is read after those that were in the block before,  *)
(* as it is.                                                               *)
LEMMA AddReads ==
  ASSUME NEW e, Encoding(e), NEW x, Encodable(x), e.group = x.f[1], Fits(e, x), NEW b, b = Add(e, x)
  PROVE  Encoding(b) /\ b.group = e.group /\ Read(b) = Append(Read(e), x)
<1>1. Encodes(e) /\ x.f[1] \in 0..2
  BY DEF Encoding
<1>2. PICK ss, ix, c : Encoded1(e, x, ss, ix, c)
  BY <1>1, FitsCodes
<1> PICK d : Is(d, AddStrings(e, x))
  BY DEF Is
<1>3. d = Coded(e, ss, ix, c)
  BY <1>2, Zenon DEF Encoded1, Is
<1>4. b = IF x.f[1] = 0 THEN WriteNode(d, x) ELSE WriteBody(d, x)
  BY Zenon DEF Add, Is
<1>5. CASE x.f[1] = 0
  BY <1>2, <1>3, <1>4, <1>5, NodeReads
<1>6. CASE x.f[1] # 0
  <2>1. x.f[1] \in {1, 2}
    BY <1>1, <1>6
  <2> QED BY <1>2, <1>3, <1>4, <1>6, <2>1, BodyReads
<1> QED BY <1>5, <1>6

(* Nothing is in a new block.                                              *)
LEMMA StartReads ==
  ASSUME NEW e, NEW g \in 0..2, NEW b, b = Start(e, g)
  PROVE  Encoding(b) /\ b.group = g /\ Read(b) = <<>>
<1> PICK s0 : Is(s0, EmptyString)
  BY DEF Is
<1>0. s0 \in AnyText
  BY DEF Is, AnyText
<1> DEFINE ix == IF g = 0 THEN [s \in {} |-> 0] ELSE [s \in {s0} |-> 0]
<1>1. b = [group |-> g, strings |-> <<EmptyString>>, index |-> ix, count |-> 1, feats |-> <<>>,
           prevId |-> 0, prevAt |-> 0, ids |-> 0, lats |-> 0, tags |-> 0]
  BY DEF Start, NoBlock, Is
<1>2. ix \in Indexes /\ \A s \in DOMAIN ix : s = s0 /\ ix[s] = 0
  <2>1. CASE g = 0
    <3>1. ix \in [{} -> Int] /\ {} \in SUBSET AnyText
      BY <2>1
    <3> QED BY <2>1, <3>1 DEF Indexes
  <2>2. CASE g # 0
    <3>1. ix \in [{s0} -> Int]
      BY <2>2
    <3>2. {s0} \in SUBSET AnyText
      BY <1>0
    <3> QED BY <2>2, <3>1, <3>2 DEF Indexes
  <2> QED BY <2>1, <2>2
<1> HIDE DEF ix
<1>3. /\ b.group = g /\ b.strings = <<EmptyString>> /\ b.index = ix /\ b.count = 1 /\ b.feats = <<>>
      /\ b.prevId = 0 /\ b.prevAt = 0 /\ b = Coded(b, b.strings, b.index, b.count)
  BY <1>1 DEF Coded
<1>4. Coding(<<EmptyString>>, ix, 1)
  <2>1. <<s0>> \in Seq(AnyText) /\ Len(<<s0>>) = 1 /\ <<s0>>[1] = s0
    <3>1. <<s0>> \in [1..1 -> AnyText] /\ <<s0>>[1] = s0
      BY <1>0
    <3> QED BY <3>1, SeqDef, LenProperties
  <2>2. \A s \in DOMAIN ix : ix[s] < 1 /\ (ix[s] >= 0 => <<s0>>[ix[s] + 1] = s)
    BY <1>2, <2>1
  <2>3. 1 \in Nat \ {0}
    OBVIOUS
  <2> QED BY <1>2, <2>1, <2>2, <2>3, Zenon DEF Coding, Is
<1>5. Encodes(b)
  BY <1>3, <1>4, Zenon DEF Encodes
<1>6. FeatsIn(<<>>, g, 1)
  <2>1. <<>> \in Seq({}) /\ DOMAIN <<>> = {}
    BY EmptySeq
  <2> QED BY <2>1 DEF FeatsIn
<1>7. SumOf(Ids(<<>>, 0)) = 0 /\ SumOf(Ats(<<>>, 0)) = 0
  <2>1. \A v : SumTo(v, 0) = 0
    <3> SUFFICES ASSUME NEW v PROVE SumTo(v, 0) = 0
      OBVIOUS
    <3>1. \A j \in 1..0 : v[j] \in Int
      OBVIOUS
    <3>2. PICK g1 : Summed(g1, v, 0)
      BY <3>1, SumsExist
    <3> QED BY <3>2 DEF Summed
  <2>2. Ids(<<>>, 0) = <<>> /\ Ats(<<>>, 0) = <<>> /\ [j \in 1..0 |-> g] = <<>>
    BY DEF Ids, Ats
  <2>3. SumTo([j \in 1..0 |-> g], 0) = SumOf(<<>>)
    <3>1. [j \in 1..0 |-> [i \in 1..0 |-> g][j]] = <<>>
      OBVIOUS
    <3> QED BY <3>1, Zenon DEF SumTo
  <2> QED BY <2>1, <2>2, <2>3
<1>8. Encoding(b)
  <2>1. Len(<<>>) = 0
    OBVIOUS
  <2> QED BY <1>3, <1>5, <1>6, <1>7, <2>1 DEF Encoding
<1>9. Read(b) = <<>>
  <2>1. DOMAIN b.feats = {}
    BY <1>3
  <2>2. Read(b) = [i \in {} |-> ReadAt(b, i)]
    BY <2>1, ReadIs, Zenon
  <2> QED BY <2>2
<1> QED BY <1>3, <1>8, <1>9

(* Nothing is read where there is no block.                                *)
LEMMA NoBlockReads == Read(NoBlock) = <<>> /\ NoBlock.group = -1
<1>1. NoBlock.feats = <<>> /\ NoBlock.group = -1
  BY DEF NoBlock
<1>2. DOMAIN NoBlock.feats = {}
  BY <1>1
<1>3. Read(NoBlock) = [i \in {} |-> ReadAt(NoBlock, i)]
  BY <1>2, ReadIs, Zenon
<1> QED BY <1>1, <1>3

-----------------------------------------------------------------------------
(* The features of a file                                                  *)

(* Names have an order.                                                    *)
LEMMA NamesOrdered ==
  /\ \A f \in Names : ~Before(f, f)
  /\ \A f, g, h \in Names : Before(f, g) /\ Before(g, h) => Before(f, h)
  /\ \A f, g \in Names : f = g \/ Before(f, g) \/ Before(g, f)
<1>1. \A f \in Names : f = <<f[1], f[2]>> /\ f[1] \in 0..2 /\ f[2] \in Int
  BY DEF Names
<1>2. \A f, g \in Names : f[1] = g[1] /\ f[2] = g[2] => f = g
  BY <1>1, Zenon
<1>3. \A f, g \in Names : f = g \/ Before(f, g) \/ Before(g, f)
  BY <1>1, <1>2 DEF Before
<1>4. \A f \in Names : ~Before(f, f)
  BY <1>1 DEF Before
<1>5. \A f, g, h \in Names : Before(f, g) /\ Before(g, h) => Before(f, h)
  BY <1>1 DEF Before
<1> QED BY <1>3, <1>4, <1>5

(* Each has a rank of its own, and all ranks are taken.                    *)
LEMMA RanksTaken ==
  ASSUME NEW fs \in SUBSET Names, IsFiniteSet(fs), NEW i \in 1..Cardinality(fs)
  PROVE  \E f \in fs : Cardinality({g \in fs : Before(g, f)}) = i - 1
<1> DEFINE below(f) == {g \in fs : Before(g, f)}
           rank == [f \in fs |-> Cardinality(below(f))]
<1> PICK n : n = Cardinality(fs)
  OBVIOUS
<1>0. n \in Nat
  BY FS_CardinalityType
<1>1. \A f \in fs : IsFiniteSet(below(f)) /\ Cardinality(below(f)) \in Nat /\ Cardinality(below(f)) < n
  <2> SUFFICES ASSUME NEW f \in fs
               PROVE  IsFiniteSet(below(f)) /\ Cardinality(below(f)) \in Nat /\ Cardinality(below(f)) < n
    OBVIOUS
  <2>1. below(f) \subseteq fs /\ f \notin below(f)
    BY NamesOrdered
  <2> PICK B : B = below(f)
    OBVIOUS
  <2>2. B \in SUBSET fs /\ B # fs
    BY <2>1
  <2>3. IsFiniteSet(B) /\ Cardinality(B) \in Nat /\ Cardinality(B) <= n /\ Cardinality(B) # n
    BY <1>0, <2>2, FS_Subset, FS_CardinalityType
  <2> QED BY <1>0, <2>3
<1>2. ASSUME NEW f \in fs, NEW g \in fs, Before(f, g) PROVE Cardinality(below(f)) < Cardinality(below(g))
  <2> PICK A, B : A = below(f) /\ B = below(g)
    OBVIOUS
  <2>1. A \in SUBSET B
    <3> SUFFICES ASSUME NEW h \in A PROVE h \in B
      OBVIOUS
    <3>1. h \in fs /\ Before(h, f) /\ h \in Names /\ f \in Names /\ g \in Names
      OBVIOUS
    <3>2. Before(h, g)
      BY <1>2, <3>1, NamesOrdered
    <3> QED BY <3>1, <3>2
  <2>2. f \in B /\ f \notin A
    BY <1>2, NamesOrdered
  <2>3. IsFiniteSet(B) /\ Cardinality(A) \in Nat /\ Cardinality(B) \in Nat
    BY <1>1
  <2>4. Cardinality(A) <= Cardinality(B) /\ Cardinality(A) # Cardinality(B)
    BY <2>1, <2>2, <2>3, FS_Subset
  <2> QED BY <2>3, <2>4
<1>3. \A f, g \in fs : rank[f] = rank[g] => f = g
  <2> SUFFICES ASSUME NEW f \in fs, NEW g \in fs, f # g PROVE rank[f] # rank[g]
    OBVIOUS
  <2>1. Cardinality(below(f)) \in Nat /\ Cardinality(below(g)) \in Nat
    BY <1>1
  <2>2. Before(f, g) \/ Before(g, f)
    BY NamesOrdered
  <2>3. Cardinality(below(f)) < Cardinality(below(g)) \/ Cardinality(below(g)) < Cardinality(below(f))
    BY <1>2, <2>2
  <2> HIDE DEF below
  <2> QED BY <2>1, <2>3
<1>4. rank \in [fs -> 0..n - 1]
  <2> HIDE DEF below
  <2>1. \A f \in fs : Cardinality(below(f)) \in 0..n - 1
    BY <1>0, <1>1
  <2> QED BY <2>1
<1> DEFINE T == {rank[f] : f \in fs}
<1>5. T \in SUBSET (0..n - 1)
  BY <1>4
<1>6. IsFiniteSet(0..n - 1) /\ Cardinality(0..n - 1) = n
  <2> PICK k \in Int : k = n - 1
    BY <1>0
  <2>0. 0 \in Int
    OBVIOUS
  <2>1. IsFiniteSet(0..k) /\ Cardinality(0..k) = IF 0 > k THEN 0 ELSE k - 0 + 1
    BY <2>0, FS_Interval, Zenon
  <2> QED BY <1>0, <2>1
<1> HIDE DEF rank
<1>7. IsFiniteSet(T) /\ Cardinality(T) = n
  <2>1. rank \in Bijection(fs, T)
    <3>1. rank \in [fs -> T] /\ \A t \in T : \E f \in fs : rank[f] = t
      BY <1>4
    <3> HIDE DEF T
    <3> QED BY <1>3, <3>1 DEF Bijection, Injection, Surjection, IsInjective
  <2> QED BY <2>1, FS_Bijection DEF ExistsBijection
<1>8. T = 0..n - 1
  BY <1>5, <1>6, <1>7, FS_Subset
<1>9. i - 1 \in 0..n - 1
  BY <1>0
<1>10. PICK f \in fs : rank[f] = i - 1
  BY <1>8, <1>9
<1> QED BY <1>10 DEF rank

(* Each place has one.                                                     *)
LEMMA SortedIs ==
  ASSUME NEW fs \in SUBSET Names, IsFiniteSet(fs), NEW s, s = Sorted(fs)
  PROVE  s \in Seq(fs)
<1> DEFINE c(i) == CHOOSE f \in fs : Cardinality({g \in fs : Before(g, f)}) = i - 1
<1>1. \A i \in 1..Cardinality(fs) : c(i) \in fs
  BY RanksTaken
<1>2. s = [i \in 1..Cardinality(fs) |-> c(i)] /\ Cardinality(fs) \in Nat
  BY FS_CardinalityType, Zenon DEF Sorted
<1> HIDE DEF c
<1>3. s \in [1..Cardinality(fs) -> fs]
  BY <1>1, <1>2
<1> QED BY <1>2, <1>3, SeqDef

(* A feature of the library can be encoded.                                *)
LEMMA LibraryEncodable ==
  ASSUME NEW lib, IsLibrary(lib), NEW f \in DOMAIN lib
  PROVE  Encodable(Encoded(lib, f))
<1> PICK t, m : Is(t, lib[f].tags) /\ Is(m, lib[f].members)
  BY DEF Is
<1>1. f \in Names /\ DOMAIN lib \subseteq Names
  BY DEF IsLibrary
<1>2. t \in Seq(STRING \X STRING)
  BY DEF IsLibrary, Is
<1>3. t \in Seq(AnyText \X AnyText)
  BY <1>2, SeqDef DEF AnyText
<1>4. CASE f[1] = 0
  <2>1. Encoded(lib, f) = [f |-> f, at |-> lib[f].at, tags |-> t]
    BY <1>4, Zenon DEF Encoded, Is
  <2>2. lib[f].at \in Int
    BY <1>4 DEF IsLibrary
  <2> QED BY <1>1, <1>3, <1>4, <2>1, <2>2 DEF Encodable
<1>5. CASE f[1] # 0
  <2>1. Encoded(lib, f) = [f |-> f, tags |-> t, members |-> m]
    BY <1>5, Zenon DEF Encoded, Is
  <2>2. m \in Seq(Members(lib))
    BY <1>5 DEF IsLibrary, Is
  <2>3. Members(lib) \subseteq [f : Names, role : AnyText]
    BY <1>1 DEF Members, AnyText
  <2>4. m \in Seq([f : Names, role : AnyText])
    <3> PICK A, B : Is(A, Members(lib)) /\ Is(B, [f : Names, role : AnyText])
      BY DEF Is
    <3>1. m \in Seq(A) /\ A \subseteq B
      BY <2>2, <2>3, Zenon DEF Is
    <3>2. m \in Seq(B)
      BY <3>1, LenProperties, SeqDef
    <3> QED BY <3>2, Zenon DEF Is
  <2>5. f[1] = 1 => \A i \in DOMAIN m : m[i].f[1] = 0 /\ m[i].role = EmptyString
    BY DEF IsLibrary, Is, EmptyString
  <2> PICK x : x = [f |-> f, tags |-> t, members |-> m]
    OBVIOUS
  <2>6. x.f = f /\ x.tags = t /\ x.members = m
    OBVIOUS
  <2>7. Encodable(x)
    BY <1>1, <1>3, <1>5, <2>4, <2>5, <2>6, Zenon DEF Encodable
  <2> QED BY <2>1, <2>7
<1> QED BY <1>4, <1>5

(* All of them can be encoded.                                             *)
LEMMA FeaturesEncodable ==
  ASSUME NEW lib, IsLibrary(lib), NEW fs \in SUBSET DOMAIN lib
  PROVE  Features(lib, fs) \in Seq({x \in {Encoded(lib, f) : f \in fs} : Encodable(x)})
<1> PICK s : s = Sorted(fs)
  OBVIOUS
<1>1. IsFiniteSet(fs) /\ fs \in SUBSET Names
  BY FS_Subset DEF IsLibrary
<1>2. s \in Seq(fs)
  BY <1>1, SortedIs
<1> DEFINE X == {x \in {Encoded(lib, f) : f \in fs} : Encodable(x)}
<1>3. Features(lib, fs) = [i \in DOMAIN s |-> Encoded(lib, s[i])]
  BY Zenon DEF Features
<1>4. \A i \in DOMAIN s : s[i] \in fs
  BY <1>2, LenProperties, ElementOfSeq
<1>5. \A i \in DOMAIN s : Encoded(lib, s[i]) \in X
  BY <1>4, LibraryEncodable
<1> HIDE DEF X
<1>6. DOMAIN s = 1..Len(s) /\ Len(s) \in Nat
  BY <1>2, LenProperties
<1>7. [i \in DOMAIN s |-> Encoded(lib, s[i])] \in Seq(X)
  BY <1>5, <1>6, SeqDef
<1> QED BY <1>3, <1>7 DEF X

-----------------------------------------------------------------------------
(* What is in a file                                                       *)

(* The blocks in the file f, behind its header, and those in the queue bs, *)
(* are read as the sequences ps.                                           *)
Behind(f) == IF f = <<>> THEN 0 ELSE Len(f) - 1
Parts(ps, f, bs) ==
  /\ Len(ps) = Behind(f) + Len(bs)
  /\ \A i \in 1..Behind(f) : ps[i] = Read(f[i + 1])
  /\ \A i \in 1..Len(bs) : ps[Behind(f) + i] = Read(bs[i])
Queues(f, bs) == \E B : f \in Seq(B) /\ bs \in Seq(B)

(* Lengths.                                                                *)
LEMMA QueuesFacts ==
  ASSUME NEW f, NEW bs, Queues(f, bs)
  PROVE  /\ Len(f) \in Nat /\ Len(bs) \in Nat /\ DOMAIN f = 1..Len(f) /\ DOMAIN bs = 1..Len(bs)
         /\ Behind(f) \in Nat /\ (f # <<>> => Len(f) = Behind(f) + 1) /\ (f = <<>> => Behind(f) = 0)
<1>1. PICK B : f \in Seq(B) /\ bs \in Seq(B)
  BY DEF Queues
<1>2. Len(f) \in Nat /\ Len(bs) \in Nat /\ DOMAIN f = 1..Len(f) /\ DOMAIN bs = 1..Len(bs)
  BY <1>1, LenProperties
<1>3. f # <<>> => Len(f) # 0
  BY <1>1, EmptySeq
<1> QED BY <1>2, <1>3 DEF Behind

(* A block is posted, ...                                                  *)
LEMMA PartsPost ==
  ASSUME NEW X, NEW ps \in Seq(Seq(X)), NEW f, NEW bs, Queues(f, bs), Parts(ps, f, bs), NEW e, Read(e) \in Seq(X)
  PROVE  Queues(f, Append(bs, e)) /\ Parts(Append(ps, Read(e)), f, Append(bs, e)) /\ Append(ps, Read(e)) \in Seq(Seq(X))
         /\ FlattenSeq(Append(ps, Read(e))) = FlattenSeq(ps) \o Read(e)
<1>1. PICK B : f \in Seq(B) /\ bs \in Seq(B)
  BY DEF Queues
<1> PICK C : C = B \union {e}
  OBVIOUS
<1>2. f \in Seq(C) /\ bs \in Seq(C) /\ e \in C
  BY <1>1, LenProperties, SeqDef
<1> PICK r, cs, qs : Is(r, Read(e)) /\ Is(cs, Append(bs, e)) /\ Is(qs, Append(ps, r))
  BY DEF Is
<1> PICK n, m : Is(n, Behind(f)) /\ Is(m, Len(bs))
  BY DEF Is
<1>3. cs \in Seq(C) /\ Len(cs) = m + 1 /\ cs[m + 1] = e /\ \A i \in 1..m : cs[i] = bs[i]
  BY <1>2, AppendProperties DEF Is
<1>4. n \in Nat /\ m \in Nat
  BY QueuesFacts DEF Is
<1>5. /\ Len(ps) = n + m /\ (\A i \in 1..n : ps[i] = Read(f[i + 1])) /\ (\A i \in 1..m : ps[n + i] = Read(bs[i]))
  BY Zenon DEF Parts, Is
<1>6. r \in Seq(X)
  BY Zenon DEF Is
<1>7. qs \in Seq(Seq(X)) /\ Len(qs) = n + m + 1 /\ qs[n + m + 1] = r /\ \A i \in 1..n + m : qs[i] = ps[i]
  BY <1>5, <1>6, AppendProperties DEF Is
<1>8. \A i \in 1..n : qs[i] = Read(f[i + 1])
  <2> SUFFICES ASSUME NEW i \in 1..n PROVE qs[i] = Read(f[i + 1])
    OBVIOUS
  <2>1. i \in 1..n + m
    BY <1>4
  <2> QED BY <1>5, <1>7, <2>1, Zenon
<1>9. \A i \in 1..m + 1 : qs[n + i] = Read(cs[i])
  <2> SUFFICES ASSUME NEW i \in 1..m + 1 PROVE qs[n + i] = Read(cs[i])
    OBVIOUS
  <2>1. CASE i \in 1..m
    <3>1. n + i \in 1..n + m /\ cs[i] = bs[i]
      BY <1>3, <1>4, <2>1
    <3> QED BY <1>5, <1>7, <2>1, <3>1
  <2>2. CASE i = m + 1
    <3>1. n + i = n + m + 1 /\ cs[i] = e
      BY <1>3, <1>4, <2>2
    <3>2. Read(cs[i]) = r
      BY <3>1, Zenon DEF Is
    <3> QED BY <1>7, <3>1, <3>2
  <2> QED BY <1>4, <2>1, <2>2
<1>10. Len(qs) = n + Len(cs) /\ \A i \in 1..Len(cs) : qs[n + i] = Read(cs[i])
  BY <1>3, <1>4, <1>7, <1>9
<1>11. Parts(qs, f, cs)
  BY <1>8, <1>10, Zenon DEF Parts, Is
<1>12. Queues(f, cs)
  BY <1>2, <1>3 DEF Queues
<1>13. FlattenSeq(qs) = FlattenSeq(ps) \o r
  BY <1>6, FlattenAppend DEF Is
<1> QED BY <1>7, <1>11, <1>12, <1>13, Zenon DEF Is

(* ... and written; ...                                                    *)
LEMMA PartsWrite ==
  ASSUME NEW ps, NEW f, NEW bs, Queues(f, bs), Parts(ps, f, bs), f # <<>>, bs # <<>>
  PROVE  /\ Queues(Append(f, Head(bs)), Tail(bs)) /\ Parts(ps, Append(f, Head(bs)), Tail(bs))
         /\ Append(f, Head(bs)) # <<>> /\ Append(f, Head(bs))[1] = f[1]
<1>1. PICK B : f \in Seq(B) /\ bs \in Seq(B)
  BY DEF Queues
<1> PICK h, t, g : Is(h, Head(bs)) /\ Is(t, Tail(bs)) /\ Is(g, Append(f, h))
  BY DEF Is
<1> PICK n, m : Is(n, Behind(f)) /\ Is(m, Len(bs))
  BY DEF Is
<1>2. n \in Nat /\ m \in Nat /\ Len(f) = n + 1
  BY QueuesFacts DEF Is
<1>3. h \in B /\ h = bs[1] /\ t \in Seq(B) /\ Len(t) = m - 1 /\ m # 0 /\ \A i \in 1..m - 1 : t[i] = bs[i + 1]
  <2>1. h \in B /\ t \in Seq(B) /\ h = bs[1]
    BY <1>1, HeadTailProperties DEF Is
  <2>2. Len(t) = Len(bs) - 1 /\ \A i \in 1..Len(bs) - 1 : t[i] = bs[i + 1]
    BY <1>1, HeadTailProperties DEF Is
  <2>3. m # 0
    BY <1>1, EmptySeq DEF Is
  <2> QED BY <2>1, <2>2, <2>3 DEF Is
<1>4. g \in Seq(B) /\ Len(g) = n + 2 /\ g[n + 2] = h /\ \A i \in 1..n + 1 : g[i] = f[i]
  BY <1>1, <1>2, <1>3, AppendProperties DEF Is
<1>5. g # <<>> /\ g[1] = f[1]
  BY <1>2, <1>4, EmptySeq
<1>6. Behind(g) = n + 1
  BY <1>2, <1>4, <1>5 DEF Behind
<1>7. /\ Len(ps) = n + m /\ (\A i \in 1..n : ps[i] = Read(f[i + 1])) /\ (\A i \in 1..m : ps[n + i] = Read(bs[i]))
  BY Zenon DEF Parts, Is
<1>8. \A i \in 1..n + 1 : ps[i] = Read(g[i + 1])
  <2> SUFFICES ASSUME NEW i \in 1..n + 1 PROVE ps[i] = Read(g[i + 1])
    OBVIOUS
  <2>1. CASE i \in 1..n
    <3>1. g[i + 1] = f[i + 1]
      BY <1>2, <1>4, <2>1
    <3> QED BY <1>7, <2>1, <3>1
  <2>2. CASE i = n + 1
    <3>1. g[i + 1] = bs[1] /\ 1 \in 1..m
      BY <1>2, <1>3, <1>4, <2>2
    <3> QED BY <1>7, <2>2, <3>1
  <2> QED BY <1>2, <2>1, <2>2
<1>9. \A i \in 1..m - 1 : ps[(n + 1) + i] = Read(t[i])
  <2> SUFFICES ASSUME NEW i \in 1..m - 1 PROVE ps[(n + 1) + i] = Read(t[i])
    OBVIOUS
  <2>1. i + 1 \in 1..m /\ n + (i + 1) = (n + 1) + i /\ t[i] = bs[i + 1]
    BY <1>2, <1>3
  <2> QED BY <1>7, <2>1
<1>10. Len(ps) = (n + 1) + Len(t)
  BY <1>2, <1>3, <1>7
<1>11. Parts(ps, g, t)
  BY <1>3, <1>6, <1>8, <1>9, <1>10, Zenon DEF Parts
<1>12. Queues(g, t)
  BY <1>3, <1>4 DEF Queues
<1> QED BY <1>5, <1>11, <1>12, Zenon DEF Is

(* ... the header comes first.                                             *)
LEMMA PartsHeader ==
  ASSUME NEW ps, NEW bs, Queues(<<>>, bs), Parts(ps, <<>>, bs), NEW h
  PROVE  Queues(<<h>>, bs) /\ Parts(ps, <<h>>, bs) /\ <<h>> # <<>> /\ <<h>>[1] = h
<1>1. PICK B : bs \in Seq(B)
  BY DEF Queues
<1> PICK C : C = B \union {h}
  OBVIOUS
<1>2. bs \in Seq(C)
  BY <1>1, LenProperties, SeqDef
<1>3. <<h>> \in Seq(C) /\ Len(<<h>>) = 1 /\ <<h>> # <<>> /\ <<h>>[1] = h
  <2>1. <<h>> \in [1..1 -> C] /\ <<h>>[1] = h
    OBVIOUS
  <2> QED BY <2>1, SeqDef, LenProperties, EmptySeq
<1>4. Behind(<<h>>) = 0 /\ Behind(<<>>) = 0
  BY <1>3 DEF Behind
<1>5. Parts(ps, <<h>>, bs)
  <2>1. Len(ps) = 0 + Len(bs) /\ \A i \in 1..Len(bs) : ps[0 + i] = Read(bs[i])
    BY <1>4 DEF Parts
  <2>2. \A i \in 1..0 : ps[i] = Read(<<h>>[i + 1])
    OBVIOUS
  <2> QED BY <1>4, <2>1, <2>2, Zenon DEF Parts
<1> QED BY <1>2, <1>3, <1>5 DEF Queues

(* When all is written, the file has all of them.                          *)
LEMMA PartsWritten ==
  ASSUME NEW X, NEW ps \in Seq(Seq(X)), NEW f, Queues(f, <<>>), Parts(ps, f, <<>>), f # <<>>
  PROVE  FlattenSeq([i \in 1..(Len(f) - 1) |-> Read(f[i + 1])]) = FlattenSeq(ps)
<1> PICK n : Is(n, Len(f) - 1)
  BY DEF Is
<1>1. n \in Nat /\ Behind(f) = n /\ Len(<<>>) = 0
  BY QueuesFacts DEF Is
<1>2. Len(ps) = n + Len(<<>>) /\ \A i \in 1..n : ps[i] = Read(f[i + 1])
  BY <1>1, Zenon DEF Parts
<1>3. ps = [i \in 1..n |-> ps[i]]
  BY <1>1, <1>2, LenProperties
<1>4. [i \in 1..n |-> Read(f[i + 1])] = [i \in 1..n |-> ps[i]]
  BY <1>2, Zenon
<1>5. FlattenSeq([i \in 1..n |-> Read(f[i + 1])]) = FlattenSeq(ps)
  BY <1>3, <1>4, Zenon
<1> QED BY <1>5, Zenon DEF Is

-----------------------------------------------------------------------------
(* How far a PBF file is                                                   *)

Lined(f, bs, wr) ==
  /\ Queues(f, bs) /\ wr \in {"header", "queue", "done"} /\ (wr = "header" <=> f = <<>>)
  /\ f # <<>> => f[1] = "OSMHeader"

(* The blocks, the one under construction and the features that are left   *)
(* are all features of the file, in order.                                 *)
Packed(X, ps, e, td, all) ==
  /\ Read(e) \in Seq(X) /\ td \in Seq(X) /\ ps \in Seq(Seq(X)) /\ \A x \in X : Encodable(x)
  /\ (FlattenSeq(ps) \o Read(e)) \o td = all

FileStage(k, fs, st, f, bs, e, td, wr) ==
  /\ Lined(f, bs, wr) /\ (e = NoBlock \/ Encoding(e))
  /\ st # "encode" => e = NoBlock /\ td = <<>>
  /\ st = "done" => wr = "done" /\ bs = <<>>
  /\ \E ps : /\ Parts(ps, f, bs)
             /\ IF st \in {"encode", "await", "done"}
                THEN \E X : Packed(X, ps, e, td, Features(k.lib, fs))
                ELSE ps = <<>>

(* Before anything is collected.                                           *)
LEMMA FileBegins ==
  ASSUME NEW k, NEW fs
  PROVE  FileStage(k, fs, "header", <<>>, <<>>, NoBlock, <<>>, "header")
<1>1. <<>> \in Seq({}) /\ Len(<<>>) = 0 /\ Behind(<<>>) = 0
  BY EmptySeq DEF Behind
<1>2. Queues(<<>>, <<>>)
  BY <1>1 DEF Queues
<1>3. Parts(<<>>, <<>>, <<>>)
  BY <1>1 DEF Parts
<1>4. Lined(<<>>, <<>>, "header")
  BY <1>2 DEF Lined
<1>5. "header" \notin {"encode", "await", "done"}
  OBVIOUS
<1> QED BY <1>3, <1>4, <1>5, Zenon DEF FileStage

(* The printing thread collects.                                           *)
LEMMA FileCollects ==
  ASSUME NEW k, NEW fs, NEW st \in {"header", "queue", "footer"}, NEW f, NEW bs, NEW e, NEW td, NEW wr,
         FileStage(k, fs, st, f, bs, e, td, wr), NEW fs2, NEW st2 \in {"header", "queue", "footer"}
  PROVE  FileStage(k, fs2, st2, f, bs, e, td, wr)
<1>1. st \notin {"encode", "await", "done"} /\ st2 \notin {"encode", "await", "done"} /\ st # "encode" /\ st2 # "done"
  OBVIOUS
<1> QED BY <1>1, Zenon DEF FileStage

(* All that is collected is to be encoded.                                 *)
LEMMA FileSorted ==
  ASSUME NEW k, IsLibrary(k.lib), NEW fs \in SUBSET DOMAIN k.lib, NEW f, NEW bs, NEW e, NEW td, NEW wr,
         FileStage(k, fs, "footer", f, bs, e, td, wr)
  PROVE  FileStage(k, fs, "encode", f, bs, e, Features(k.lib, fs), wr)
<1> PICK all, X : Is(all, Features(k.lib, fs)) /\ Is(X, {x \in {Encoded(k.lib, h) : h \in fs} : Encodable(x)})
  BY DEF Is
<1>1. all \in Seq(X)
  BY FeaturesEncodable, Zenon DEF Is
<1>2. \A x \in X : Encodable(x)
  BY DEF Is
<1>3. e = NoBlock /\ Parts(<<>>, f, bs) /\ Lined(f, bs, wr)
  <2>1. "footer" \notin {"encode", "await", "done"} /\ "footer" # "encode"
    OBVIOUS
  <2> QED BY <2>1, Zenon DEF FileStage
<1>4. Read(e) = <<>>
  BY <1>3, NoBlockReads
<1>5. Packed(X, <<>>, e, all, all)
  <2>1. <<>> \in Seq(X) /\ <<>> \in Seq(Seq(X)) /\ <<>> \o <<>> = <<>> /\ <<>> \o all = all
    BY <1>1, EmptySeq, ConcatEmptySeq
  <2>2. (FlattenSeq(<<>>) \o Read(e)) \o all = all
    BY <1>4, <2>1, FlattenEmpty, Zenon
  <2> QED BY <1>1, <1>2, <1>4, <2>1, <2>2, Zenon DEF Packed
<1>6. "encode" # "done" /\ "encode" \in {"encode", "await", "done"}
  OBVIOUS
<1>7. FileStage(k, fs, "encode", f, bs, e, all, wr)
  BY <1>3, <1>5, <1>6, Zenon DEF FileStage, Is
<1> QED BY <1>7, Zenon DEF Is

(* While features are encoded, ...                                         *)
LEMMA FileEncoding ==
  ASSUME NEW k, NEW fs, NEW f, NEW bs, NEW e, NEW td, NEW wr, FileStage(k, fs, "encode", f, bs, e, td, wr)
  PROVE  /\ Lined(f, bs, wr) /\ (e = NoBlock \/ Encoding(e))
         /\ \E X, ps : Parts(ps, f, bs) /\ Packed(X, ps, e, td, Features(k.lib, fs))
<1>1. "encode" \in {"encode", "await", "done"}
  OBVIOUS
<1> QED BY <1>1, Zenon DEF FileStage
(* ... the blocks and what is left are the whole.                          *)
LEMMA FileEncoded ==
  ASSUME NEW k, NEW fs, NEW f, NEW bs, NEW e, NEW td, NEW wr, Lined(f, bs, wr), e = NoBlock \/ Encoding(e),
         NEW X, NEW ps, Parts(ps, f, bs), Packed(X, ps, e, td, Features(k.lib, fs))
  PROVE  FileStage(k, fs, "encode", f, bs, e, td, wr)
<1>1. "encode" \in {"encode", "await", "done"} /\ "encode" # "done"
  OBVIOUS
<1> QED BY <1>1, Zenon DEF FileStage

(* ... a block is posted and another begun, ...                            *)
Posted(bs, e) == IF e.group = -1 THEN bs ELSE Append(bs, e)
BegunBlock(e) == e = NoBlock \/ Encoding(e)
PackedIn(X, f, bs, e, td, all) == \E ps : Parts(ps, f, bs) /\ Packed(X, ps, e, td, all)
(* Nothing is lost.                                                        *)
LEMMA BlockPosted ==
  ASSUME NEW X, NEW f, NEW bs, NEW e, NEW td, NEW all, NEW wr, Lined(f, bs, wr), BegunBlock(e),
         PackedIn(X, f, bs, e, td, all), NEW e2, Read(e2) = <<>>
  PROVE  Lined(f, Posted(bs, e), wr) /\ PackedIn(X, f, Posted(bs, e), e2, td, all)
<1> PICK cs : cs = Posted(bs, e)
  OBVIOUS
<1>0. PICK ps : Parts(ps, f, bs) /\ Packed(X, ps, e, td, all)
  BY DEF PackedIn
<1>1. /\ Read(e) \in Seq(X) /\ td \in Seq(X) /\ ps \in Seq(Seq(X)) /\ (\A x \in X : Encodable(x))
      /\ (FlattenSeq(ps) \o Read(e)) \o td = all
  BY <1>0 DEF Packed
<1>2. Queues(f, bs)
  BY DEF Lined
<1>3. <<>> \in Seq(X)
  BY EmptySeq
<1>4. CASE e.group = -1
  <2>1. Read(e) = <<>>
    BY <1>4, NoBlockReads DEF Encoding, BegunBlock
  <2>2. Packed(X, ps, e2, td, all)
    BY <1>1, <1>3, <2>1, Zenon DEF Packed
  <2>3. cs = bs
    BY <1>4 DEF Posted
  <2> QED BY <1>0, <2>2, <2>3, Zenon DEF PackedIn
<1>5. CASE e.group # -1
  <2> PICK qs : Is(qs, Append(ps, Read(e)))
    BY DEF Is
  <2>0. cs = Append(bs, e)
    BY <1>5 DEF Posted
  <2>1. Queues(f, Append(bs, e)) /\ Parts(Append(ps, Read(e)), f, Append(bs, e)) /\ Append(ps, Read(e)) \in Seq(Seq(X))
         /\ FlattenSeq(Append(ps, Read(e))) = FlattenSeq(ps) \o Read(e)
    BY <1>0, <1>1, <1>2, PartsPost
  <2>2. Queues(f, cs) /\ Parts(qs, f, cs) /\ qs \in Seq(Seq(X)) /\ FlattenSeq(qs) = FlattenSeq(ps) \o Read(e)
    BY <2>0, <2>1, Zenon DEF Is
  <2>3. FlattenSeq(qs) \in Seq(X)
    BY <2>2, FlattenType
  <2>4. FlattenSeq(qs) \o <<>> = FlattenSeq(qs)
    BY <2>3, ConcatEmptySeq
  <2>5. (FlattenSeq(qs) \o Read(e2)) \o td = all
    BY <1>1, <2>2, <2>4, Zenon
  <2>6. Packed(X, qs, e2, td, all)
    BY <1>1, <1>3, <2>2, <2>5, Zenon DEF Packed
  <2>7. Lined(f, cs, wr)
    BY <2>2 DEF Lined
  <2> QED BY <2>2, <2>6, <2>7, Zenon DEF PackedIn
<1> QED BY <1>4, <1>5

(* The next block is for the type of the next feature.                     *)
LEMMA FileStarts ==
  ASSUME NEW k, NEW fs, NEW f, NEW bs, NEW e, NEW td, NEW wr, FileStage(k, fs, "encode", f, bs, e, td, wr), td # <<>>,
         NEW cs, cs = IF e.group = -1 THEN bs ELSE Append(bs, e), NEW z, NEW e2, e2 = Start(z, Head(td).f[1])
  PROVE  FileStage(k, fs, "encode", f, cs, e2, td, wr)
<1> PICK all : Is(all, Features(k.lib, fs))
  BY DEF Is
<1>1. Lined(f, bs, wr) /\ (e = NoBlock \/ Encoding(e))
  BY FileEncoding
<1>2. PICK X, ps : Parts(ps, f, bs) /\ Packed(X, ps, e, td, all)
  BY FileEncoding, Zenon DEF Is
<1>3. Encodable(Head(td))
  BY <1>2, HeadTailProperties DEF Packed
<1>4. Head(td).f[1] \in 0..2
  BY <1>3 DEF Encodable, Names
<1>5. Encoding(e2) /\ Read(e2) = <<>>
  BY <1>4, StartReads
<1>6. Lined(f, cs, wr) /\ PackedIn(X, f, cs, e2, td, all)
  <2>1. BegunBlock(e) /\ PackedIn(X, f, bs, e, td, all) /\ cs = Posted(bs, e)
    BY <1>1, <1>2, Zenon DEF BegunBlock, PackedIn, Posted
  <2> QED BY <1>1, <1>5, <2>1, BlockPosted
<1>7. PICK qs : Parts(qs, f, cs) /\ Packed(X, qs, e2, td, all)
  BY <1>6, Zenon DEF PackedIn
<1>8. Packed(X, qs, e2, td, Features(k.lib, fs))
  BY <1>7, Zenon DEF Is
<1> QED BY <1>5, <1>6, <1>7, <1>8, FileEncoded

(* ... a feature is added to one, ...                                      *)
LEMMA FileAdds ==
  ASSUME NEW k, NEW fs, NEW f, NEW bs, NEW e, NEW td, NEW wr, FileStage(k, fs, "encode", f, bs, e, td, wr), td # <<>>,
         e.group = Head(td).f[1], Fits(e, Head(td)), NEW e2, e2 = Add(e, Head(td))
  PROVE  FileStage(k, fs, "encode", f, bs, e2, Tail(td), wr)
<1> PICK all : Is(all, Features(k.lib, fs))
  BY DEF Is
<1> PICK x, t : Is(x, Head(td)) /\ Is(t, Tail(td))
  BY DEF Is
<1>1. Lined(f, bs, wr) /\ (e = NoBlock \/ Encoding(e))
  BY FileEncoding
<1>2. PICK X, ps : Parts(ps, f, bs) /\ Packed(X, ps, e, td, all)
  BY FileEncoding, Zenon DEF Is
<1> PICK r : Is(r, Read(e))
  BY DEF Is
<1>3. /\ r \in Seq(X) /\ td \in Seq(X) /\ ps \in Seq(Seq(X)) /\ (\A y \in X : Encodable(y))
      /\ (FlattenSeq(ps) \o r) \o td = all
  BY <1>2, Zenon DEF Packed, Is
<1>4. x \in X /\ t \in Seq(X) /\ <<x>> \in Seq(X) /\ td = <<x>> \o t
  BY <1>3, Beheaded, Zenon DEF Is
<1>5. Encodable(x) /\ x.f[1] = e.group
  BY <1>3, <1>4 DEF Is
<1>6. Encoding(e)
  <2>1. x.f[1] \in 0..2
    BY <1>5 DEF Encodable, Names
  <2>2. NoBlock.group = -1
    BY NoBlockReads
  <2> QED BY <1>1, <1>5, <2>1, <2>2
<1>7. Fits(e, x) /\ e2 = Add(e, x)
  BY Zenon DEF Is
<1>8. Encoding(e2) /\ Read(e2) = Append(Read(e), x)
  BY <1>5, <1>6, <1>7, AddReads
<1>9. Read(e2) = r \o <<x>> /\ Read(e2) \in Seq(X) /\ <<x>> \in Seq(X)
  <2>1. Read(e2) = Append(r, x)
    BY <1>8, Zenon DEF Is
  <2>2. Append(r, x) = r \o <<x>>
    BY <1>3, <1>4, AppendIsConcat
  <2>3. Append(r, x) \in Seq(X)
    BY <1>3, <1>4, AppendProperties
  <2>4. <<x>> \in Seq(X)
    <3>1. <<x>> \in [1..1 -> X]
      BY <1>4
    <3> QED BY <3>1, SeqDef
  <2> QED BY <2>1, <2>2, <2>3, <2>4
<1>10. (FlattenSeq(ps) \o Read(e2)) \o t = all
  <2> PICK p : Is(p, FlattenSeq(ps))
    BY DEF Is
  <2>1. p \in Seq(X)
    BY <1>3, FlattenType DEF Is
  <2> PICK o : Is(o, <<x>>)
    BY DEF Is
  <2>a. o \in Seq(X) /\ r \in Seq(X) /\ t \in Seq(X)
    BY <1>3, <1>4, Zenon DEF Is
  <2>2. Cat(Cat(p, Cat(r, o)), t) = Cat(Cat(p, r), Cat(o, t))
    BY <2>1, <2>a, Regrouped
  <2>3. (p \o r) \o td = all
    BY <1>3, Zenon DEF Is
  <2>4. td = o \o t /\ Read(e2) = r \o o
    BY <1>4, <1>9, Zenon DEF Is
  <2>5. (p \o Read(e2)) \o t = all
    BY <2>2, <2>3, <2>4, Zenon DEF Cat
  <2> QED BY <2>5, Zenon DEF Is
<1>11. Packed(X, ps, e2, t, all)
  BY <1>3, <1>4, <1>9, <1>10, Zenon DEF Packed
<1>12. Packed(X, ps, e2, Tail(td), Features(k.lib, fs))
  BY <1>11, Zenon DEF Is
<1> QED BY <1>1, <1>2, <1>8, <1>12, FileEncoded

(* ... the last one is posted, ...                                         *)
LEMMA FilePosted ==
  ASSUME NEW k, NEW fs, NEW f, NEW bs, NEW e, NEW wr, FileStage(k, fs, "encode", f, bs, e, <<>>, wr),
         NEW cs, cs = IF e.group = -1 THEN bs ELSE Append(bs, e)
  PROVE  FileStage(k, fs, "await", f, cs, NoBlock, <<>>, wr)
<1> PICK all : Is(all, Features(k.lib, fs))
  BY DEF Is
<1>1. Lined(f, bs, wr) /\ (e = NoBlock \/ Encoding(e))
  BY FileEncoding
<1>2. PICK X, ps : Parts(ps, f, bs) /\ Packed(X, ps, e, <<>>, all)
  BY FileEncoding, Zenon DEF Is
<1>3. Read(NoBlock) = <<>>
  BY NoBlockReads
<1>4. Lined(f, cs, wr) /\ PackedIn(X, f, cs, NoBlock, <<>>, all)
  <2>1. BegunBlock(e) /\ PackedIn(X, f, bs, e, <<>>, all) /\ cs = Posted(bs, e)
    BY <1>1, <1>2, Zenon DEF BegunBlock, PackedIn, Posted
  <2> QED BY <1>1, <1>3, <2>1, BlockPosted
<1>5. "await" \in {"encode", "await", "done"} /\ "await" # "done"
  OBVIOUS
<1> QED BY <1>4, <1>5, Zenon DEF FileStage, PackedIn, Is

(* ... and all are written.                                                *)
LEMMA FileWritten ==
  ASSUME NEW k, NEW fs, NEW f, NEW e, NEW td, FileStage(k, fs, "await", f, <<>>, e, td, "queue")
  PROVE  FileStage(k, fs, "done", f, <<>>, e, td, "done")
<1>1. "await" \in {"encode", "await", "done"} /\ "done" \in {"encode", "await", "done"} /\ "await" # "encode" /\ "done" # "encode"
  OBVIOUS
<1>2. Lined(f, <<>>, "queue")
  BY Zenon DEF FileStage
<1>3. Lined(f, <<>>, "done")
  BY <1>2 DEF Lined
<1> QED BY <1>1, <1>3, Zenon DEF FileStage

(* The thread that writes begins, ...                                      *)
LEMMA FileHeaded ==
  ASSUME NEW k, NEW fs, NEW st, NEW f, NEW bs, NEW e, NEW td, FileStage(k, fs, st, f, bs, e, td, "header")
  PROVE  FileStage(k, fs, st, <<"OSMHeader">>, bs, e, td, "queue")
<1>1. f = <<>> /\ Queues(<<>>, bs) /\ st # "done"
  BY DEF FileStage, Lined
<1>2. \A ps : Parts(ps, f, bs) => Parts(ps, <<"OSMHeader">>, bs)
  BY <1>1, PartsHeader
<1>3. Queues(<<"OSMHeader">>, bs) /\ <<"OSMHeader">> # <<>> /\ <<"OSMHeader">>[1] = "OSMHeader"
  <2>1. PICK ps : Parts(ps, f, bs)
    BY Zenon DEF FileStage
  <2>2. Parts(ps, <<>>, bs)
    BY <1>1, <2>1
  <2> QED BY <1>1, <2>2, PartsHeader
<1>4. Lined(<<"OSMHeader">>, bs, "queue")
  <2>1. "queue" \in {"header", "queue", "done"} /\ "queue" # "header"
    OBVIOUS
  <2> QED BY <1>3, <2>1, Zenon DEF Lined
<1> QED BY <1>1, <1>2, <1>4, Zenon DEF FileStage

(* ... and takes one block after the other.                                *)
LEMMA FileGrows ==
  ASSUME NEW k, NEW fs, NEW st, NEW f, NEW bs, NEW e, NEW td, FileStage(k, fs, st, f, bs, e, td, "queue"), bs # <<>>
  PROVE  FileStage(k, fs, st, Append(f, Head(bs)), Tail(bs), e, td, "queue")
<1>1. f # <<>> /\ Queues(f, bs) /\ st # "done" /\ f[1] = "OSMHeader"
  BY DEF FileStage, Lined
<1> PICK g, t : Is(g, Append(f, Head(bs))) /\ Is(t, Tail(bs))
  BY DEF Is
<1>2. \A ps : Parts(ps, f, bs) => Queues(g, t) /\ Parts(ps, g, t) /\ g # <<>> /\ g[1] = f[1]
  BY <1>1, PartsWrite DEF Is
<1>3. PICK ps : Parts(ps, f, bs)
  BY Zenon DEF FileStage
<1>4. Lined(g, t, "queue")
  <2>1. "queue" \in {"header", "queue", "done"} /\ "queue" # "header"
    OBVIOUS
  <2>2. Queues(g, t) /\ g # <<>> /\ g[1] = "OSMHeader"
    BY <1>1, <1>2, <1>3
  <2> QED BY <2>1, <2>2, Zenon DEF Lined
<1>5. FileStage(k, fs, st, g, t, e, td, "queue")
  BY <1>1, <1>2, <1>4, Zenon DEF FileStage
<1> QED BY <1>5, Zenon DEF Is

(* Then the file is whole.                                                 *)
LEMMA FileRead ==
  ASSUME NEW k, NEW fs, NEW f, NEW bs, NEW e, NEW td, NEW wr, FileStage(k, fs, "done", f, bs, e, td, wr)
  PROVE  /\ Head(f) = "OSMHeader"
         /\ FlattenSeq([i \in 1..(Len(f) - 1) |-> Read(f[i + 1])]) = Features(k.lib, fs)
<1> PICK all : Is(all, Features(k.lib, fs))
  BY DEF Is
<1>1. "done" \in {"encode", "await", "done"} /\ "done" # "encode" /\ "done" # "header"
  OBVIOUS
<1>2. Lined(f, <<>>, "done") /\ bs = <<>> /\ e = NoBlock /\ td = <<>>
  BY <1>1, Zenon DEF FileStage
<1>3. PICK ps, X : Parts(ps, f, <<>>) /\ Packed(X, ps, NoBlock, <<>>, all)
  BY <1>1, <1>2, Zenon DEF FileStage, Is
<1>4. f # <<>> /\ Queues(f, <<>>) /\ f[1] = "OSMHeader"
  BY <1>2 DEF Lined
<1>5. ps \in Seq(Seq(X)) /\ (FlattenSeq(ps) \o Read(NoBlock)) \o <<>> = all
  BY <1>3, Zenon DEF Packed
<1>6. FlattenSeq(ps) = all
  <2>1. FlattenSeq(ps) \in Seq(X)
    BY <1>5, FlattenType
  <2>2. FlattenSeq(ps) \o <<>> = FlattenSeq(ps)
    BY <2>1, ConcatEmptySeq
  <2> QED BY <1>5, <2>2, NoBlockReads, Zenon
<1>7. FlattenSeq([i \in 1..(Len(f) - 1) |-> Read(f[i + 1])]) = FlattenSeq(ps)
  BY <1>3, <1>4, <1>5, PartsWritten
<1>8. Head(f) = f[1]
  <2>1. PICK B : f \in Seq(B)
    BY <1>4 DEF Queues
  <2> QED BY <1>4, <2>1, HeadTailProperties
<1> QED BY <1>4, <1>6, <1>7, <1>8, Zenon DEF Is

-----------------------------------------------------------------------------
(* The whole of it                                                         *)

(* What was printed, when the printing thread is in state st.              *)
OutAt(k, st, e, p, n, S, A, T) ==
  \/ st = "header" /\ S = <<>> /\ A = <<>> /\ T = <<>> /\ p = NoOutput /\ n = 0
  \/ /\ st \in {"queue", "footer"} /\ n = Len(T)
     /\ st = "footer" => n >= Cardinality(CurrentOf(k))
     /\ \E base : Printing(k, base, S, Len(A), p) /\ (~e => base = HeaderOf(k))

(* All that a query promises: the number of results, and the document if   *)
(* the header was not lost.                                                *)
Whole(k, e, p) ==
  /\ p.count = Cardinality(AllOf(k))
  /\ ~IsFile(k) /\ ~e => \E s \in SetToSeqs(AllOf(k)) : p.out = DocumentOf(k, s)

(* What is collected for an OSM file: what is taken for the results that   *)
(* are printed; in the end, for all of them, and it is in order.           *)
Gathered(k, fs, S) == IsFile(k) => Collected(k, Elems(S), fs)
Filed(k, fs, p) ==
  IsFile(k) => fs = Taken(k, k.lib, AllOf(k)) /\ (k.format = "xml" => p.out = Features(k.lib, fs))

(* How far a query is.                                                     *)
Stage(k, nx, ts, wk, bs, st, e, p, n, fs) ==
  \/ \E S, A, T : /\ Going(k, nx, ts, wk, bs, S, A, T) /\ OutAt(k, st, e, p, n, S, A, T)
                  /\ Gathered(k, fs, S)
  \/ st \in {"encode", "await", "done"} /\ Whole(k, e, p) /\ Filed(k, fs, p)

(* While the printing thread prints the queue, ...                         *)
LEMMA StageGoing ==
  ASSUME NEW k, NEW nx, NEW ts, NEW wk, NEW bs, NEW st, NEW e, NEW p, NEW n, NEW fs,
         Stage(k, nx, ts, wk, bs, st, e, p, n, fs), st \in {"header", "queue", "footer"}
  PROVE  \E S, A, T : /\ Going(k, nx, ts, wk, bs, S, A, T) /\ OutAt(k, st, e, p, n, S, A, T)
                     /\ Gathered(k, fs, S)
<1>1. st \notin {"encode", "await", "done"}
  OBVIOUS
<1> QED BY <1>1, Zenon DEF Stage

(* ... and after that.                                                     *)
LEMMA StageWhole ==
  ASSUME NEW k, NEW nx, NEW ts, NEW wk, NEW bs, NEW st, NEW e, NEW p, NEW n, NEW fs,
         Stage(k, nx, ts, wk, bs, st, e, p, n, fs), st \in {"encode", "await", "done"}
  PROVE  Whole(k, e, p) /\ Filed(k, fs, p)
<1>1. st # "header" /\ st \notin {"queue", "footer"}
  OBVIOUS
<1> QED BY <1>1, Zenon DEF Stage, OutAt

(* The next tile, and the threads.                                         *)
LEMMA GoingNext ==
  ASSUME NEW k, NEW nx, NEW ts, NEW wk, NEW bs, NEW S, NEW A, NEW T, Going(k, nx, ts, wk, bs, S, A, T)
  PROVE  nx \in Nat \ {0} /\ DOMAIN wk = Workers
BY DEF Going, Crew

(* The main thread posts the next tile.                                    *)
LEMMA StagePost ==
  ASSUME NEW k, IsQuery(k), NEW nx, NEW ts, NEW wk, NEW bs, NEW st, NEW e, NEW p, NEW n, NEW fs,
         Stage(k, nx, ts, wk, bs, st, e, p, n, fs), nx <= Len(k.tiles),
         NEW us, us = IF k.tiles[nx].current THEN Append(ts, nx) ELSE ts
  PROVE  Stage(k, nx + 1, us, wk, bs, st, e, p, n, fs)
<1>1. ASSUME NEW S, NEW A, NEW T, Going(k, nx, ts, wk, bs, S, A, T)
      PROVE  Going(k, nx + 1, us, wk, bs, S, A, T)
  <2>1. nx \in Nat \ {0} /\ DOMAIN k.tiles = 1..Len(k.tiles) /\ Len(k.tiles) \in Nat
    BY <1>1, GoingNext, CurrentFacts
  <2>2. nx \in DOMAIN k.tiles
    BY <2>1
  <2>3. us = IF nx \in CurrentOf(k) THEN Append(ts, nx) ELSE ts
    BY <2>2 DEF CurrentOf
  <2> QED BY <1>1, <2>3, GoingPost
<1> QED BY <1>1, Zenon DEF Stage

(* A step of a thread of the executor.                                     *)
LEMMA StageWork ==
  ASSUME NEW k, NEW nx, NEW ts, NEW wk, NEW bs, NEW st, NEW e, NEW p, NEW n, NEW fs,
         Stage(k, nx, ts, wk, bs, st, e, p, n, fs), NEW us, NEW new, NEW cs,
         \A S, A, T : Going(k, nx, ts, wk, bs, S, A, T) => Going(k, nx, us, new, cs, S, A, T)
  PROVE  Stage(k, nx, us, new, cs, st, e, p, n, fs)
BY Zenon DEF Stage

(* A tile without results; or with results that are not printed as text.   *)
WholeTile(k, i) ==
  IF Found(k, i) = <<>> THEN Batch(<<>>, <<>>, 0, TRUE)
  ELSE Batch(<<>>, IF k.format = "count" THEN <<>> ELSE Found(k, i),
             IF k.format = "count" THEN Len(Found(k, i)) ELSE 0, TRUE)

(* It carries all results of the tile.                                     *)
LEMMA WholeTileCarries ==
  ASSUME NEW k, IsQuery(k), NEW i, i \in CurrentOf(k), Found(k, i) = <<>> \/ ~AsText(k)
  PROVE  /\ Carries(k, WholeTile(k, i), Slice(k, i, 0, Total(k, i)), Slice(k, i, 0, Total(k, i)))
         /\ WholeTile(k, i).complete = TRUE
<1>f. PICK f : Is(f, Found(k, i))
  BY DEF Is
<1>1. f \in Seq(Items(k))
  <2>1. Found(k, i) \in Seq(Items(k))
    BY FoundType
  <2> QED BY <1>f, <2>1, Zenon DEF Is
<1>2. Slice(k, i, 0, Total(k, i)) = f
  <2>1. SubSeq(f, 0 + 1, Len(f)) = f
    BY <1>1, SubSeqFull
  <2> QED BY <1>f, <2>1, Zenon DEF Is, Slice, Total
<1>b. PICK b : Is(b, WholeTile(k, i))
  BY DEF Is
<1>3. b.complete = TRUE
  <2>1. WholeTile(k, i).complete = TRUE
    BY DEF WholeTile, Batch
  <2> QED BY <1>b, <2>1, Zenon DEF Is
<1>4. Carries(k, b, f, f)
  <2>1. CASE f = <<>>
    <3>1. b = [chain |-> <<>>, results |-> <<>>, count |-> 0, complete |-> TRUE]
      BY <1>b, <1>f, <2>1, Zenon DEF Is, WholeTile, Batch
    <3>2. b.chain = <<>> /\ b.results = <<>> /\ b.count = 0
      BY <3>1
    <3>3. Holds(k, b.chain, <<>>)
      <4>1. \A X : <<>> \in Seq(X)
        BY EmptySeq
      <4>2. FullFront(<<>>)
        BY DEF FullFront
      <4>3. <<>> \in Chains(k)
        BY <4>1, <4>2, Zenon DEF Chains
      <4>4. FlattenSeq(<<>>) = <<>> /\ Texts(k, <<>>) = <<>>
        BY FlattenEmpty, TextsEmpty
      <4> QED BY <3>2, <4>1, <4>3, <4>4, Zenon DEF Holds
    <3>4. Len(<<>>) = 0
      OBVIOUS
    <3> QED BY <1>1, <2>1, <3>2, <3>3, <3>4, Zenon DEF Carries
  <2>2. CASE f # <<>>
    <3>1. ~AsText(k)
      BY <1>f, <2>2, Zenon DEF Is
    <3>2. b = Batch(<<>>, IF k.format = "count" THEN <<>> ELSE f, IF k.format = "count" THEN Len(f) ELSE 0, TRUE)
      BY <1>b, <1>f, <2>2, Zenon DEF Is, WholeTile
    <3>3. b.results = (IF k.format = "count" THEN <<>> ELSE f) /\ b.count = (IF k.format = "count" THEN Len(f) ELSE 0)
      BY <3>2 DEF Batch
    <3>4. CASE IsCount(k)
      <4>1. k.format = "count" /\ ~IsBrief(k) /\ ~IsFile(k)
        BY <3>4, KindsOfFormat DEF IsCount
      <4> QED BY <1>1, <3>1, <3>3, <4>1, Zenon DEF Carries
    <3>5. CASE ~IsCount(k)
      <4>1. k.format # "count"
        BY <3>5 DEF IsCount
      <4>2. b.results = f
        BY <3>3, <4>1
      <4> QED BY <1>1, <3>1, <3>5, <4>2, Zenon DEF Carries
    <3> QED BY <3>4, <3>5
  <2> QED BY <2>1, <2>2
<1> QED BY <1>2, <1>3, <1>4, <1>b, Zenon DEF Is

-----------------------------------------------------------------------------
(* Steps of the printing thread                                            *)

(* There are finitely many tiles.                                          *)
LEMMA CurrentFinite ==
  ASSUME NEW k, IsQuery(k)
  PROVE  /\ IsFiniteSet(CurrentOf(k)) /\ Cardinality(CurrentOf(k)) \in Nat
         /\ Cardinality(CurrentOf(k)) <= Len(k.tiles)
<1>1. DOMAIN k.tiles = 1..Len(k.tiles) /\ Len(k.tiles) \in Nat
  BY CurrentFacts
<1>2. IsFiniteSet(1..Len(k.tiles)) /\ Cardinality(1..Len(k.tiles)) = Len(k.tiles)
  BY <1>1, FS_Interval
<1>3. CurrentOf(k) \subseteq 1..Len(k.tiles)
  BY <1>1 DEF CurrentOf
<1> QED BY <1>1, <1>2, <1>3, FS_Subset, FS_CardinalityType

(* The printing thread begins with a header, or what there is of it.       *)
LEMMA StageHeader ==
  ASSUME NEW k, IsQuery(k), NEW nx, NEW ts, NEW wk, NEW bs, NEW e, NEW p, NEW n, NEW fs,
         Stage(k, nx, ts, wk, bs, "header", e, p, n, fs),
         NEW base, base \in Seq(Tokens(k)), ~(IsJson(k) \/ IsLines(k)) => base = <<>>,
         NEW early2, ~early2 => base = HeaderOf(k),
         NEW p2, p2 = [p EXCEPT !.out = base]
  PROVE  Stage(k, nx, ts, wk, bs, "queue", early2, p2, n, fs)
<1>1. PICK S, A, T : /\ Going(k, nx, ts, wk, bs, S, A, T) /\ OutAt(k, "header", e, p, n, S, A, T)
                     /\ Gathered(k, fs, S)
  BY StageGoing
<1>2. S = <<>> /\ A = <<>> /\ T = <<>> /\ p = NoOutput /\ n = 0
  BY <1>1 DEF OutAt
<1>3. p2 = OutputOf(base, TRUE, <<>>, 0)
  BY <1>2 DEF NoOutput, OutputOf
<1>4. Printing(k, base, <<>>, 0, p2)
  BY <1>3, PrintingBegins
<1>5. Len(<<>>) = 0
  OBVIOUS
<1>6. Printing(k, base, S, Len(A), p2) /\ n = Len(T)
  BY <1>2, <1>4, <1>5, Zenon
<1>7. OutAt(k, "queue", early2, p2, n, S, A, T)
  <2>1. "queue" \in {"queue", "footer"} /\ "queue" # "footer"
    OBVIOUS
  <2> QED BY <1>6, <2>1, Zenon DEF OutAt
<1> QED BY <1>1, <1>7, Zenon DEF Stage

(* The printing thread prints a batch. When it has as many complete ones   *)
(* as there may be tiles it has all                                        *)
LEMMA StageProcess ==
  ASSUME NEW k, IsQuery(k), NEW nx, NEW ts, NEW wk, NEW bs, NEW e, NEW p, NEW n, NEW fs,
         Stage(k, nx, ts, wk, bs, "queue", e, p, n, fs), bs # <<>>,
         NEW b, b = Head(bs), NEW c, c = n + IF b.complete THEN 1 ELSE 0,
         NEW tt, tt \in Nat, tt >= Cardinality(CurrentOf(k)),
         NEW st, st = IF c >= tt THEN "footer" ELSE "queue",
         NEW p2, p2 = IF IsFile(k) THEN FileCounted(p, b) ELSE PrintText(p, k.format, k.sizes, b),
         NEW fs2, fs2 = IF IsFile(k) THEN AddResults(fs, k, b.results) ELSE fs
  PROVE  Stage(k, nx, ts, wk, Tail(bs), st, e, p2, c, fs2)
<1>1. PICK S, A, T : /\ Going(k, nx, ts, wk, bs, S, A, T) /\ OutAt(k, "queue", e, p, n, S, A, T)
                     /\ Gathered(k, fs, S)
  BY StageGoing
<1>2. PICK base : Printing(k, base, S, Len(A), p) /\ (~e => base = HeaderOf(k))
  BY <1>1 DEF OutAt
<1>n. n = Len(T)
  BY <1>1 DEF OutAt
<1>3. PICK lot, acc, end : LeftBy(k, nx, ts, wk, bs, S, A, T, lot, acc, end)
  BY <1>1, GoingLeaves
<1>4. EntryIs(k, b, lot, acc, end)
  BY <1>3, Zenon DEF LeftBy
<1>5. Going(k, nx, ts, wk, Tail(bs), Cat(S, lot), Cat(A, acc), Cat(T, end))
  BY <1>3, Zenon DEF LeftBy
<1>6. Carries(k, b, lot, acc) /\ Len(end) = IF b.complete THEN 1 ELSE 0
  BY <1>4, Zenon DEF EntryIs
<1>7. Len(Cat(S, lot)) <= Len(A) + Len(acc)
  BY <1>3, Zenon DEF LeftBy
<1>8. Len(Cat(A, acc)) = Len(A) + Len(acc)
  BY <1>3, Zenon DEF LeftBy
<1>9. Len(Cat(T, end)) = Len(T) + Len(end)
  BY <1>3, Zenon DEF LeftBy
<1>10. Printing(k, base, Cat(S, lot), Len(A) + Len(acc), p2)
  <2>1. Printing(k, base, Cat(S, lot), Len(A) + Len(acc),
                  IF IsFile(k) THEN FileCounted(p, b) ELSE PrintText(p, k.format, k.sizes, b))
    BY <1>2, <1>6, <1>7, PrintStep
  <2> QED BY <2>1, Zenon
<1>11. c = Len(Cat(T, end))
  <2>1. c = Len(T) + Len(end)
    BY <1>n, <1>6, Zenon
  <2> QED BY <2>1, <1>9, Zenon
<1>12. st \in {"queue", "footer"}
  OBVIOUS
<1>13. st = "footer" => c >= Cardinality(CurrentOf(k))
  <2>1. ASSUME st = "footer" PROVE c >= tt
    BY <2>1
  <2>2. c \in Nat
    <3>1. PICK D, ends : Ledger(CurrentOf(k), D, Cat(T, end), ends)
      BY <1>5, Zenon DEF Going, Books
    <3>2. Cat(T, end) \in Seq(CurrentOf(k))
      BY <3>1, Zenon DEF Ledger
    <3> QED BY <1>11, <3>2
  <2>3. Cardinality(CurrentOf(k)) \in Nat
    BY CurrentFinite
  <2> QED BY <2>1, <2>2, <2>3
<1>14. Printing(k, base, Cat(S, lot), Len(Cat(A, acc)), p2)
  BY <1>8, <1>10, Zenon
<1>15. OutAt(k, st, e, p2, c, Cat(S, lot), Cat(A, acc), Cat(T, end))
  BY <1>2, <1>11, <1>12, <1>13, <1>14, Zenon DEF OutAt
<1>16. Gathered(k, fs2, Cat(S, lot))
  <2> SUFFICES ASSUME IsFile(k) PROVE Collected(k, Elems(Cat(S, lot)), fs2)
    BY DEF Gathered
  <2>1. Items(k) = DOMAIN k.lib /\ IsLibrary(k.lib)
    BY DEF Items, NoText, IsFile, IsQuery
  <2>2. b.results = lot
    BY <1>6, Zenon DEF Carries
  <2>3. lot \in Seq(Items(k))
    BY <1>6, Zenon DEF Carries
  <2>4. S \in Seq(Items(k))
    <3>1. PICK sub, lots : Ledger(Items(k), Reached(k, sub), S, lots)
      BY <1>1, Zenon DEF Going, Books
    <3> QED BY <3>1, Zenon DEF Ledger
  <2>5. Elems(Cat(S, lot)) = Elems(S) \union Elems(lot)
    <3>1. Elems(S \o lot) = Elems(S) \union Elems(lot)
      BY <2>3, <2>4, ConcatElems
    <3> QED BY <3>1, Zenon DEF Cat
  <2>6. Collected(k, Elems(S), fs)
    BY <1>1, Zenon DEF Gathered
  <2>7. lot \in Seq(DOMAIN k.lib)
    BY <2>1, <2>3, Zenon
  <2>8. Collected(k, Elems(S) \union Elems(lot), AddResults(fs, k, lot))
    BY <2>1, <2>6, <2>7, CollectedMore
  <2> QED BY <2>2, <2>5, <2>8, Zenon
<1> QED BY <1>5, <1>15, <1>16, Zenon DEF Stage

(* When all batches were printed the footer completes the document.        *)
LEMMA StageFooter ==
  ASSUME NEW k, IsQuery(k), NEW nx, NEW ts, NEW wk, NEW bs, NEW e, NEW p, NEW n, NEW fs,
         Stage(k, nx, ts, wk, bs, "footer", e, p, n, fs),
         NEW p2, IsFile(k) => p2.count = p.count, ~IsFile(k) => p2 = Footer(p, k.format, k.sizes),
         k.format = "xml" => p2.out = Features(k.lib, fs)
  PROVE  Whole(k, e, p2) /\ Filed(k, fs, p2)
<1>1. PICK S, A, T : /\ Going(k, nx, ts, wk, bs, S, A, T) /\ OutAt(k, "footer", e, p, n, S, A, T)
                     /\ Gathered(k, fs, S)
  BY StageGoing
<1>2. PICK base : Printing(k, base, S, Len(A), p) /\ (~e => base = HeaderOf(k))
  BY <1>1 DEF OutAt
<1>3. Len(T) >= Cardinality(CurrentOf(k))
  BY <1>1 DEF OutAt
<1>4. S \in SetToSeqs(AllOf(k)) /\ Len(S) = Cardinality(AllOf(k)) /\ Len(A) = Cardinality(AllOf(k))
  BY <1>1, <1>3, GoingCloses
<1>5. ASSUME IsFile(k) PROVE Whole(k, e, p2)
  <2>1. FileState(Len(A), p)
    BY <1>2, <1>5, Zenon DEF Printing
  <2>2. PICK o, f, v : p = OutputOf(o, f, v, Len(A))
    BY <2>1, Zenon DEF FileState
  <2>3. p.count = Len(A)
    BY <2>2 DEF OutputOf
  <2> QED BY <1>4, <1>5, <2>3, Zenon DEF Whole
<1>6. ASSUME ~IsFile(k) PROVE Whole(k, e, p2)
  <2>1. Len(A) = Len(S)
    BY <1>4
  <2>2. /\ Footer(p, k.format, k.sizes).count = Len(A)
        /\ base = HeaderOf(k) => Footer(p, k.format, k.sizes).out = DocumentOf(k, S)
    BY <1>2, <1>6, <2>1, FooterEnds
  <2> QED BY <1>2, <1>4, <1>6, <2>2, Zenon DEF Whole
<1>7. Filed(k, fs, p2)
  <2> SUFFICES ASSUME IsFile(k) PROVE fs = Taken(k, k.lib, AllOf(k))
    BY Zenon DEF Filed
  <2>1. Collected(k, Elems(S), fs)
    BY <1>1, Zenon DEF Gathered
  <2>2. Elems(S) = AllOf(k)
    BY <1>1, <1>3, GoingElems
  <2> QED BY <2>1, <2>2, CollectedTaken, Zenon
<1> QED BY <1>5, <1>6, <1>7

-----------------------------------------------------------------------------
(* The specification                                                       *)

(* The inductive invariant: the stage of the query, and that the number of *)
(* tiles is never expected to be less than it is.                          *)
QInv ==
  /\ q \in Queries
  /\ total \in Nat /\ total >= Cardinality(CurrentOf(q))
  /\ main = "returned" => printer = "done"
  /\ Stage(q, next, tasks, worker, queue, printer, early, pr, processed, features)

(* What does not concern the results.                                      *)
Same == UNCHANGED <<q, next, total, tasks, worker, queue, early, pr, processed, features>>

(* The definitions of the specification for its query.                     *)
LEMMA QueryFacts == QInv => IsQuery(q) /\ CurrentTiles = CurrentOf(q) /\ (IsOsm <=> IsFile(q)) /\ AllResults = AllOf(q)
<1> SUFFICES ASSUME QInv PROVE IsQuery(q) /\ CurrentTiles = CurrentOf(q) /\ (IsOsm <=> IsFile(q)) /\ AllResults = AllOf(q)
  OBVIOUS
<1>1. IsQuery(q)
  BY QueriesAssumption DEF QInv
<1>2. CurrentTiles = CurrentOf(q)
  BY Zenon DEF CurrentTiles, CurrentOf, Current
<1>3. IsOsm <=> IsFile(q)
  BY DEF IsOsm, IsFile
<1>4. AllResults = AllOf(q)
  BY <1>2, Zenon DEF AllResults, AllOf, Results
<1> QED BY <1>1, <1>2, <1>3, <1>4

(* A query begins in this state.                                           *)
LEMMA QInvInit == Init => QInv
<1> SUFFICES ASSUME Init PROVE QInv
  OBVIOUS
<1>1. IsQuery(q)
  BY QueriesAssumption DEF Init
<1>2. total \in Nat /\ Len(q.tiles) <= total
  BY <1>1 DEF Init, IsQuery
<1>3. Cardinality(CurrentOf(q)) \in Nat /\ Cardinality(CurrentOf(q)) <= Len(q.tiles) /\ Len(q.tiles) \in Nat
  BY <1>1, CurrentFinite, CurrentFacts
<1>4. total >= Cardinality(CurrentOf(q))
  BY <1>2, <1>3
<1>5. DOMAIN worker = Workers /\ \A w \in Workers : worker[w] = Idle
  BY DEF Init
<1>6. Going(q, next, tasks, worker, queue, <<>>, <<>>, <<>>)
  <2>1. Going(q, 1, <<>>, worker, <<>>, <<>>, <<>>, <<>>)
    BY <1>1, <1>5, GoingBegins
  <2> QED BY <2>1, Zenon DEF Init
<1>7. OutAt(q, printer, early, pr, processed, <<>>, <<>>, <<>>)
  BY Zenon DEF Init, OutAt
<1>8. Stage(q, next, tasks, worker, queue, printer, early, pr, processed, features)
  <2>1. Elems(<<>>) = {}
    BY DEF Elems
  <2>2. Gathered(q, features, <<>>)
    BY <2>1, CollectedFirst, Zenon DEF Init, Gathered
  <2> QED BY <1>6, <1>7, <2>2, Zenon DEF Stage
<1> QED BY <1>2, <1>4, <1>8 DEF Init, QInv

(* The main thread does not get to the results.                            *)
LEMMA QInvConstruct == QInv /\ Construct => QInv'
<1> SUFFICES ASSUME QInv, Construct PROVE QInv'
  OBVIOUS
<1>1. Same /\ printer' = printer
  BY Zenon DEF Construct, Same, mainVars, printVars, outVars
<1>2. main' # "returned"
  BY DEF Construct
<1> QED BY <1>1, <1>2, Zenon DEF QInv, Same

(* Both ways to post a tile do this.                                       *)
Post == /\ q' = q /\ main' = main /\ total' = total /\ worker' = worker /\ queue' = queue /\ printer' = printer
        /\ early' = early /\ pr' = pr /\ processed' = processed /\ features' = features
        /\ next <= Len(q.tiles) /\ next' = next + 1
        /\ tasks' = IF Current(next) THEN Append(tasks, next) ELSE tasks

(* A tile is posted, ...                                                   *)
LEMMA QInvPost == QInv /\ Post => QInv'
<1> SUFFICES ASSUME QInv, Post PROVE QInv'
  OBVIOUS
<1>1. IsQuery(q)
  BY QueryFacts
<1>2. Stage(q, next, tasks, worker, queue, printer, early, pr, processed, features)
  BY DEF QInv
<1>3. next <= Len(q.tiles)
  BY Zenon DEF Post
<1>4. tasks' = IF q.tiles[next].current THEN Append(tasks, next) ELSE tasks
  BY Zenon DEF Post, Current
<1>5. Stage(q, next + 1, tasks', worker, queue, printer, early, pr, processed, features)
  BY <1>1, <1>2, <1>3, <1>4, StagePost
<1>6. Stage(q', next', tasks', worker', queue', printer', early', pr', processed', features')
  BY <1>5, Zenon DEF Post
<1> QED BY <1>6, Zenon DEF QInv, Post

(* ... before the tiles are counted, ...                                   *)
LEMMA QInvPostFirst == QInv /\ PostFirst => QInv'
<1>1. PostFirst => Post
  BY Zenon DEF PostFirst, Post, printVars, outVars
<1> QED BY <1>1, QInvPost

(* ... or after that.                                                      *)
LEMMA QInvPostRest == QInv /\ PostRest => QInv'
<1>1. PostRest => Post
  BY Zenon DEF PostRest, Post, printVars, outVars
<1> QED BY <1>1, QInvPost

(* The number of tiles that is expected is right from here on.             *)
LEMMA QInvCountTiles == QInv /\ CountTiles => QInv'
<1> SUFFICES ASSUME QInv, CountTiles PROVE QInv'
  OBVIOUS
<1>1. IsQuery(q) /\ CurrentTiles = CurrentOf(q)
  BY QueryFacts
<1>2. total' = Cardinality(CurrentOf(q))
  BY <1>1, Zenon DEF CountTiles
<1>3. total' \in Nat /\ total' >= Cardinality(CurrentOf(q))
  BY <1>1, <1>2, CurrentFinite
<1>4. main' # "returned"
  BY DEF CountTiles
<1>5. /\ q' = q /\ next' = next /\ tasks' = tasks /\ worker' = worker /\ queue' = queue /\ printer' = printer
      /\ early' = early /\ pr' = pr /\ processed' = processed /\ features' = features
  BY Zenon DEF CountTiles, printVars
<1> QED BY <1>3, <1>4, <1>5, Zenon DEF QInv

(* The main thread returns after the printing thread has ended.            *)
LEMMA QInvJoin == QInv /\ Join => QInv'
<1> SUFFICES ASSUME QInv, Join PROVE QInv'
  OBVIOUS
<1>1. Same /\ printer' = printer
  BY Zenon DEF Join, Same, printVars, outVars
<1>2. printer = "done"
  BY Zenon DEF Join
<1> QED BY <1>1, <1>2, Zenon DEF QInv, Same

-----------------------------------------------------------------------------
(* Threads of the executor                                                 *)

(* What a step of a thread of the executor leaves alone, ...               *)
Alone == /\ q' = q /\ main' = main /\ next' = next /\ total' = total /\ printer' = printer
         /\ early' = early /\ pr' = pr /\ processed' = processed /\ features' = features

(* ... and what it has to do.                                              *)
LEMMA QInvWorks ==
  ASSUME QInv, Alone,
         \A S, A, T : Going(q, next, tasks, worker, queue, S, A, T)
                        => Going(q, next, tasks', worker', queue', S, A, T)
  PROVE  QInv'
<1>1. Stage(q, next, tasks, worker, queue, printer, early, pr, processed, features)
  BY DEF QInv
<1>2. Stage(q, next, tasks', worker', queue', printer, early, pr, processed, features)
  BY <1>1, StageWork
<1>3. Stage(q', next', tasks', worker', queue', printer', early', pr', processed', features')
  BY <1>2, Zenon DEF Alone
<1> QED BY <1>3, Zenon DEF QInv, Alone

(* Tasks are tiles of the query.                                           *)
LEMMA TasksCurrent ==
  ASSUME NEW k, NEW nx, NEW ts, NEW wk, NEW bs, NEW S, NEW A, NEW T, Going(k, nx, ts, wk, bs, S, A, T), ts # <<>>
  PROVE  Head(ts) \in CurrentOf(k)
<1>1. ts \in Seq(CurrentOf(k))
  BY Zenon DEF Going, Crew
<1> QED BY <1>1

(* Whether a thread prints the features.                                   *)
LEMMA TextTile == IsQuery(q) => (IsText <=> AsText(q))
BY DEF IsQuery, IsText, AsText, TextFormats

(* A thread that takes a task.                                             *)
LEMMA WorkerTakes ==
  ASSUME NEW i, NEW td, NEW bf
  PROVE  [[tile |-> 0, todo |-> <<>>, buf |-> bf] EXCEPT !.tile = i, !.todo = td] = WorkerOf(i, td, bf)
<1> DEFINE x == [tile |-> 0, todo |-> <<>>, buf |-> bf]
<1>1. [x EXCEPT !.tile = i, !.todo = td] = [[x EXCEPT !.tile = i] EXCEPT !.todo = td]
  OBVIOUS
<1>2. [x EXCEPT !.tile = i] = [tile |-> i, todo |-> <<>>, buf |-> bf]
  OBVIOUS
<1>3. [[tile |-> i, todo |-> <<>>, buf |-> bf] EXCEPT !.todo = td] = WorkerOf(i, td, bf)
  BY DEF WorkerOf
<1> QED BY <1>1, <1>2, <1>3, Zenon

(* A thread takes a tile: it begins to print it, or submits the results at *)
(* once.                                                                   *)
LEMMA QInvTakeTile ==
  ASSUME QInv, NEW w \in Workers, TakeTile(w)
  PROVE  QInv'
<1>1. IsQuery(q)
  BY QueryFacts
<1>2. Alone
  BY Zenon DEF TakeTile, Alone, mainVars, printVars
<1>3. tasks # <<>> /\ worker[w] = Idle /\ tasks' = Tail(tasks)
  BY Zenon DEF TakeTile
<1>i. PICK i : Is(i, Head(tasks))
  BY Zenon DEF Is
<1>4. i = Head(tasks)
  BY <1>i, Zenon DEF Is
<1>5. ASSUME NEW S, NEW A, NEW T, Going(q, next, tasks, worker, queue, S, A, T)
      PROVE  Going(q, next, tasks', worker', queue', S, A, T)
  <2>1. i \in CurrentOf(q)
    BY <1>3, <1>4, <1>5, TasksCurrent
  <2>2. CASE Found(q, i) = <<>> \/ ~AsText(q)
    <3>b. PICK b : Is(b, WholeTile(q, i))
      BY Zenon DEF Is
    <3>1. worker' = worker
      BY <1>1, <1>4, <2>2, TextTile, Zenon DEF TakeTile, Results
    <3>2. queue' = queue \o <<WholeTile(q, i)>>
      <4>1. CASE Found(q, i) = <<>>
        <5>1. queue' = queue \o <<Batch(<<>>, <<>>, 0, TRUE)>>
          BY <1>4, <4>1, Zenon DEF TakeTile, Results, Submit
        <5> QED BY <4>1, <5>1, Zenon DEF WholeTile
      <4>2. CASE Found(q, i) # <<>>
        <5>1. ~IsText
          BY <1>1, <2>2, <4>2, TextTile
        <5>2. queue' = queue \o <<Batch(<<>>, IF q.format = "count" THEN <<>> ELSE Results(i),
                               IF q.format = "count" THEN Len(Results(i)) ELSE 0, TRUE)>>
          BY <1>4, <4>2, <5>1, Zenon DEF TakeTile, Results, Submit
        <5> QED BY <4>2, <5>2, Zenon DEF WholeTile, Results
      <4> QED BY <4>1, <4>2
    <3>3. queue' = queue \o <<b>>
      BY <3>b, <3>2, Zenon DEF Is
    <3>4. Carries(q, b, Slice(q, i, 0, Total(q, i)), Slice(q, i, 0, Total(q, i))) /\ b.complete = TRUE
      <4>1. /\ Carries(q, WholeTile(q, i), Slice(q, i, 0, Total(q, i)), Slice(q, i, 0, Total(q, i)))
            /\ WholeTile(q, i).complete = TRUE
        BY <1>1, <2>1, <2>2, WholeTileCarries
      <4> QED BY <3>b, <4>1, Zenon DEF Is
    <3>5. Going(q, next, Tail(tasks), worker, queue \o <<b>>, S, A, T)
      BY <1>1, <1>3, <1>4, <1>5, <3>4, GoingWhole
    <3> QED BY <1>3, <3>1, <3>3, <3>5, Zenon
  <2>3. CASE ~(Found(q, i) = <<>> \/ ~AsText(q))
    <3>1. IsText /\ AsText(q) /\ Results(i) # <<>>
      BY <1>1, <2>3, TextTile, Zenon DEF Results
    <3>2. queue' = queue
      BY <1>4, <3>1, Zenon DEF TakeTile
    <3>3. worker' = [worker EXCEPT ![w].tile = i, ![w].todo = EntriesIn(q, i)]
      BY <1>4, <3>1, Zenon DEF TakeTile, EntriesIn
    <3>4. DOMAIN worker = Workers
      BY <1>5, GoingNext
    <3>n. PICK new : Is(new, worker')
      BY Zenon DEF Is
    <3>5. DOMAIN new = Workers /\ \A v \in Workers : v # w => new[v] = worker[v]
      <4>1. DOMAIN worker' = Workers /\ \A v \in Workers : v # w => worker'[v] = worker[v]
        BY <3>3, <3>4
      <4> QED BY <3>n, <4>1, Zenon DEF Is
    <3>6. new[w] = WorkerOf(i, EntriesIn(q, i), NewBuffer)
      <4>1. worker'[w] = [worker[w] EXCEPT !.tile = i, !.todo = EntriesIn(q, i)]
        BY <3>3, <3>4
      <4>2. worker[w] = [tile |-> 0, todo |-> <<>>, buf |-> NewBuffer]
        BY <1>3, Zenon DEF Idle
      <4>3. worker'[w] = [tile |-> i, todo |-> EntriesIn(q, i), buf |-> NewBuffer]
        <5>1. [[tile |-> 0, todo |-> <<>>, buf |-> NewBuffer] EXCEPT !.tile = i, !.todo = EntriesIn(q, i)]
                = WorkerOf(i, EntriesIn(q, i), NewBuffer)
          BY WorkerTakes, Zenon
        <5> QED BY <4>1, <4>2, <5>1, Zenon DEF WorkerOf
      <4> QED BY <3>n, <4>3, Zenon DEF Is, WorkerOf
    <3>7. Going(q, next, Tail(tasks), new, queue, S, A, T)
      BY <1>1, <1>3, <1>4, <1>5, <3>1, <3>5, <3>6, GoingTile
    <3> QED BY <1>3, <3>n, <3>2, <3>7, Zenon DEF Is
  <2> QED BY <2>2, <2>3
<1> QED BY <1>2, <1>5, QInvWorks

(* What a thread holds, when it has printed a feature.                     *)
LEMMA TwoFields ==
  ASSUME NEW f, NEW w \in DOMAIN f, NEW x
  PROVE  [f EXCEPT ![w].todo = Tail(@), ![w].buf = x][w] = [f[w] EXCEPT !.todo = Tail(f[w].todo), !.buf = x]
OBVIOUS

(* A thread prints the next feature of its tile.                           *)
LEMMA QInvPrintNext ==
  ASSUME QInv, NEW w \in Workers, PrintNext(w)
  PROVE  QInv'
<1>1. IsQuery(q)
  BY QueryFacts
<1>2. Alone /\ tasks' = tasks
  BY Zenon DEF PrintNext, Alone, mainVars, printVars
<1>3. worker[w].todo # <<>>
  BY Zenon DEF PrintNext
<1>r. PICK r : Is(r, PrintFeature(AddCount(worker[w].buf, Head(worker[w].todo).count), q.format,
                                  Head(worker[w].todo).f, q.sizes[Head(worker[w].todo).f]))
  BY Zenon DEF Is
<1>4. r = PrintFeature(AddCount(worker[w].buf, Head(worker[w].todo).count), q.format,
                       Head(worker[w].todo).f, q.sizes[Head(worker[w].todo).f])
  BY <1>r, Zenon DEF Is
<1>5. queue' = queue \o r.sent
  BY <1>4, Zenon DEF PrintNext, Submit
<1>6. worker' = [worker EXCEPT ![w].todo = Tail(@), ![w].buf = Unsent(r)]
  BY <1>4, Zenon DEF PrintNext, Unsent
<1>7. ASSUME NEW S, NEW A, NEW T, Going(q, next, tasks, worker, queue, S, A, T)
      PROVE  Going(q, next, tasks', worker', queue', S, A, T)
  <2>1. DOMAIN worker = Workers
    BY <1>7, GoingNext
  <2>n. PICK new : Is(new, worker')
    BY Zenon DEF Is
  <2>2. DOMAIN new = Workers /\ \A v \in Workers : v # w => new[v] = worker[v]
    <3>1. PICK x : Is(x, Unsent(r))
      BY DEF Is
    <3>2. worker' = [worker EXCEPT ![w].todo = Tail(@), ![w].buf = x]
      BY <1>6, <3>1, Zenon DEF Is
    <3>3. DOMAIN worker' = Workers /\ \A v \in Workers : v # w => worker'[v] = worker[v]
      BY <2>1, <3>2
    <3> QED BY <2>n, <3>3, Zenon DEF Is
  <2>3. new[w] = Went(worker[w], Tail(worker[w].todo), Unsent(r))
    <3>1. worker'[w] = [worker[w] EXCEPT !.todo = Tail(worker[w].todo), !.buf = Unsent(r)]
      <4>1. PICK x : Is(x, Unsent(r))
        BY DEF Is
      <4>2. worker' = [worker EXCEPT ![w].todo = Tail(@), ![w].buf = x]
        BY <1>6, <4>1, Zenon DEF Is
      <4>3. worker'[w] = [worker[w] EXCEPT !.todo = Tail(worker[w].todo), !.buf = x]
        BY <2>1, <4>2, TwoFields, ZenonT(30)
      <4> QED BY <4>1, <4>3, Zenon DEF Is
    <3> QED BY <2>n, <3>1, Zenon DEF Is, Went
  <2>4. Going(q, next, tasks, new, queue \o r.sent, S, A, T)
    BY <1>1, <1>3, <1>4, <1>7, <2>2, <2>3, GoingPrints
  <2> QED BY <1>2, <1>5, <2>n, <2>4, Zenon DEF Is
<1> QED BY <1>2, <1>7, QInvWorks

(* A thread submits what is left of its tile.                              *)
LEMMA QInvFlushTile ==
  ASSUME QInv, NEW w \in Workers, FlushTile(w)
  PROVE  QInv'
<1>1. IsQuery(q)
  BY QueryFacts
<1>2. Alone /\ tasks' = tasks
  BY Zenon DEF FlushTile, Alone, mainVars, printVars
<1>3. /\ worker[w].tile # 0 /\ worker[w].todo = <<>>
      /\ queue' = queue \o <<Flush(worker[w].buf)>>
      /\ worker' = [worker EXCEPT ![w] = Idle]
  BY Zenon DEF FlushTile, Submit
<1>7. ASSUME NEW S, NEW A, NEW T, Going(q, next, tasks, worker, queue, S, A, T)
      PROVE  Going(q, next, tasks', worker', queue', S, A, T)
  <2>1. DOMAIN worker = Workers
    BY <1>7, GoingNext
  <2>n. PICK new : Is(new, worker')
    BY Zenon DEF Is
  <2>2. DOMAIN new = Workers /\ new[w] = Idle /\ \A v \in Workers : v # w => new[v] = worker[v]
    <3>1. DOMAIN worker' = Workers /\ worker'[w] = Idle /\ \A v \in Workers : v # w => worker'[v] = worker[v]
      BY <1>3, <2>1
    <3> QED BY <2>n, <3>1, Zenon DEF Is
  <2>4. Going(q, next, tasks, new, queue \o <<Flush(worker[w].buf)>>, S, A, T)
    BY <1>1, <1>3, <1>7, <2>2, GoingFlushes
  <2> QED BY <1>2, <1>3, <2>n, <2>4, Zenon DEF Is
<1> QED BY <1>2, <1>7, QInvWorks

-----------------------------------------------------------------------------
(* The printing thread and the thread that writes a file                   *)

(* The header is printed; or it is not the one of the format if it is      *)
(* asked for too early.                                                    *)
LEMMA QInvPrintHeader == QInv /\ PrintHeader => QInv'
<1> SUFFICES ASSUME QInv, PrintHeader PROVE QInv'
  OBVIOUS
<1>1. IsQuery(q)
  BY QueryFacts
<1>2. Stage(q, next, tasks, worker, queue, "header", early, pr, processed, features)
  BY Zenon DEF QInv, PrintHeader
<1>3. /\ q' = q /\ main' = main /\ next' = next /\ total' = total /\ tasks' = tasks /\ worker' = worker
      /\ queue' = queue /\ processed' = processed /\ features' = features /\ printer' = "queue" /\ printer = "header"
  BY Zenon DEF PrintHeader, mainVars
<1>4. pr.out = <<>>
  <2>1. PICK S, A, T : Going(q, next, tasks, worker, queue, S, A, T)
                       /\ OutAt(q, "header", early, pr, processed, S, A, T)
    BY <1>2, StageGoing
  <2> QED BY <2>1 DEF OutAt, NoOutput
<1>5. \E base : /\ base \in Seq(Tokens(q)) /\ (~(IsJson(q) \/ IsLines(q)) => base = <<>>)
                /\ (~early' => base = HeaderOf(q)) /\ pr' = [pr EXCEPT !.out = base]
  <2>h. HeaderOf(q) \in Seq(Tokens(q)) /\ (~(IsJson(q) \/ IsLines(q)) => HeaderOf(q) = <<>>)
    BY <1>1, HeaderForms, KindsOfFormat, Zenon
  <2>e. <<>> \in Seq(Tokens(q))
    OBVIOUS
  <2>1. CASE main = "base"
    <3>1. pr' = pr /\ early'
      BY <2>1 DEF PrintHeader
    <3>2. pr = [pr EXCEPT !.out = <<>>]
      <4>1. PICK S, A, T : Going(q, next, tasks, worker, queue, S, A, T)
                           /\ OutAt(q, "header", early, pr, processed, S, A, T)
        BY <1>2, StageGoing
      <4>2. pr = NoOutput
        BY <4>1 DEF OutAt
      <4> QED BY <4>2 DEF NoOutput
    <3> QED BY <2>e, <3>1, <3>2, Zenon
  <2>2. CASE main = "members" /\ q.format \in {"geojson", "geojsonl"}
    <3>1. early' /\ \E out \in {<<>>, Header("geojson")} : pr' = [pr EXCEPT !.out = out]
      BY <2>2 DEF PrintHeader
    <3>2. PICK base : base \in {<<>>, Header("geojson")} /\ pr' = [pr EXCEPT !.out = base]
      BY <3>1
    <3>3. IsJson(q) \/ IsLines(q)
      BY <2>2 DEF IsJson, IsLines
    <3>4. base \in Seq(Tokens(q))
      <4>1. Header("geojson") = <<<<"{">>>>
        BY DEF Header, Mark
      <4>2. "{" \in Marks \union Nat \union DOMAIN q.lib
        BY DEF Marks
      <4>3. \A X : \A x \in X : <<x>> \in Seq(X)
        OBVIOUS
      <4>4. <<"{">> \in Tokens(q)
        BY <4>2, <4>3, Zenon DEF Tokens
      <4>5. Header("geojson") \in Seq(Tokens(q))
        BY <4>1, <4>3, <4>4, Zenon
      <4> QED BY <2>e, <3>2, <4>5, Zenon
    <3> QED BY <3>1, <3>2, <3>3, <3>4, Zenon
  <2>3. CASE ~(main = "base") /\ ~(main = "members" /\ q.format \in {"geojson", "geojsonl"})
    <3>1. pr' = [pr EXCEPT !.out = HeaderOf(q)]
      BY <2>3 DEF PrintHeader, HeaderOf
    <3> QED BY <2>h, <3>1, Zenon
  <2> QED BY <2>1, <2>2, <2>3
<1>6. PICK base : /\ base \in Seq(Tokens(q)) /\ (~(IsJson(q) \/ IsLines(q)) => base = <<>>)
                  /\ (~early' => base = HeaderOf(q)) /\ pr' = [pr EXCEPT !.out = base]
  BY <1>5
<1>7. Stage(q, next, tasks, worker, queue, "queue", early', pr', processed, features)
  BY <1>1, <1>2, <1>6, StageHeader
<1>8. Stage(q', next', tasks', worker', queue', printer', early', pr', processed', features')
  BY <1>3, <1>7, Zenon
<1>9. main # "returned"
  BY <1>3 DEF QInv
<1> QED BY <1>3, <1>8, <1>9, Zenon DEF QInv

(* The printing thread prints a batch.                                     *)
LEMMA QInvProcessTask == QInv /\ ProcessTask => QInv'
<1> SUFFICES ASSUME QInv, ProcessTask PROVE QInv'
  OBVIOUS
<1>1. IsQuery(q) /\ (IsOsm <=> IsFile(q))
  BY QueryFacts
<1>2. /\ printer = "queue" /\ queue # <<>> /\ queue' = Tail(queue)
      /\ q' = q /\ main' = main /\ next' = next /\ total' = total /\ tasks' = tasks /\ worker' = worker
      /\ early' = early
  BY Zenon DEF ProcessTask, mainVars
<1>3. Stage(q, next, tasks, worker, queue, "queue", early, pr, processed, features)
  BY <1>2, Zenon DEF QInv
<1>b. PICK b : Is(b, Head(queue))
  BY Zenon DEF Is
<1>4. b = Head(queue)
  BY <1>b, Zenon DEF Is
<1>5. processed' = processed + IF b.complete THEN 1 ELSE 0
  BY <1>4, Zenon DEF ProcessTask
<1>6. printer' = IF processed' >= total THEN "footer" ELSE "queue"
  BY Zenon DEF ProcessTask, AllProcessed
<1>7. pr' = IF IsFile(q) THEN FileCounted(pr, b) ELSE PrintText(pr, q.format, q.sizes, b)
  BY <1>1, <1>4, Zenon DEF ProcessTask, FileCounted
<1>8. total \in Nat /\ total >= Cardinality(CurrentOf(q))
  BY DEF QInv
<1>f. features' = IF IsFile(q) THEN AddResults(features, q, b.results) ELSE features
  BY <1>1, <1>4, Zenon DEF ProcessTask
<1>9. Stage(q, next, tasks, worker, Tail(queue), printer', early, pr', processed', features')
  BY <1>1, <1>2, <1>3, <1>4, <1>5, <1>6, <1>7, <1>8, <1>f, StageProcess
<1>10. Stage(q', next', tasks', worker', queue', printer', early', pr', processed', features')
  BY <1>2, <1>9, Zenon
<1>11. main # "returned"
  BY <1>2 DEF QInv
<1> QED BY <1>2, <1>10, <1>11, Zenon DEF QInv

(* It prints the footer, or begins to write a file.                        *)
LEMMA QInvPrintFooter == QInv /\ PrintFooter => QInv'
<1> SUFFICES ASSUME QInv, PrintFooter PROVE QInv'
  OBVIOUS
<1>1. IsQuery(q)
  BY QueryFacts
<1>2. /\ printer = "footer"
      /\ q' = q /\ main' = main /\ next' = next /\ total' = total /\ tasks' = tasks /\ worker' = worker
      /\ queue' = queue /\ early' = early /\ processed' = processed /\ features' = features
  BY Zenon DEF PrintFooter, mainVars
<1>3. Stage(q, next, tasks, worker, queue, "footer", early, pr, processed, features)
  BY <1>2, Zenon DEF QInv
<1>4. printer' \in {"encode", "await", "done"}
  BY DEF PrintFooter
<1>5. IsFile(q) => pr'.count = pr.count
  <2>1. ASSUME q.format = "xml" PROVE pr'.count = pr.count
    <3>1. pr' = [pr EXCEPT !.out = Features(q.lib, features)]
      BY <2>1 DEF PrintFooter
    <3>2. PICK S, A, T : Going(q, next, tasks, worker, queue, S, A, T)
                         /\ OutAt(q, "footer", early, pr, processed, S, A, T)
      BY <1>3, StageGoing
    <3>3. \E base : Printing(q, base, S, Len(A), pr)
      BY <3>2 DEF OutAt
    <3>4. FileState(Len(A), pr)
      BY <2>1, <3>3 DEF Printing, IsFile
    <3>5. PICK o, f, v : pr = OutputOf(o, f, v, Len(A))
      BY <3>4, Zenon DEF FileState
    <3> QED BY <3>1, <3>5 DEF OutputOf
  <2>2. q.format = "pbf" => pr' = pr
    BY DEF PrintFooter
  <2> QED BY <2>1, <2>2 DEF IsFile
<1>6. ~IsFile(q) => pr' = Footer(pr, q.format, q.sizes)
  BY DEF PrintFooter, IsFile
<1>x. q.format = "xml" => pr'.out = Features(q.lib, features)
  <2> SUFFICES ASSUME q.format = "xml" PROVE pr'.out = Features(q.lib, features)
    OBVIOUS
  <2>1. pr' = [pr EXCEPT !.out = Features(q.lib, features)]
    BY DEF PrintFooter
  <2>2. PICK S, A, T : Going(q, next, tasks, worker, queue, S, A, T)
                       /\ OutAt(q, "footer", early, pr, processed, S, A, T)
    BY <1>3, StageGoing
  <2>3. \E base : Printing(q, base, S, Len(A), pr)
    BY <2>2 DEF OutAt
  <2>4. FileState(Len(A), pr)
    BY <2>3 DEF Printing, IsFile
  <2>5. PICK o, f, v : pr = OutputOf(o, f, v, Len(A))
    BY <2>4, Zenon DEF FileState
  <2> QED BY <2>1, <2>5 DEF OutputOf
<1>7. Whole(q, early, pr') /\ Filed(q, features, pr')
  BY <1>1, <1>3, <1>5, <1>6, <1>x, StageFooter
<1>8. Stage(q', next', tasks', worker', queue', printer', early', pr', processed', features')
  BY <1>2, <1>4, <1>7, Zenon DEF Stage
<1>9. main # "returned"
  BY <1>2 DEF QInv
<1> QED BY <1>2, <1>8, <1>9, Zenon DEF QInv

(* A PBF file is written after everything was printed.                     *)
LEMMA QInvWrites ==
  ASSUME QInv, Same, main' = main,
         printer' = printer \/ (printer = "encode" /\ printer' = "await") \/ (printer = "await" /\ printer' = "done")
  PROVE  QInv'
<1>1. Stage(q, next, tasks, worker, queue, printer', early, pr, processed, features)
  <2>1. CASE printer' = printer
    BY <2>1, Zenon DEF QInv
  <2>2. CASE printer \in {"encode", "await", "done"} /\ printer' \in {"encode", "await", "done"}
    <3>1. Stage(q, next, tasks, worker, queue, printer, early, pr, processed, features)
      BY DEF QInv
    <3>2. Whole(q, early, pr) /\ Filed(q, features, pr)
      BY <2>2, <3>1, StageWhole
    <3> QED BY <2>2, <3>2, Zenon DEF Stage
  <2> QED BY <2>1, <2>2
<1>2. Stage(q', next', tasks', worker', queue', printer', early', pr', processed', features')
  BY <1>1, Zenon DEF Same
<1>3. main = "returned" => printer = "done" /\ printer' = "done"
  BY DEF QInv
<1> QED BY <1>2, <1>3, Zenon DEF QInv, Same

(* The invariant is inductive.                                             *)
THEOREM QInvStep == QInv /\ [Next]_vars => QInv'
<1> SUFFICES ASSUME QInv, [Next]_vars PROVE QInv'
  OBVIOUS
<1>1. CASE Construct
  BY <1>1, QInvConstruct
<1>2. CASE PostFirst
  BY <1>2, QInvPostFirst
<1>3. CASE CountTiles
  BY <1>3, QInvCountTiles
<1>4. CASE PostRest
  BY <1>4, QInvPostRest
<1>5. CASE Join
  BY <1>5, QInvJoin
<1>6. ASSUME NEW w \in Workers, TakeTile(w) PROVE QInv'
  BY <1>6, QInvTakeTile
<1>7. ASSUME NEW w \in Workers, PrintNext(w) PROVE QInv'
  BY <1>7, QInvPrintNext
<1>8. ASSUME NEW w \in Workers, FlushTile(w) PROVE QInv'
  BY <1>8, QInvFlushTile
<1>9. CASE PrintHeader
  BY <1>9, QInvPrintHeader
<1>10. CASE ProcessTask
  BY <1>10, QInvProcessTask
<1>11. CASE PrintFooter
  BY <1>11, QInvPrintFooter
<1>12. CASE StartBlock
  BY <1>12, QInvWrites, Zenon DEF StartBlock, Same, mainVars
<1>13. CASE Encode
  BY <1>13, QInvWrites, Zenon DEF Encode, Same, mainVars
<1>14. CASE EndFeatures
  BY <1>14, QInvWrites, Zenon DEF EndFeatures, Same, mainVars
<1>15. CASE AwaitOutput
  BY <1>15, QInvWrites, Zenon DEF AwaitOutput, Same, mainVars
<1>16. CASE WriteHeader
  BY <1>16, QInvWrites, Zenon DEF WriteHeader, Same, mainVars, printVars
<1>17. CASE WriteBlock
  BY <1>17, QInvWrites, Zenon DEF WriteBlock, Same, mainVars, printVars
<1>18. CASE UNCHANGED vars
  BY <1>18, QInvWrites, Zenon DEF vars, Same, mainVars, printVars
<1> QED BY <1>1, <1>2, <1>3, <1>4, <1>5, <1>6, <1>7, <1>8, <1>9, <1>10, <1>11, <1>12, <1>13, <1>14, <1>15, <1>16,
          <1>17, <1>18, Zenon DEF Next, MainStep, WorkerStep, PrinterStep, WriterStep

(* When the query returns, the document is whole.                          *)
THEOREM QInvWhole == QInv => OutputWhole
<1> SUFFICES ASSUME QInv, Returned PROVE OutputWhole
  BY DEF OutputWhole
<1>1. (IsOsm <=> IsFile(q)) /\ AllResults = AllOf(q)
  BY QueryFacts
<1>2. printer = "done"
  BY DEF QInv, Returned
<1>3. Stage(q, next, tasks, worker, queue, printer, early, pr, processed, features)
  BY DEF QInv
<1>4. Whole(q, early, pr)
  BY <1>2, <1>3, StageWhole
<1>5. pr.count = Cardinality(AllResults)
  BY <1>1, <1>4, Zenon DEF Whole
<1>6. ~IsOsm /\ ~early => \E s \in SetToSeqs(AllResults) : pr.out = Document(s)
  <2>1. ASSUME ~IsOsm, ~early PROVE \E s \in SetToSeqs(AllResults) : pr.out = DocumentOf(q, s)
    BY <1>1, <1>4, <2>1, Zenon DEF Whole
  <2> QED BY <2>1, DocumentIs, Zenon
<1> QED BY <1>5, <1>6, Zenon DEF OutputWhole

(* Whatever the formats, the tiles and the sizes of features, chunks and   *)
(* batches, and however many threads take turns in whatever order: the     *)
(* document that is printed has every result once and whole, with what its *)
(* format puts before, between and after them; and as many are reported    *)
(* (OutputWhole).                                                          *)
THEOREM QueryOutputWhole == Spec => []OutputWhole
<1>1. Init => QInv
  BY QInvInit
<1>2. QInv /\ [Next]_vars => QInv'
  BY QInvStep
<1>3. QInv => OutputWhole
  BY QInvWhole
<1> QED BY <1>1, <1>2, <1>3, PTL DEF Spec

-----------------------------------------------------------------------------
(* The file of a query                                                     *)

(* The inductive invariant of a PBF file, beside QInv, which has what was  *)
(* collected.                                                              *)
FInv == q.format = "pbf" => FileStage(q, features, printer, file, blocks, encoder, todo, writer)

(* What concerns the file.                                                 *)
SameFile == UNCHANGED <<q, features, printer, file, blocks, encoder, todo, writer>>

(* A file begins in this state.                                            *)
LEMMA FInvInit == Init => FInv
<1> SUFFICES ASSUME Init PROVE FInv
  OBVIOUS
<1>1. FileStage(q, {}, "header", <<>>, <<>>, NoBlock, <<>>, "header")
  BY FileBegins
<1> QED BY <1>1, Zenon DEF Init, FInv

(* The main thread and the threads of the executor do not get to it.       *)
LEMMA FInvSame ==
  ASSUME FInv, SameFile
  PROVE  FInv'
BY DEF FInv, SameFile

(* The printing thread collects.                                           *)
LEMMA FInvCollects ==
  ASSUME FInv, q' = q, file' = file, blocks' = blocks, encoder' = encoder, todo' = todo, writer' = writer,
         printer \in {"header", "queue", "footer"}, printer' \in {"header", "queue", "footer"}
  PROVE  FInv'
<1> SUFFICES ASSUME q.format = "pbf"
             PROVE  FileStage(q, features', printer', file, blocks, encoder, todo, writer)
  BY Zenon DEF FInv
<1>1. FileStage(q, features, printer, file, blocks, encoder, todo, writer)
  BY Zenon DEF FInv
<1> QED BY <1>1, FileCollects

(* What is collected is in the library.                                    *)
LEMMA CollectedIn ==
  ASSUME QInv, printer = "footer", q.format = "pbf"
  PROVE  IsLibrary(q.lib) /\ features \in SUBSET DOMAIN q.lib
<1>1. Stage(q, next, tasks, worker, queue, printer, early, pr, processed, features)
  BY DEF QInv
<1>2. PICK S, A, T : /\ Going(q, next, tasks, worker, queue, S, A, T)
                     /\ OutAt(q, printer, early, pr, processed, S, A, T) /\ Gathered(q, features, S)
  BY <1>1, StageGoing
<1>3. IsFile(q)
  BY DEF IsFile
<1>4. Closed(q, q.lib, features)
  BY <1>2, <1>3, Zenon DEF Gathered, Collected
<1>5. IsQuery(q)
  BY QueryFacts
<1> QED BY <1>4, <1>5 DEF Closed, IsQuery

(* All is sorted; ...                                                      *)
LEMMA FInvFooter == QInv /\ FInv /\ PrintFooter => FInv'
<1> SUFFICES ASSUME QInv, FInv, PrintFooter, q.format = "pbf" PROVE FInv'
  BY Zenon DEF PrintFooter, FInv, outVars
<1>1. FileStage(q, features, "footer", file, blocks, encoder, todo, writer)
  BY Zenon DEF FInv, PrintFooter
<1>2. IsLibrary(q.lib) /\ features \in SUBSET DOMAIN q.lib
  BY CollectedIn, Zenon DEF PrintFooter
<1>3. FileStage(q, features, "encode", file, blocks, encoder, Features(q.lib, features), writer)
  BY <1>1, <1>2, FileSorted
<1>4. /\ q' = q /\ features' = features /\ printer' = "encode" /\ todo' = Features(q.lib, features)
      /\ encoder' = encoder /\ blocks' = blocks /\ writer' = writer /\ file' = file
  BY Zenon DEF PrintFooter, outVars
<1> QED BY <1>3, <1>4, Zenon DEF FInv

(* ... encoded, ...                                                        *)
LEMMA FInvStartBlock == FInv /\ StartBlock => FInv'
<1> SUFFICES ASSUME FInv, StartBlock, q.format = "pbf" PROVE FInv'
  BY Zenon DEF StartBlock, FInv
<1>1. FileStage(q, features, "encode", file, blocks, encoder, todo, writer) /\ todo # <<>>
  BY Zenon DEF FInv, StartBlock
<1> PICK z : z = IF encoder.group = Head(todo).f[1] THEN Add(encoder, Head(todo)) ELSE encoder
  OBVIOUS
<1>2. blocks' = IF encoder.group = -1 THEN blocks ELSE Append(blocks, encoder)
  BY DEF StartBlock
<1>3. encoder' = Start(z, Head(todo).f[1])
  BY Zenon DEF StartBlock
<1>4. FileStage(q, features, "encode", file, blocks', encoder', todo, writer)
  BY <1>1, <1>2, <1>3, FileStarts
<1>5. q' = q /\ features' = features /\ printer' = "encode" /\ todo' = todo /\ writer' = writer /\ file' = file
  BY Zenon DEF StartBlock
<1> QED BY <1>4, <1>5, Zenon DEF FInv

(* ... one by one, ...                                                     *)
LEMMA FInvEncode == FInv /\ Encode => FInv'
<1> SUFFICES ASSUME FInv, Encode, q.format = "pbf" PROVE FInv'
  BY Zenon DEF Encode, FInv, outVars
<1>1. FileStage(q, features, "encode", file, blocks, encoder, todo, writer) /\ todo # <<>>
  BY Zenon DEF FInv, Encode
<1>2. encoder.group = Head(todo).f[1] /\ Fits(encoder, Head(todo))
  BY Zenon DEF Encode, NeedsBlock
<1>3. encoder' = Add(encoder, Head(todo)) /\ todo' = Tail(todo)
  BY Zenon DEF Encode
<1>4. FileStage(q, features, "encode", file, blocks, encoder', todo', writer)
  BY <1>1, <1>2, <1>3, FileAdds
<1>5. q' = q /\ features' = features /\ printer' = "encode" /\ blocks' = blocks /\ writer' = writer /\ file' = file
  BY Zenon DEF Encode, outVars
<1> QED BY <1>4, <1>5, Zenon DEF FInv

(* ... to the last, ...                                                    *)
LEMMA FInvEndFeatures == FInv /\ EndFeatures => FInv'
<1> SUFFICES ASSUME FInv, EndFeatures, q.format = "pbf" PROVE FInv'
  BY Zenon DEF EndFeatures, FInv
<1>1. FileStage(q, features, "encode", file, blocks, encoder, <<>>, writer)
  BY Zenon DEF FInv, EndFeatures
<1>2. blocks' = IF encoder.group = -1 THEN blocks ELSE Append(blocks, encoder)
  BY DEF EndFeatures
<1>3. FileStage(q, features, "await", file, blocks', NoBlock, <<>>, writer)
  BY <1>1, <1>2, FilePosted
<1>4. /\ q' = q /\ features' = features /\ printer' = "await" /\ encoder' = NoBlock /\ todo' = <<>>
      /\ writer' = writer /\ file' = file
  BY Zenon DEF EndFeatures
<1> QED BY <1>3, <1>4, Zenon DEF FInv

(* ... and written.                                                        *)
LEMMA FInvAwaitOutput == FInv /\ AwaitOutput => FInv'
<1> SUFFICES ASSUME FInv, AwaitOutput, q.format = "pbf" PROVE FInv'
  BY Zenon DEF AwaitOutput, FInv
<1>1. FileStage(q, features, "await", file, <<>>, encoder, todo, "queue")
  BY Zenon DEF FInv, AwaitOutput
<1>2. FileStage(q, features, "done", file, <<>>, encoder, todo, "done")
  BY <1>1, FileWritten
<1>3. /\ q' = q /\ features' = features /\ printer' = "done" /\ encoder' = encoder /\ todo' = todo
      /\ blocks' = <<>> /\ writer' = "done" /\ file' = file
  BY Zenon DEF AwaitOutput
<1> QED BY <1>2, <1>3, Zenon DEF FInv

(* The writing thread puts the header first, ...                           *)
LEMMA FInvWriteHeader == FInv /\ WriteHeader => FInv'
<1> SUFFICES ASSUME FInv, WriteHeader PROVE FInv'
  OBVIOUS
<1>1. FileStage(q, features, printer, file, blocks, encoder, todo, "header")
  BY Zenon DEF FInv, WriteHeader
<1>2. FileStage(q, features, printer, <<"OSMHeader">>, blocks, encoder, todo, "queue")
  BY <1>1, FileHeaded
<1>3. /\ q' = q /\ features' = features /\ printer' = printer /\ encoder' = encoder /\ todo' = todo
      /\ blocks' = blocks /\ writer' = "queue" /\ file' = <<"OSMHeader">>
  BY Zenon DEF WriteHeader, printVars
<1> QED BY <1>2, <1>3, Zenon DEF FInv

(* ... and then blocks in their order.                                     *)
LEMMA FInvWriteBlock == FInv /\ WriteBlock => FInv'
<1> SUFFICES ASSUME FInv, WriteBlock, q.format = "pbf" PROVE FInv'
  BY Zenon DEF WriteBlock, FInv
<1>1. FileStage(q, features, printer, file, blocks, encoder, todo, "queue") /\ blocks # <<>>
  BY Zenon DEF FInv, WriteBlock
<1>2. FileStage(q, features, printer, Append(file, Head(blocks)), Tail(blocks), encoder, todo, "queue")
  BY <1>1, FileGrows
<1>3. /\ q' = q /\ features' = features /\ printer' = printer /\ encoder' = encoder /\ todo' = todo
      /\ blocks' = Tail(blocks) /\ writer' = "queue" /\ file' = Append(file, Head(blocks))
  BY Zenon DEF WriteBlock, printVars
<1> QED BY <1>2, <1>3, Zenon DEF FInv

(* The invariant of the file is inductive, with QInv.                      *)
THEOREM FInvStep == QInv /\ FInv /\ [Next]_vars => FInv'
<1> SUFFICES ASSUME QInv, FInv, [Next]_vars PROVE FInv'
  OBVIOUS
<1>1. CASE MainStep
  BY <1>1, FInvSame, Zenon DEF MainStep, Construct, PostFirst, CountTiles, PostRest, Join, SameFile, printVars, outVars
<1>2. ASSUME NEW w \in Workers, WorkerStep(w) PROVE FInv'
  BY <1>2, FInvSame, Zenon DEF WorkerStep, TakeTile, PrintNext, FlushTile, SameFile, printVars, outVars
<1>3. CASE PrintHeader
  <2>1. printer = "header" /\ printer' = "queue"
    BY <1>3, Zenon DEF PrintHeader
  <2>2. q' = q /\ file' = file /\ blocks' = blocks /\ encoder' = encoder /\ todo' = todo /\ writer' = writer
    BY <1>3, Zenon DEF PrintHeader, outVars
  <2> QED BY <2>1, <2>2, FInvCollects
<1>4. CASE ProcessTask
  <2>1. printer = "queue" /\ printer' \in {"queue", "footer"}
    BY <1>4 DEF ProcessTask
  <2>2. q' = q /\ file' = file /\ blocks' = blocks /\ encoder' = encoder /\ todo' = todo /\ writer' = writer
    BY <1>4, Zenon DEF ProcessTask, outVars
  <2> QED BY <2>1, <2>2, FInvCollects
<1>5. CASE PrintFooter
  BY <1>5, FInvFooter
<1>6. CASE StartBlock
  BY <1>6, FInvStartBlock
<1>7. CASE Encode
  BY <1>7, FInvEncode
<1>8. CASE EndFeatures
  BY <1>8, FInvEndFeatures
<1>9. CASE AwaitOutput
  BY <1>9, FInvAwaitOutput
<1>10. CASE WriteHeader
  BY <1>10, FInvWriteHeader
<1>11. CASE WriteBlock
  BY <1>11, FInvWriteBlock
<1>12. CASE UNCHANGED vars
  BY <1>12, FInvSame, Zenon DEF vars, SameFile, printVars, outVars
<1> QED BY <1>1, <1>2, <1>3, <1>4, <1>5, <1>6, <1>7, <1>8, <1>9, <1>10, <1>11, <1>12, Zenon
        DEF Next, PrinterStep, WriterStep

(* If a query is for a PBF file, or all relations are to be complete, what *)
(* is taken is what is wanted.                                             *)
AsAsked(k) == k.format # "xml" \/ "all" \in k.complete
LEMMA TakenWanted ==
  ASSUME NEW k, NEW lib, NEW R, AsAsked(k)
  PROVE  Taken(k, lib, R) = Wanted(k, lib, R)
<1>1. \A f : CompleteRelation(k, lib, f) <=> Completes(k, lib, f)
  BY DEF AsAsked, CompleteRelation, Completes
<1>2. ASSUME NEW f PROVE Takes(k, lib, f) = Needs(k, lib, f)
  <2> DEFINE a == {n \in ToSet(lib[f].members) : CompleteRelation(k, lib, f) \/ AcceptMember(k, n.f)}
             b == {n \in ToSet(lib[f].members) : Completes(k, lib, f) \/ AcceptMember(k, n.f)}
  <2>1. a = b
    BY <1>1, Zenon
  <2> HIDE DEF a, b
  <2>2. Takes(k, lib, f) = CASE f[1] = 0 -> {} [] f[1] = 1 -> NodesOfWay(lib, f) [] f[1] = 2 -> {m.f : m \in a}
    BY Zenon DEF Takes, a
  <2>3. Needs(k, lib, f) = CASE f[1] = 0 -> {} [] f[1] = 1 -> NodesOfWay(lib, f) [] f[1] = 2 -> {m.f : m \in b}
    BY Zenon DEF Needs, b
  <2> QED BY <2>1, <2>2, <2>3, Zenon
<1> DEFINE c == {s \in SUBSET DOMAIN lib : R \subseteq s /\ \A f \in s : Takes(k, lib, f) \subseteq s}
           d == {s \in SUBSET DOMAIN lib : R \subseteq s /\ \A f \in s : Needs(k, lib, f) \subseteq s}
<1>3. c = d
  BY <1>2, Zenon
<1> HIDE DEF c, d
<1>4. Taken(k, lib, R) = CHOOSE s \in c : \A t \in c : s \subseteq t
  BY Zenon DEF Taken, c
<1>5. Wanted(k, lib, R) = CHOOSE s \in d : \A t \in d : s \subseteq t
  BY Zenon DEF Wanted, d
<1> QED BY <1>3, <1>4, <1>5, Zenon

(* When the query returns, the file is whole.                              *)
THEOREM FInvWhole == QInv /\ FInv => OsmFileWhole
<1> SUFFICES ASSUME QInv, FInv, Returned, IsOsm, AsAsked(q)
             PROVE  /\ q.format = "pbf" => Head(file) = "OSMHeader" /\ Written = Requested
                    /\ q.format = "xml" => pr.out = Requested
  BY Zenon DEF OsmFileWhole, IsOsm, AsAsked
<1>1. IsFile(q) /\ AllResults = AllOf(q)
  BY QueryFacts
<1>2. printer = "done"
  BY DEF QInv, Returned
<1>3. Stage(q, next, tasks, worker, queue, printer, early, pr, processed, features)
  BY DEF QInv
<1>4. Filed(q, features, pr)
  BY <1>2, <1>3, StageWhole
<1>5. features = Wanted(q, q.lib, AllResults) /\ (q.format = "xml" => pr.out = Features(q.lib, features))
  <2>1. features = Taken(q, q.lib, AllResults) /\ (q.format = "xml" => pr.out = Features(q.lib, features))
    BY <1>1, <1>4, Zenon DEF Filed
  <2> QED BY <2>1, TakenWanted, Zenon
<1>6. Requested = Features(q.lib, features)
  BY <1>5, Zenon DEF Requested
<1>7. ASSUME q.format = "pbf" PROVE Head(file) = "OSMHeader" /\ Written = Requested
  <2>1. FileStage(q, features, "done", file, blocks, encoder, todo, writer)
    BY <1>2, <1>7, Zenon DEF FInv
  <2>2. Head(file) = "OSMHeader" /\ Written = Features(q.lib, features)
    BY <2>1, FileRead DEF Written
  <2> QED BY <1>6, <2>2, Zenon
<1> QED BY <1>5, <1>6, <1>7, Zenon

(* Whatever is in the library and is asked for, and whatever the order in  *)
(* which results come and the sizes of blocks: a PBF file has the results  *)
(* and all that they need, each feature once with its own tags and         *)
(* members, in order, as far as its sections are kept; and so has an XML   *)
(* file if all relations are to be complete (OsmFileWhole).                *)
THEOREM QueryOsmFileWhole == Spec => []OsmFileWhole
<1>1. Init => QInv /\ FInv
  BY QInvInit, FInvInit
<1>2. QInv /\ FInv /\ [Next]_vars => QInv' /\ FInv'
  BY QInvStep, FInvStep
<1>3. QInv /\ FInv => OsmFileWhole
  BY FInvWhole
<1> QED BY <1>1, <1>2, <1>3, PTL DEF Spec
=============================================================================
