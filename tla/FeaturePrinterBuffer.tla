------------------------ MODULE FeaturePrinterBuffer ------------------------
(***************************************************************************)
(* The text of the features of a tile, as a thread of the executor writes  *)
(* it into chunks (src/gol/query/FeaturePrinterBuffer.h), and what the     *)
(* thread that prints makes of the chunks of all tiles, for each format    *)
(* (ParallelQueryPrinter.h and the printers derived from it).              *)
(*                                                                         *)
(* A text is a sequence of tokens: the characters of a feature f are       *)
(* <<f, 1>>, <<f, 2>>, ..., and what stands between features is a token of *)
(* its own, such as <<",">>. A batch is what is submitted at once: chain,    *)
(* chunks that end up one after the other; results, for the printers that  *)
(* take features instead of text; count, how many results it accounts for; *)
(* and complete, whether it is the last of its tile.                       *)
(***************************************************************************)
EXTENDS Integers, FiniteSets, SequencesExt

CONSTANTS ChunkSize,    \* tokens in a chunk
          BriefBatch      \* features whose tags are aligned with each other

ASSUME SizesAssumption == ChunkSize \in Nat \ {0, 1} /\ BriefBatch \in Nat \ {0}

Batch(chain, results, count, complete) ==
    [chain |-> chain, results |-> results, count |-> count, complete |-> complete]

(* A buffer has a chain of chunks, of which it fills the last; start is    *)
(* where in that one the feature began (0 if it began in an earlier one);  *)
(* sent is what it has submitted                                           *)
NewBuffer == [chain |-> <<<<>>>>, start |-> 0, count |-> 0, sent |-> <<>>]

\* The chunks that a text takes: all are full but the last
Chunks(text) ==
    [i \in 1..(Len(text) \div ChunkSize + 1) |->
        SubSeq(text, (i - 1) * ChunkSize + 1, IF i * ChunkSize < Len(text) THEN i * ChunkSize ELSE Len(text))]

\* Slip: a full chunk is submitted with the part of a feature that is in it
SubmitFull(b, text) ==
    [chain |-> Chunks(SubSeq(text, ChunkSize + 1, Len(text))), start |-> 0, count |-> 0,
     sent |-> Append(b.sent, Batch(Append(Front(b.chain), SubSeq(text, 1, ChunkSize)), <<>>, b.count, FALSE))]

\* filled(), of a last chunk that cannot hold all of text: features that are
\* whole are submitted, and what there is of the next moves to a new chunk; a
\* chunk that has but a part of one feature is followed by others
Filled(b, text) ==
    LET whole == SubSeq(text, 1, b.start)
        part == SubSeq(text, b.start + 1, Len(text))
    IN  IF b.start = 0 THEN [b EXCEPT !.chain = Front(@) \o Chunks(text)]
        ELSE [chain |-> Chunks(part), start |-> 0, count |-> 0,
              sent |-> Append(b.sent, Batch(Append(Front(b.chain), whole), <<>>, b.count, FALSE))]

Put(b, text) == [b EXCEPT !.chain = Append(Front(@), text)]
\* The last chunk with the text that is written to it
Write(b, text) ==
    LET last == Last(b.chain) \o text
    IN  IF Len(last) < ChunkSize THEN Put(b, last) ELSE Filled(b, last)

MarkFeatureStart(b) == [b EXCEPT !.start = Len(Last(b.chain))]
AddCount(b, n) == [b EXCEPT !.count = @ + n]
Flush(b) == Batch(b.chain, <<>>, b.count, TRUE)

-----------------------------------------------------------------------------
(* Formats *)

Mark(m) == <<<<m>>>>
Text(f, size) == [i \in 1..size |-> <<f, i>>]
\* print() of each format
Printed(format, f, size) ==
    CASE format \in {"geojson", "wkt"} -> Mark(",") \o Text(f, size)
      [] format \in {"geojsonl", "csv", "list"} -> Text(f, size) \o Mark("newline")

PrintFeature(b, format, f, size) == Write(MarkFeatureStart(b), Printed(format, f, size))

Header(format) ==
    CASE format = "geojson" -> Mark("{") [] format = "csv" -> Mark("columns") [] OTHER -> <<>>

(* What the thread that prints knows: out, what it has printed; first,     *)
(* whether nothing was printed yet, in the formats that separate features; *)
(* prev, what is held back: a text of a WKT printer, features of a brief   *)
(* one; count, the results                                                 *)
NoOutput == [out |-> <<>>, first |-> TRUE, prev |-> <<>>, count |-> 0]

\* printBatch()
PrintBatch(pr, chain, prefix, skip) ==
    LET text == FlattenSeq(chain)
    IN  IF chain = <<>> \/ skip >= Len(Head(chain)) THEN pr
        ELSE [pr EXCEPT !.out = @ \o prefix \o SubSeq(text, skip + 1, Len(text))]

HasText(chain) == chain # <<>> /\ Head(chain) # <<>>
Counted(pr, batch) == [pr EXCEPT !.count = @ + batch.count]

PrintJson(pr, batch) ==
    IF HasText(batch.chain)
    THEN [PrintBatch(Counted(pr, batch), batch.chain, <<>>, IF pr.first THEN 1 ELSE 0)
            EXCEPT !.first = FALSE]
    ELSE Counted(pr, batch)

\* A WKT printer must know whether there is more than one feature before it
\* prints the first: it prints a text when it has the next
PrintHeldBack(pr) ==
    IF pr.prev = <<>> THEN pr
    ELSE [PrintBatch(pr, pr.prev, IF pr.first /\ pr.count > 1 THEN Mark("(") ELSE <<>>,
                IF pr.first THEN 1 ELSE 0) EXCEPT !.first = FALSE, !.prev = <<>>]
PrintWkt(pr, batch) ==
    LET counted == Counted(pr, batch)
    IN  IF HasText(batch.chain) THEN [PrintHeldBack(counted) EXCEPT !.prev = batch.chain]
        ELSE counted

\* A brief printer prints several features at once, for their tags to be aligned
PrintFeatures(pr, sizes) ==
    [pr EXCEPT !.out = @ \o FlattenSeq([i \in DOMAIN pr.prev |-> Text(pr.prev[i], sizes[pr.prev[i]])]),
               !.prev = <<>>]
PrintBrief(pr, sizes, f) ==
    LET added == [pr EXCEPT !.prev = Append(@, f), !.count = @ + 1]
    IN  IF Len(added.prev) = BriefBatch THEN PrintFeatures(added, sizes) ELSE added

PrintAllBrief(pr, sizes, results) ==
    LET printed[n \in 0..Len(results)] ==
            IF n = 0 THEN pr ELSE PrintBrief(printed[n - 1], sizes, results[n])
    IN  printed[Len(results)]

PrintText(pr, format, sizes, batch) ==
    CASE format = "geojson" -> PrintJson(pr, batch)
      [] format = "wkt" -> PrintWkt(pr, batch)
      [] format \in {"geojsonl", "csv", "list"} -> PrintBatch(Counted(pr, batch), batch.chain, <<>>, 0)
      [] format = "brief" -> PrintAllBrief(pr, sizes, batch.results)
      [] format = "count" -> Counted(pr, batch)

Footer(pr, format, sizes) ==
    CASE format = "geojson" -> [pr EXCEPT !.out = @ \o Mark("}")]
      [] format = "count" -> [pr EXCEPT !.out = @ \o Mark(pr.count)]
      [] format = "brief" ->
            LET printed == PrintFeatures(pr, sizes) IN [printed EXCEPT !.out = @ \o Mark("newline")]
      [] format = "wkt" ->
            IF pr.count = 0 THEN [pr EXCEPT !.out = @ \o Mark("empty")]
            ELSE [PrintHeldBack(pr) EXCEPT !.out = @ \o IF pr.count > 1 THEN Mark(")") ELSE <<>>]
      [] OTHER -> pr
=============================================================================
