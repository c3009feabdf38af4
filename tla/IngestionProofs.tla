-------------------------- MODULE IngestionProofs ---------------------------
(***************************************************************************)
(* Proofs about IngestionPipeline, for documents of any number of chunks and *)
(* batches of any size: a stage finds the results it needs, what is stored  *)
(* went all the way, and the response tells what was stored.  The sessions of *)
(* the import dialog run the pipeline as it is specified, so the same holds of *)
(* them; and for any uploads and any number of requests at the server, the  *)
(* page does not say published before the version is, and a draft that nobody *)
(* is about to publish has been lost sight of.                              *)
(***************************************************************************)
EXTENDS ImportSession, TLAPS

\* The types of all but the flags and the two sequences.
Control == /\ mode \in {"preview", "ingest"}
           /\ at \in 1..14
           /\ have \subseteq Result
           /\ blocks \in Text
           /\ text \in Text
           /\ chunks \in 0..MaxChunks
           /\ answer \in {"none", "not_persisted", "persisted"}
           /\ outcome \in {"none", "running", "answered", "raised"}

Flags == ocr \in BOOLEAN /\ image \in BOOLEAN /\ stop \in BOOLEAN /\ stored \in BOOLEAN

\* The vectors made so far are those of the first chunks, in their order.
Vectors == /\ vectors \in Seq(1..MaxChunks)
           /\ Len(vectors) <= chunks
           /\ \A i \in 1..Len(vectors) : vectors[i] = i

\* The stage that has stopped a run is the last one listed as failed; before that,
\* only OCR has failed.
OnlyOcrFailed == \A i \in 1..Len(log) : log[i].status = "failed" =>
                                          log[i].stage = "ocr_processing"
Logged == /\ log \in Seq(Entry)
          /\ outcome # "raised" /\ stop => Len(log) > 0 /\ log[Len(log)].status = "failed"
          /\ outcome # "raised" /\ ~stop => OnlyOcrFailed

\* What the stages that are done have left, as long as none has stopped the run.
Left == outcome # "raised" /\ ~stop =>
          /\ at > 1 => "file" \in have
          /\ at > 3 => "normalization" \in have
          /\ at > 4 => "routing" \in have
          /\ at > 5 => "document" \in have
          /\ at > 6 => "ocr" \in have
          /\ at > 7 => "text" \in have /\ text = blocks
          /\ at > 8 /\ mode = "ingest" => text # "none"
          /\ at > 9 => "cleaned" \in have
          /\ at > 10 => "sections" \in have
          /\ at > 11 => "chunks" \in have
          /\ at <= 11 => Len(vectors) = 0
          /\ at > 12 /\ mode = "ingest" => "vectors" \in have /\ Len(vectors) >= chunks

\* A run that was stopped has stored nothing; one that has come to the end says
\* what it has stored.
Told == outcome # "raised" =>
          /\ stop => ~stored /\ answer # "persisted"
          /\ ~stop /\ at <= 13 => answer = "none" /\ ~stored
          /\ ~stop /\ at > 13 => /\ answer = "persisted" <=> stored
                                 /\ mode = "ingest" => stored
          /\ outcome = "answered" => stop \/ at > 13

PInv == Control /\ Flags /\ Vectors /\ Logged /\ Left /\ Told /\ StoredIsSound

-----------------------------------------------------------------------------
\* The thirteen stages, each at its place.
LEMMA StagesAre ==
  /\ Len(Stages) = 13
  /\ \A k \in 1..13 :
       /\ Stages[k] = "register_file" <=> k = 1
       /\ Stages[k] = "validate_intake" <=> k = 2
       /\ Stages[k] = "normalize" <=> k = 3
       /\ Stages[k] = "route_parser" <=> k = 4
       /\ Stages[k] = "parse_document" <=> k = 5
       /\ Stages[k] = "run_ocr" <=> k = 6
       /\ Stages[k] = "assemble_text" <=> k = 7
       /\ Stages[k] = "guard_ingest_eligibility" <=> k = 8
       /\ Stages[k] = "clean_text" <=> k = 9
       /\ Stages[k] = "split_sections" <=> k = 10
       /\ Stages[k] = "split_chunks" <=> k = 11
       /\ Stages[k] = "embed_if_needed" <=> k = 12
       /\ Stages[k] = "persist_if_needed" <=> k = 13
  BY DEF Stages

\* The stage that runs is the one at its place, of a run that goes on.
LEMMA Place ==
  ASSUME Control
  PROVE  /\ Running("register_file") => at = 1 /\ outcome = "running" /\ ~stop
         /\ Running("validate_intake") => at = 2 /\ outcome = "running" /\ ~stop
         /\ Running("normalize") => at = 3 /\ outcome = "running" /\ ~stop
         /\ Running("route_parser") => at = 4 /\ outcome = "running" /\ ~stop
         /\ Running("parse_document") => at = 5 /\ outcome = "running" /\ ~stop
         /\ Running("run_ocr") => at = 6 /\ outcome = "running" /\ ~stop
         /\ Running("assemble_text") => at = 7 /\ outcome = "running" /\ ~stop
         /\ Running("guard_ingest_eligibility") => at = 8 /\ outcome = "running" /\ ~stop
         /\ Running("clean_text") => at = 9 /\ outcome = "running" /\ ~stop
         /\ Running("split_sections") => at = 10 /\ outcome = "running" /\ ~stop
         /\ Running("split_chunks") => at = 11 /\ outcome = "running" /\ ~stop
         /\ Running("embed_if_needed") => at = 12 /\ outcome = "running" /\ ~stop
         /\ Running("persist_if_needed") => at = 13 /\ outcome = "running" /\ ~stop
  BY StagesAre DEF Control, Running, AtStage

\* The names that stages are recorded under.
LEMMA NamesAre ==
  {"file_registration", "intake_validation", "format_normalization",
   "parse_routing", "document_parsing", "ocr_processing", "text_assembly",
   "ingest_guard", "text_cleaning", "section_splitting", "chunk_splitting",
   "embedding_generation", "chunk_persistence", "document_persistence"} \subseteq ToSet(StageNames)
<1>1. DOMAIN StageNames = 1..14
  BY DEF StageNames
<1>2. /\ StageNames[1] = "file_registration"
      /\ StageNames[2] = "intake_validation"
      /\ StageNames[3] = "format_normalization"
      /\ StageNames[4] = "parse_routing"
      /\ StageNames[5] = "document_parsing"
      /\ StageNames[6] = "ocr_processing"
      /\ StageNames[7] = "text_assembly"
      /\ StageNames[8] = "ingest_guard"
      /\ StageNames[9] = "text_cleaning"
      /\ StageNames[10] = "section_splitting"
      /\ StageNames[11] = "chunk_splitting"
      /\ StageNames[12] = "embedding_generation"
      /\ StageNames[13] = "chunk_persistence"
      /\ StageNames[14] = "document_persistence"
  BY DEF StageNames
<1>3. QED
  BY <1>1, <1>2 DEF ToSet

LEMMA TypesAre == TypeOK <=> /\ Control /\ Flags
                             /\ vectors \in Seq(1..MaxChunks)
                             /\ log \in Seq(Entry)
<1>1. Len(Stages) + 1 = 14
  BY StagesAre
<1>2. QED
  BY <1>1, Zenon DEF TypeOK, Control, Flags

\* Recording a stage that is not the failed end of the run.
LEMMA RecordGoesOn ==
  ASSUME Logged, outcome # "raised", ~stop, ~stop',
         NEW name \in ToSet(StageNames), NEW status \in {"success", "failed", "skipped"},
         status = "failed" => name = "ocr_processing",
         Record(name, status)
  PROVE  Logged'
<1>. DEFINE e == [stage |-> name, status |-> status]
<1>1. e \in Entry /\ log \in Seq(Entry) /\ log' = Append(log, e)
  BY DEF Entry, Record, Logged
<1>2. /\ log' \in Seq(Entry) /\ Len(log) \in Nat
      /\ Len(log') = Len(log) + 1
      /\ log'[Len(log) + 1] = e
      /\ \A i \in 1..Len(log) : log'[i] = log[i]
  <2>. HIDE DEF e
  <2>. QED
    BY <1>1
<1>3. OnlyOcrFailed'
  BY <1>2 DEF Logged, OnlyOcrFailed
<1>4. QED
  BY <1>2, <1>3 DEF Logged

\* Recording the stage that ends it.
LEMMA RecordStops ==
  ASSUME Logged, outcome # "raised", ~stop, stop',
         NEW name \in ToSet(StageNames), Record(name, "failed")
  PROVE  Logged'
<1>. DEFINE e == [stage |-> name, status |-> "failed"]
<1>1. e \in Entry /\ log \in Seq(Entry) /\ log' = Append(log, e)
  BY DEF Entry, Record, Logged
<1>2. /\ log' \in Seq(Entry) /\ Len(log) \in Nat
      /\ Len(log') = Len(log) + 1
      /\ log'[Len(log')] = e
  <2>. HIDE DEF e
  <2>. QED
    BY <1>1
<1>3. QED
  BY <1>2 DEF Logged

\* Recording the stage that stores.
LEMMA RecordPersists ==
  ASSUME Logged, outcome # "raised", ~stop, ~stop',
         NEW status \in {"success", "skipped"}, RecordPersistence(status)
  PROVE  Logged'
<1>. DEFINE e == [stage |-> "chunk_persistence", status |-> status]
            f == [stage |-> "document_persistence", status |-> "success"]
<1>1. e \in Entry /\ f \in Entry /\ log \in Seq(Entry) /\ log' = log \o <<e, f>>
  BY NamesAre DEF Entry, RecordPersistence, Logged
<1>2. /\ log' \in Seq(Entry) /\ Len(log) \in Nat
      /\ Len(log') = Len(log) + 2
      /\ log'[Len(log) + 1] = e /\ log'[Len(log) + 2] = f
      /\ \A i \in 1..Len(log) : log'[i] = log[i]
  <2>. HIDE DEF e, f
  <2>. QED
    BY <1>1
<1>3. OnlyOcrFailed'
  BY <1>2 DEF Logged, OnlyOcrFailed
<1>4. QED
  BY <1>2, <1>3 DEF Logged

\* A step that records nothing, and changes neither stop nor, but for an answer,
\* the outcome.
LEMMA RecordsNothing ==
  ASSUME Logged, outcome # "raised", log' = log, stop' = stop
  PROVE  Logged'
  BY DEF Logged, OnlyOcrFailed

LEMMA RecordsAfresh ==
  ASSUME Fresh, outcome' # "raised"
  PROVE  Logged'
<1>1. log' = <<>> /\ ~stop'
  BY DEF Fresh
<1>2. log' \in Seq(Entry) /\ Len(log') = 0
  BY <1>1
<1>3. QED
  BY <1>1, <1>2 DEF Logged, OnlyOcrFailed

LEMMA NoVectors ==
  ASSUME Fresh
  PROVE  Vectors' /\ Len(vectors') = 0
<1>1. vectors' = <<>> /\ chunks' = 0
  BY DEF Fresh
<1>2. vectors' \in Seq(1..MaxChunks) /\ Len(vectors') = 0
  BY <1>1
<1>3. QED
  BY <1>1, <1>2 DEF Vectors

\* The next batch: its places follow those of the vectors there are.
LEMMA BatchIs ==
  ASSUME Control, Vectors, Len(vectors) < chunks
  PROVE  \E n \in 1..(chunks - Len(vectors)) :
           Batch = [i \in 1..n |-> Len(vectors) + i]
<1>. DEFINE a == BatchSize
            b == chunks - Len(vectors)
<1>1. chunks \in Nat
  BY BatchAssumption DEF Control
<1>2. Len(vectors) \in Nat
  BY DEF Vectors
<1>3. a \in Nat \ {0} /\ b \in Nat \ {0}
  BY <1>1, <1>2, BatchAssumption
<1>4. Min({a, b}) = IF a <= b THEN a ELSE b
  <2>. HIDE DEF a, b
  <2>. DEFINE m == IF a <= b THEN a ELSE b
  <2>1. m \in {a, b} /\ \A y \in {a, b} : m =< y
    BY <1>3
  <2>2. \A x \in {a, b} : (\A y \in {a, b} : x =< y) => x = m
    BY <1>3
  <2>3. QED
    BY <2>1, <2>2 DEF Min
<1>5. Min({a, b}) \in 1..b
  BY <1>3, <1>4
<1>6. Batch = [i \in 1..Min({a, b}) |-> Len(vectors) + i]
  BY DEF Batch
<1>7. QED
  BY <1>5, <1>6

LEMMA ConcatIs ==
  ASSUME NEW S, NEW s \in Seq(S), NEW t \in Seq(S)
  PROVE  /\ s \o t \in Seq(S)
         /\ Len(s \o t) = Len(s) + Len(t)
         /\ \A i \in 1..Len(s) : (s \o t)[i] = s[i]
         /\ \A i \in 1..Len(t) : (s \o t)[Len(s) + i] = t[i]
  OBVIOUS

\* What a request to the embedding service adds.
LEMMA EmbedAdds ==
  ASSUME Control, Vectors, EmbedBatch
  PROVE  Vectors'
<1>1. Len(vectors) < chunks /\ vectors' = vectors \o Batch /\ chunks' = chunks
  BY DEF EmbedBatch
<1>2. PICK n \in 1..(chunks - Len(vectors)) : Batch = [i \in 1..n |-> Len(vectors) + i]
  BY <1>1, BatchIs
<1>3. vectors \in Seq(1..MaxChunks) /\ \A i \in 1..Len(vectors) : vectors[i] = i
  BY DEF Vectors
<1>4. Len(vectors) \in Nat
  BY <1>3
<1>5. chunks \in Nat /\ chunks <= MaxChunks /\ MaxChunks \in Nat
  BY BatchAssumption DEF Control
<1>6. n \in Nat /\ \A i \in 1..n : Len(vectors) + i \in 1..MaxChunks
  BY <1>4, <1>5
<1>7. Batch \in Seq(1..MaxChunks) /\ Len(Batch) = n /\ \A i \in 1..n : Batch[i] = Len(vectors) + i
  <2>1. Batch \in [1..n -> 1..MaxChunks]
    BY <1>2, <1>6
  <2>2. QED
    BY <1>2, <1>6, <2>1
<1>8. vectors' \in Seq(1..MaxChunks) /\ Len(vectors') = Len(vectors) + n
  BY <1>1, <1>3, <1>7, ConcatIs
<1>9. ASSUME NEW i \in 1..Len(vectors')
      PROVE  vectors'[i] = i
  <2>1. CASE i <= Len(vectors)
    BY <1>1, <1>3, <1>4, <1>8, <2>1
  <2>2. CASE i > Len(vectors)
    <3>1. i - Len(vectors) \in 1..n
      BY <1>4, <1>6, <1>8, <2>2
    <3>2. vectors'[i] = Batch[i - Len(vectors)]
      BY <1>1, <1>3, <1>4, <1>6, <1>7, <1>8, <2>2
    <3>3. QED
      BY <1>4, <1>6, <1>7, <1>8, <3>1, <3>2
  <2>3. QED
    BY <1>4, <1>8, <2>1, <2>2
<1>10. QED
  BY <1>1, <1>2, <1>4, <1>5, <1>8, <1>9 DEF Vectors

\* Every step keeps the context and the response in their ranges.
LEMMA ControlStep ==
  ASSUME PInv, [Next]_vars
  PROVE  Control'
<1>. USE DEF PInv
<1>1. ASSUME RegisterFile
      PROVE  Control'
  BY <1>1, Place, BatchAssumption
     DEF RegisterFile, Go, document, result, Control, Result, Text
<1>2. ASSUME ValidateIntake
      PROVE  Control'
  <2>1. at' \in 1..14 /\ outcome' \in {"none", "running", "answered", "raised"}
    BY <1>2, Place DEF ValidateIntake, Go, Halt, Control
  <2>2. have' \subseteq Result
    BY <1>2 DEF ValidateIntake, Go, Halt, Control, Result
  <2>3. QED
    BY <1>2, <2>1, <2>2, BatchAssumption DEF ValidateIntake, document, result, Control, Text
<1>3. ASSUME Normalize
      PROVE  Control'
  <2>1. at' \in 1..14 /\ outcome' \in {"none", "running", "answered", "raised"}
    BY <1>3, Place DEF Normalize, Go, Halt, Control
  <2>2. have' \subseteq Result
    BY <1>3 DEF Normalize, Go, Halt, Control, Result
  <2>3. QED
    BY <1>3, <2>1, <2>2, BatchAssumption DEF Normalize, document, result, Control, Text
<1>4. ASSUME RouteParser
      PROVE  Control'
  BY <1>4, Place, BatchAssumption
     DEF RouteParser, Go, document, result, Control, Result, Text
<1>5. ASSUME ParseDocument
      PROVE  Control'
  <2>1. at' \in 1..14 /\ outcome' \in {"none", "running", "answered", "raised"}
    BY <1>5, Place DEF ParseDocument, Go, Halt, Control
  <2>2. have' \subseteq Result
    BY <1>5 DEF ParseDocument, Go, Halt, Control, Result
  <2>3. QED
    BY <1>5, <2>1, <2>2, BatchAssumption DEF ParseDocument, document, result, Control, Text
<1>6. ASSUME RunOcr
      PROVE  Control'
  BY <1>6, Place, BatchAssumption
     DEF RunOcr, Go, document, result, Control, Result, Text
<1>7. ASSUME AssembleText
      PROVE  Control'
  <2>1. at' \in 1..14 /\ outcome' \in {"none", "running", "answered", "raised"}
    BY <1>7, Place DEF AssembleText, Go, Halt, Control
  <2>2. have' \subseteq Result
    BY <1>7 DEF AssembleText, Go, Halt, Control, Result
  <2>3. QED
    BY <1>7, <2>1, <2>2, BatchAssumption DEF AssembleText, document, result, Control, Text
<1>8. ASSUME GuardIngestEligibility
      PROVE  Control'
  BY <1>8, Place, BatchAssumption
     DEF GuardIngestEligibility, Go, Halt, document, result, Control, Result, Text
<1>9. ASSUME CleanText
      PROVE  Control'
  BY <1>9, Place, BatchAssumption
     DEF CleanText, Go, document, result, Control, Result, Text
<1>10. ASSUME SplitSections
      PROVE  Control'
  BY <1>10, Place, BatchAssumption
     DEF SplitSections, Go, document, result, Control, Result, Text
<1>11. ASSUME SplitChunks
      PROVE  Control'
  BY <1>11, Place, BatchAssumption
     DEF SplitChunks, Go, document, result, Control, Result, Text
<1>12. ASSUME EmbedBatch
      PROVE  Control'
  BY <1>12, Place, BatchAssumption
     DEF EmbedBatch, document, result, Control, Result, Text
<1>13. ASSUME EmbedIfNeeded
      PROVE  Control'
  <2>1. at' \in 1..14 /\ outcome' \in {"none", "running", "answered", "raised"}
    BY <1>13, Place DEF EmbedIfNeeded, Go, Halt, Control
  <2>2. have' \subseteq Result
    BY <1>13 DEF EmbedIfNeeded, Go, Halt, Control, Result
  <2>3. QED
    BY <1>13, <2>1, <2>2, BatchAssumption DEF EmbedIfNeeded, document, result, Control, Text
<1>14. ASSUME PersistIfNeeded
      PROVE  Control'
  BY <1>14, Place, BatchAssumption
     DEF PersistIfNeeded, document, result, Control, Result, Text
<1>15. ASSUME StageRaises
      PROVE  Control'
  BY <1>15, Place, BatchAssumption
     DEF StageRaises, Running, AtStage, document, result, Control, Result, Text
<1>16. ASSUME Answer
      PROVE  Control'
  BY <1>16, Place, BatchAssumption
     DEF Answer, document, result, Control, Result, Text
<1>17. ASSUME NEW m \in {"preview", "ingest"}, Start(m)
      PROVE  Control'
  BY <1>17, Place, BatchAssumption
     DEF Start, Fresh, Control, Result, Text
<1>18. ASSUME Rest
      PROVE  Control'
  BY <1>18, Place, BatchAssumption
     DEF Rest, Fresh, Control, Result, Text
<1>19. CASE UNCHANGED vars
  BY <1>19
     DEF vars, document, result, Control, Result, Text
<1>20. QED
  BY <1>1, <1>2, <1>3, <1>4, <1>5, <1>6, <1>7, <1>8, <1>9, <1>10, <1>11, <1>12, <1>13, <1>14, <1>15, <1>16, <1>17, <1>18, <1>19
     DEF Next, Stage

\* So are the flags.
LEMMA FlagsStep ==
  ASSUME PInv, [Next]_vars
  PROVE  Flags'
<1>. USE DEF PInv
<1>1. ASSUME RegisterFile
      PROVE  Flags'
  BY <1>1, Zenon
     DEF RegisterFile, Go, document, result, Flags
<1>2. ASSUME ValidateIntake
      PROVE  Flags'
  BY <1>2, Zenon
     DEF ValidateIntake, Go, Halt, document, result, Flags
<1>3. ASSUME Normalize
      PROVE  Flags'
  BY <1>3, Zenon
     DEF Normalize, Go, Halt, document, result, Flags
<1>4. ASSUME RouteParser
      PROVE  Flags'
  BY <1>4, Zenon
     DEF RouteParser, Go, document, result, Flags
<1>5. ASSUME ParseDocument
      PROVE  Flags'
  BY <1>5, Zenon
     DEF ParseDocument, Go, Halt, document, result, Flags
<1>6. ASSUME RunOcr
      PROVE  Flags'
  BY <1>6, Zenon
     DEF RunOcr, Go, document, result, Flags
<1>7. ASSUME AssembleText
      PROVE  Flags'
  BY <1>7, Zenon
     DEF AssembleText, Go, Halt, document, result, Flags
<1>8. ASSUME GuardIngestEligibility
      PROVE  Flags'
  BY <1>8, Zenon
     DEF GuardIngestEligibility, Go, Halt, document, result, Flags
<1>9. ASSUME CleanText
      PROVE  Flags'
  BY <1>9, Zenon
     DEF CleanText, Go, document, result, Flags
<1>10. ASSUME SplitSections
      PROVE  Flags'
  BY <1>10, Zenon
     DEF SplitSections, Go, document, result, Flags
<1>11. ASSUME SplitChunks
      PROVE  Flags'
  BY <1>11, Zenon
     DEF SplitChunks, Go, document, result, Flags
<1>12. ASSUME EmbedBatch
      PROVE  Flags'
  BY <1>12, Zenon
     DEF EmbedBatch, document, result, Flags
<1>13. ASSUME EmbedIfNeeded
      PROVE  Flags'
  BY <1>13, Zenon
     DEF EmbedIfNeeded, Go, document, result, Flags
<1>14. ASSUME PersistIfNeeded
      PROVE  Flags'
  BY <1>14, Zenon
     DEF PersistIfNeeded, document, result, Flags
<1>15. ASSUME StageRaises
      PROVE  Flags'
  BY <1>15, Zenon
     DEF StageRaises, Running, AtStage, document, result, Flags
<1>16. ASSUME Answer
      PROVE  Flags'
  BY <1>16, Zenon
     DEF Answer, document, result, Flags
<1>17. ASSUME NEW m \in {"preview", "ingest"}, Start(m)
      PROVE  Flags'
  BY <1>17, Zenon
     DEF Start, Fresh, Flags
<1>18. ASSUME Rest
      PROVE  Flags'
  BY <1>18, Zenon
     DEF Rest, Fresh, Flags
<1>19. CASE UNCHANGED vars
  BY <1>19
     DEF vars, document, result, Flags
<1>20. QED
  BY <1>1, <1>2, <1>3, <1>4, <1>5, <1>6, <1>7, <1>8, <1>9, <1>10, <1>11, <1>12, <1>13, <1>14, <1>15, <1>16, <1>17, <1>18, <1>19
     DEF Next, Stage

\* No step disturbs the order of the vectors.
LEMMA VectorsStep ==
  ASSUME PInv, [Next]_vars
  PROVE  Vectors'
<1>. USE DEF PInv
<1>1. ASSUME RegisterFile
      PROVE  Vectors'
  BY <1>1, Place
     DEF RegisterFile, Go, document, result, Vectors
<1>2. ASSUME ValidateIntake
      PROVE  Vectors'
  BY <1>2, Place
     DEF ValidateIntake, Go, Halt, document, result, Vectors
<1>3. ASSUME Normalize
      PROVE  Vectors'
  BY <1>3, Place
     DEF Normalize, Go, Halt, document, result, Vectors
<1>4. ASSUME RouteParser
      PROVE  Vectors'
  BY <1>4, Place
     DEF RouteParser, Go, document, result, Vectors
<1>5. ASSUME ParseDocument
      PROVE  Vectors'
  BY <1>5, Place
     DEF ParseDocument, Go, Halt, document, result, Vectors
<1>6. ASSUME RunOcr
      PROVE  Vectors'
  BY <1>6, Place
     DEF RunOcr, Go, document, result, Vectors
<1>7. ASSUME AssembleText
      PROVE  Vectors'
  BY <1>7, Place
     DEF AssembleText, Go, Halt, document, result, Vectors
<1>8. ASSUME GuardIngestEligibility
      PROVE  Vectors'
  BY <1>8, Place
     DEF GuardIngestEligibility, Go, Halt, document, result, Vectors
<1>9. ASSUME CleanText
      PROVE  Vectors'
  BY <1>9, Place
     DEF CleanText, Go, document, result, Vectors
<1>10. ASSUME SplitSections
      PROVE  Vectors'
  BY <1>10, Place
     DEF SplitSections, Go, document, result, Vectors
<1>11. ASSUME SplitChunks
      PROVE  Vectors'
  BY <1>11, Place, BatchAssumption DEF SplitChunks, Left, Control, Vectors
<1>12. ASSUME EmbedBatch
      PROVE  Vectors'
  BY <1>12, EmbedAdds
<1>13. ASSUME EmbedIfNeeded
      PROVE  Vectors'
  BY <1>13, Place
     DEF EmbedIfNeeded, Go, document, result, Vectors
<1>14. ASSUME PersistIfNeeded
      PROVE  Vectors'
  BY <1>14, Place
     DEF PersistIfNeeded, document, result, Vectors
<1>15. ASSUME StageRaises
      PROVE  Vectors'
  BY <1>15, Place
     DEF StageRaises, Running, AtStage, document, result, Vectors
<1>16. ASSUME Answer
      PROVE  Vectors'
  BY <1>16, Place
     DEF Answer, document, result, Vectors
<1>17. ASSUME NEW m \in {"preview", "ingest"}, Start(m)
      PROVE  Vectors'
  BY <1>17, NoVectors DEF Start
<1>18. ASSUME Rest
      PROVE  Vectors'
  BY <1>18, NoVectors DEF Rest
<1>19. CASE UNCHANGED vars
  BY <1>19
     DEF vars, document, result, Vectors
<1>20. QED
  BY <1>1, <1>2, <1>3, <1>4, <1>5, <1>6, <1>7, <1>8, <1>9, <1>10, <1>11, <1>12, <1>13, <1>14, <1>15, <1>16, <1>17, <1>18, <1>19
     DEF Next, Stage

\* A stage is recorded as failed only when it stops the run, OCR apart.
LEMMA LoggedStep ==
  ASSUME PInv, [Next]_vars
  PROVE  Logged'
<1>. USE DEF PInv
<1>1. ASSUME RegisterFile
      PROVE  Logged'
  BY <1>1, Place, NamesAre, RecordGoesOn
     DEF RegisterFile, Go
<1>2. ASSUME ValidateIntake
      PROVE  Logged'
  BY <1>2, Place, NamesAre, RecordGoesOn, RecordStops
     DEF ValidateIntake, Go, Halt
<1>3. ASSUME Normalize
      PROVE  Logged'
  BY <1>3, Place, NamesAre, RecordGoesOn, RecordStops
     DEF Normalize, Go, Halt
<1>4. ASSUME RouteParser
      PROVE  Logged'
  BY <1>4, Place, NamesAre, RecordGoesOn
     DEF RouteParser, Go
<1>5. ASSUME ParseDocument
      PROVE  Logged'
  BY <1>5, Place, NamesAre, RecordGoesOn, RecordStops
     DEF ParseDocument, Go, Halt
<1>6. ASSUME RunOcr
      PROVE  Logged'
  BY <1>6, Place, NamesAre, RecordGoesOn
     DEF RunOcr, Go
<1>7. ASSUME AssembleText
      PROVE  Logged'
  BY <1>7, Place, NamesAre, RecordGoesOn, RecordStops
     DEF AssembleText, Go, Halt
<1>8. ASSUME GuardIngestEligibility
      PROVE  Logged'
  BY <1>8, Place, NamesAre, RecordGoesOn, RecordStops, RecordsNothing
     DEF GuardIngestEligibility, Go, Halt
<1>9. ASSUME CleanText
      PROVE  Logged'
  BY <1>9, Place, NamesAre, RecordGoesOn
     DEF CleanText, Go
<1>10. ASSUME SplitSections
      PROVE  Logged'
  BY <1>10, Place, NamesAre, RecordGoesOn
     DEF SplitSections, Go
<1>11. ASSUME SplitChunks
      PROVE  Logged'
  BY <1>11, Place, NamesAre, RecordGoesOn
     DEF SplitChunks, Go
<1>12. ASSUME EmbedBatch
      PROVE  Logged'
  BY <1>12, Place, RecordsNothing DEF EmbedBatch
<1>13. ASSUME EmbedIfNeeded
      PROVE  Logged'
  BY <1>13, Place, NamesAre, RecordGoesOn
     DEF EmbedIfNeeded, Go
<1>14. ASSUME PersistIfNeeded
      PROVE  Logged'
  BY <1>14, Place, RecordPersists DEF PersistIfNeeded
<1>15. ASSUME StageRaises
      PROVE  Logged'
  BY <1>15 DEF StageRaises, Logged
<1>16. ASSUME Answer
      PROVE  Logged'
  BY <1>16, RecordsNothing DEF Answer
<1>17. ASSUME NEW m \in {"preview", "ingest"}, Start(m)
      PROVE  Logged'
  BY <1>17, RecordsAfresh DEF Start
<1>18. ASSUME Rest
      PROVE  Logged'
  BY <1>18, RecordsAfresh DEF Rest
<1>19. CASE UNCHANGED vars
  BY <1>19 DEF vars, Logged, OnlyOcrFailed
<1>20. QED
  BY <1>1, <1>2, <1>3, <1>4, <1>5, <1>6, <1>7, <1>8, <1>9, <1>10, <1>11, <1>12, <1>13, <1>14, <1>15, <1>16, <1>17, <1>18, <1>19
     DEF Next, Stage

\* A stage that does not fail leaves its results, and a text that is not empty.
LEMMA LeftStep ==
  ASSUME PInv, [Next]_vars
  PROVE  Left'
<1>. USE DEF PInv
<1>1. ASSUME RegisterFile
      PROVE  Left'
  BY <1>1, Place
     DEF RegisterFile, Go, document, result, Control, Text, Left
<1>2. ASSUME ValidateIntake
      PROVE  Left'
  BY <1>2, Place
     DEF ValidateIntake, Go, Halt, document, result, Control, Text, Left
<1>3. ASSUME Normalize
      PROVE  Left'
  BY <1>3, Place
     DEF Normalize, Go, Halt, document, result, Control, Text, Left
<1>4. ASSUME RouteParser
      PROVE  Left'
  BY <1>4, Place
     DEF RouteParser, Go, document, result, Control, Text, Left
<1>5. ASSUME ParseDocument
      PROVE  Left'
  BY <1>5, Place
     DEF ParseDocument, Go, Halt, document, result, Control, Text, Left
<1>6. ASSUME RunOcr
      PROVE  Left'
  BY <1>6, Place
     DEF RunOcr, Go, document, result, Control, Text, Left
<1>7. ASSUME AssembleText
      PROVE  Left'
  BY <1>7, Place
     DEF AssembleText, Go, Halt, document, result, Control, Text, Left
<1>8. ASSUME GuardIngestEligibility
      PROVE  Left'
  BY <1>8, Place
     DEF GuardIngestEligibility, Go, Halt, document, result, Control, Text, Left
<1>9. ASSUME CleanText
      PROVE  Left'
  BY <1>9, Place
     DEF CleanText, Go, document, result, Control, Text, Left
<1>10. ASSUME SplitSections
      PROVE  Left'
  BY <1>10, Place
     DEF SplitSections, Go, document, result, Control, Text, Left
<1>11. ASSUME SplitChunks
      PROVE  Left'
  BY <1>11, Place
     DEF SplitChunks, Go, document, result, Control, Text, Left
<1>12. ASSUME EmbedBatch
      PROVE  Left'
  BY <1>12, Place
     DEF EmbedBatch, document, result, Control, Text, Left
<1>13. ASSUME EmbedIfNeeded
      PROVE  Left'
  BY <1>13, Place
     DEF EmbedIfNeeded, Go, document, result, Control, Text, Left
<1>14. ASSUME PersistIfNeeded
      PROVE  Left'
  BY <1>14, Place
     DEF PersistIfNeeded, document, result, Control, Text, Left
<1>15. ASSUME StageRaises
      PROVE  Left'
  BY <1>15, Place
     DEF StageRaises, Running, AtStage, document, result, Control, Text, Left
<1>16. ASSUME Answer
      PROVE  Left'
  BY <1>16, Place
     DEF Answer, document, result, Control, Text, Left
<1>17. ASSUME NEW m \in {"preview", "ingest"}, Start(m)
      PROVE  Left'
  BY <1>17, NoVectors DEF Start, Fresh, Left
<1>18. ASSUME Rest
      PROVE  Left'
  BY <1>18, NoVectors DEF Rest, Fresh, Left
<1>19. CASE UNCHANGED vars
  BY <1>19
     DEF vars, document, result, Control, Text, Left
<1>20. QED
  BY <1>1, <1>2, <1>3, <1>4, <1>5, <1>6, <1>7, <1>8, <1>9, <1>10, <1>11, <1>12, <1>13, <1>14, <1>15, <1>16, <1>17, <1>18, <1>19
     DEF Next, Stage

\* The response says what has been stored.
LEMMA ToldStep ==
  ASSUME PInv, [Next]_vars
  PROVE  Told'
<1>. USE DEF PInv
<1>1. ASSUME RegisterFile
      PROVE  Told'
  BY <1>1, Place
     DEF RegisterFile, Go, document, result, Control, Told
<1>2. ASSUME ValidateIntake
      PROVE  Told'
  BY <1>2, Place
     DEF ValidateIntake, Go, Halt, document, result, Control, Told
<1>3. ASSUME Normalize
      PROVE  Told'
  BY <1>3, Place
     DEF Normalize, Go, Halt, document, result, Control, Told
<1>4. ASSUME RouteParser
      PROVE  Told'
  BY <1>4, Place
     DEF RouteParser, Go, document, result, Control, Told
<1>5. ASSUME ParseDocument
      PROVE  Told'
  BY <1>5, Place
     DEF ParseDocument, Go, Halt, document, result, Control, Told
<1>6. ASSUME RunOcr
      PROVE  Told'
  BY <1>6, Place
     DEF RunOcr, Go, document, result, Control, Told
<1>7. ASSUME AssembleText
      PROVE  Told'
  BY <1>7, Place
     DEF AssembleText, Go, Halt, document, result, Control, Told
<1>8. ASSUME GuardIngestEligibility
      PROVE  Told'
  BY <1>8, Place
     DEF GuardIngestEligibility, Go, Halt, document, result, Control, Told
<1>9. ASSUME CleanText
      PROVE  Told'
  BY <1>9, Place
     DEF CleanText, Go, document, result, Control, Told
<1>10. ASSUME SplitSections
      PROVE  Told'
  BY <1>10, Place
     DEF SplitSections, Go, document, result, Control, Told
<1>11. ASSUME SplitChunks
      PROVE  Told'
  BY <1>11, Place
     DEF SplitChunks, Go, document, result, Control, Told
<1>12. ASSUME EmbedBatch
      PROVE  Told'
  BY <1>12, Place
     DEF EmbedBatch, document, result, Control, Told
<1>13. ASSUME EmbedIfNeeded
      PROVE  Told'
  BY <1>13, Place
     DEF EmbedIfNeeded, Go, document, result, Control, Told
<1>14. ASSUME PersistIfNeeded
      PROVE  Told'
  BY <1>14, Place
     DEF PersistIfNeeded, document, result, Control, Told
<1>15. ASSUME StageRaises
      PROVE  Told'
  BY <1>15, Place
     DEF StageRaises, Running, AtStage, document, result, Control, Told
<1>16. ASSUME Answer
      PROVE  Told'
  BY <1>16, StagesAre DEF Answer, result, Control, Told
<1>17. ASSUME NEW m \in {"preview", "ingest"}, Start(m)
      PROVE  Told'
  BY <1>17, Place
     DEF Start, Fresh, Control, Told
<1>18. ASSUME Rest
      PROVE  Told'
  BY <1>18, Place
     DEF Rest, Fresh, Control, Told
<1>19. CASE UNCHANGED vars
  BY <1>19
     DEF vars, document, result, Control, Told
<1>20. QED
  BY <1>1, <1>2, <1>3, <1>4, <1>5, <1>6, <1>7, <1>8, <1>9, <1>10, <1>11, <1>12, <1>13, <1>14, <1>15, <1>16, <1>17, <1>18, <1>19
     DEF Next, Stage

\* Vectors of all the chunks are those the transaction needs.
LEMMA AllVectors ==
  ASSUME Vectors, chunks \in Nat, Len(vectors) >= chunks
  PROVE  vectors = [i \in 1..chunks |-> i]
<1>1. vectors \in Seq(1..MaxChunks) /\ Len(vectors) = chunks
  BY DEF Vectors
<1>2. vectors = [i \in 1..Len(vectors) |-> vectors[i]]
  BY <1>1
<1>3. QED
  BY <1>1, <1>2 DEF Vectors

\* An ingest that has come to the stage that stores may store.
LEMMA SoundToStore ==
  ASSUME PInv, Running("persist_if_needed"), mode = "ingest"
  PROVE  /\ text # "none" /\ text = blocks
         /\ {"ocr", "text", "vectors"} \subseteq have
         /\ vectors = [i \in 1..chunks |-> i]
         /\ OnlyOcrFailed
<1>1. at = 13 /\ outcome = "running" /\ ~stop
  BY Place DEF PInv
<1>2. chunks \in Nat
  BY BatchAssumption DEF PInv, Control
<1>3. QED
  BY <1>1, <1>2, AllVectors DEF PInv, Left, Logged

\* Only a run without a failure comes to the stage that stores.
LEMMA SoundStep ==
  ASSUME PInv, [Next]_vars
  PROVE  StoredIsSound'
<1>. USE DEF PInv
<1>1. ASSUME RegisterFile
      PROVE  StoredIsSound'
  BY <1>1, Place
     DEF RegisterFile, Go, document, result, Control, Told, StoredIsSound
<1>2. ASSUME ValidateIntake
      PROVE  StoredIsSound'
  BY <1>2, Place
     DEF ValidateIntake, Go, Halt, document, result, Control, Told, StoredIsSound
<1>3. ASSUME Normalize
      PROVE  StoredIsSound'
  BY <1>3, Place
     DEF Normalize, Go, Halt, document, result, Control, Told, StoredIsSound
<1>4. ASSUME RouteParser
      PROVE  StoredIsSound'
  BY <1>4, Place
     DEF RouteParser, Go, document, result, Control, Told, StoredIsSound
<1>5. ASSUME ParseDocument
      PROVE  StoredIsSound'
  BY <1>5, Place
     DEF ParseDocument, Go, Halt, document, result, Control, Told, StoredIsSound
<1>6. ASSUME RunOcr
      PROVE  StoredIsSound'
  BY <1>6, Place
     DEF RunOcr, Go, document, result, Control, Told, StoredIsSound
<1>7. ASSUME AssembleText
      PROVE  StoredIsSound'
  BY <1>7, Place
     DEF AssembleText, Go, Halt, document, result, Control, Told, StoredIsSound
<1>8. ASSUME GuardIngestEligibility
      PROVE  StoredIsSound'
  BY <1>8, Place
     DEF GuardIngestEligibility, Go, Halt, document, result, Control, Told,
         StoredIsSound
<1>9. ASSUME CleanText
      PROVE  StoredIsSound'
  BY <1>9, Place
     DEF CleanText, Go, document, result, Control, Told, StoredIsSound
<1>10. ASSUME SplitSections
      PROVE  StoredIsSound'
  BY <1>10, Place
     DEF SplitSections, Go, document, result, Control, Told, StoredIsSound
<1>11. ASSUME SplitChunks
      PROVE  StoredIsSound'
  BY <1>11, Place
     DEF SplitChunks, Go, document, result, Control, Told, StoredIsSound
<1>12. ASSUME EmbedBatch
      PROVE  StoredIsSound'
  BY <1>12, Place
     DEF EmbedBatch, document, result, Control, Told, StoredIsSound
<1>13. ASSUME EmbedIfNeeded
      PROVE  StoredIsSound'
  BY <1>13, Place
     DEF EmbedIfNeeded, Go, document, result, Control, Told, StoredIsSound
<1>14. ASSUME PersistIfNeeded
      PROVE  StoredIsSound'
  <2>1. Running("persist_if_needed") /\ outcome = "running" /\ ~stop /\ ~stop'
    BY <1>14, Place DEF PersistIfNeeded
  <2>2. CASE mode = "ingest"
    <3>1. PICK status \in {"success", "skipped"} : RecordPersistence(status)
      BY <1>14 DEF PersistIfNeeded
    <3>2. OnlyOcrFailed'
      BY <1>14, <2>1, <3>1, RecordPersists DEF PersistIfNeeded, Logged
    <3>3. QED
      BY <1>14, <2>1, <2>2, <3>2, SoundToStore
         DEF PersistIfNeeded, StoredIsSound, OnlyOcrFailed, document
  <2>3. CASE mode # "ingest"
    BY <1>14, <2>1, <2>3, Place DEF PersistIfNeeded, Told, StoredIsSound, Control
  <2>4. QED
    BY <2>2, <2>3
<1>15. ASSUME StageRaises
      PROVE  StoredIsSound'
  <2>1. CASE UNCHANGED stored
    BY <1>15, <2>1 DEF StageRaises, StoredIsSound, document
  <2>2. CASE Running("persist_if_needed") /\ mode = "ingest"
    BY <1>15, <2>2, SoundToStore DEF StageRaises, StoredIsSound, OnlyOcrFailed, document
  <2>3. QED
    BY <1>15, <2>1, <2>2 DEF StageRaises
<1>16. ASSUME Answer
      PROVE  StoredIsSound'
  BY <1>16, Place
     DEF Answer, document, result, Control, Told, StoredIsSound
<1>17. ASSUME NEW m \in {"preview", "ingest"}, Start(m)
      PROVE  StoredIsSound'
  BY <1>17, Place
     DEF Start, Fresh, Control, Told, StoredIsSound
<1>18. ASSUME Rest
      PROVE  StoredIsSound'
  BY <1>18, Place
     DEF Rest, Fresh, Control, Told, StoredIsSound
<1>19. CASE UNCHANGED vars
  BY <1>19
     DEF vars, document, result, Control, Told, StoredIsSound
<1>20. QED
  BY <1>1, <1>2, <1>3, <1>4, <1>5, <1>6, <1>7, <1>8, <1>9, <1>10, <1>11, <1>12, <1>13, <1>14, <1>15, <1>16, <1>17, <1>18, <1>19
     DEF Next, Stage


\* The invariant of the pipeline (pipeline.py, context.py): what the stages leave
\* for each other, and what the response says.
THEOREM PipelineInvariant == Spec => []PInv
<1>1. ASSUME Init
      PROVE  PInv
  <2>1. Control
    BY <1>1, BatchAssumption DEF Init, Control, Text
  <2>2. vectors \in Seq(1..MaxChunks) /\ Len(vectors) = 0 /\ chunks = 0
    BY <1>1 DEF Init
  <2>3. log \in Seq(Entry) /\ Len(log) = 0
    BY <1>1 DEF Init
  <2>4. Flags
    BY <1>1, Zenon DEF Init, Flags
  <2>5. QED
    BY <1>1, <2>1, <2>2, <2>3, <2>4
       DEF Init, PInv, Vectors, Logged, OnlyOcrFailed, Left, Told, StoredIsSound
<1>2. PInv /\ [Next]_vars => PInv'
  BY ControlStep, FlagsStep, VectorsStep, LoggedStep, LeftStep, ToldStep, SoundStep DEF PInv
<1>3. QED
  BY <1>1, <1>2, PTL DEF Spec

LEMMA Consequences ==
  ASSUME PInv
  PROVE  TypeOK /\ InputsReady /\ StoredIsSound /\ AnswerTellsStored
<1>1. TypeOK
  BY TypesAre, Zenon DEF PInv, Vectors, Logged
<1>2. ASSUME AtStage
      PROVE  Needs(Stages[at]) \subseteq have
  <2>1. at \in 1..13 /\ outcome # "raised" /\ ~stop
    BY <1>2, StagesAre DEF PInv, Control, AtStage
  <2>2. CASE at < 13
    BY <2>1, <2>2, StagesAre DEF PInv, Left, Needs
  <2>3. CASE at = 13
    <3>1. Stages[at] = "persist_if_needed"
      BY <2>3, StagesAre
    <3>2. /\ {"file", "document", "text", "cleaned", "sections", "chunks"} \subseteq have
          /\ mode = "ingest" => "vectors" \in have
      BY <2>1, <2>3 DEF PInv, Left
    <3>3. mode \in {"preview", "ingest"}
      BY DEF PInv, Control
    <3>4. QED
      BY <3>1, <3>2, <3>3 DEF Needs, NeedsToStore
  <2>4. QED
    BY <2>1, <2>2, <2>3
<1>3. AnswerTellsStored
  BY DEF PInv, Control, Logged, Told, AnswerTellsStored, Last
<1>4. QED
  BY <1>1, <1>2, <1>3 DEF PInv, InputsReady

\* A step of a session is one of the pipeline, or leaves it alone.
LEMMA SessionStep ==
  ASSUME [SessionNext]_sessionVars
  PROVE  [Next]_vars
<1>1. ASSUME SubmitForm \/ Confirm \/ Cancel \/ TimesOut \/ Lose
      PROVE  [Next]_vars
  BY <1>1 DEF SubmitForm, Confirm, Cancel, TimesOut, Lose, Send, pipeline
<1>2. ASSUME Run
      PROVE  [Next]_vars
  BY <1>2 DEF Run, Next
<1>3. ASSUME NEW i \in 1..Len(requests), AcceptPreview(i) \/ AcceptIngest(i)
      PROVE  [Next]_vars
  BY <1>3 DEF AcceptPreview, AcceptIngest, Next
<1>4. ASSUME NEW i \in 1..Len(requests), Refuse(i) \/ Activate(i) \/ ActivateFails(i)
      PROVE  [Next]_vars
  BY <1>4 DEF Refuse, Activate, ActivateFails, pipeline
<1>5. ASSUME NEW i \in 1..Len(requests), PreviewEnds(i) \/ IngestEnds(i)
      PROVE  [Next]_vars
  BY <1>5 DEF PreviewEnds, IngestEnds, Next
<1>6. CASE UNCHANGED sessionVars
  BY <1>6 DEF sessionVars, pipeline
<1>7. QED
  BY <1>1, <1>2, <1>3, <1>4, <1>5, <1>6 DEF SessionNext, ServerStep, ServeActivate

\* The page and the server run the pipeline as it is specified: a request starts it
\* at rest, and nothing but its stages moves it.
THEOREM SessionRunsPipeline == SessionSpec => Spec
<1>1. SessionInit => Init
  BY DEF SessionInit
<1>2. [SessionNext]_sessionVars => [Next]_vars
  BY SessionStep
<1>3. QED
  BY <1>1, <1>2, PTL DEF SessionSpec, Spec

\* In every session, no stage of pipeline.py raises for a result that another one
\* should have left in the context.
THEOREM InputsCorrect == SessionSpec => []InputsReady
<1>1. PInv => InputsReady
  BY Consequences
<1>2. QED
  BY <1>1, SessionRunsPipeline, PipelineInvariant, PTL

\* In every session, what is stored went through every stage of pipeline.py
\* without a failure and has a vector for each of its chunks.
THEOREM StoredCorrect == SessionSpec => []StoredIsSound
<1>1. PInv => StoredIsSound
  BY Consequences
<1>2. QED
  BY <1>1, SessionRunsPipeline, PipelineInvariant, PTL

\* In every session, the response says persisted just when the version is stored.
THEOREM AnswerCorrect == SessionSpec => []AnswerTellsStored
<1>1. PInv => AnswerTellsStored
  BY Consequences
<1>2. QED
  BY <1>1, SessionRunsPipeline, PipelineInvariant, PTL

-----------------------------------------------------------------------------
\* The dialog and its requests.

\* The pipeline runs for the one request that the server serves.
Served == {i \in 1..Len(requests) : requests[i].served}
ServesOne == /\ requests \in Seq(Request)
             /\ \A i, j \in Served : i = j
             /\ \A i \in Served : requests[i].kind = mode
             /\ outcome # "none" => Served # {}

\* A draft is lost, about to be activated, or that of the run that is going on.
Activating == \E i \in 1..Len(requests) : requests[i].kind = "activate"
Explained == version = "draft" =>
               \/ lost
               \/ Activating
               \/ stored /\ mode = "ingest" /\ outcome # "none"

\* What the dialog asks to confirm names an upload.
Asks == preview # None => preview.upload \in Upload \cup {None}

DInv == PInv /\ ServesOne /\ Asks /\ Explained

-----------------------------------------------------------------------------
\* What taking one request out of the queue leaves.
LEMMA RemovedAt ==
  ASSUME NEW S, NEW s \in Seq(S), NEW i \in 1..Len(s)
  PROVE  /\ RemoveAt(s, i) \in Seq(S)
         /\ Len(RemoveAt(s, i)) = Len(s) - 1
         /\ \A j \in 1..(Len(s) - 1) :
              RemoveAt(s, i)[j] = IF j < i THEN s[j] ELSE s[j + 1]
<1>. DEFINE a == SubSeq(s, 1, i - 1)
            b == SubSeq(s, i + 1, Len(s))
<1>1. Len(s) \in Nat /\ i \in Nat /\ 1 <= i /\ i <= Len(s)
  OBVIOUS
<1>2. a \in Seq(S) /\ Len(a) = i - 1 /\ \A j \in 1..(i - 1) : a[j] = s[j]
  BY <1>1
<1>3. /\ b \in Seq(S) /\ Len(b) = Len(s) - i
      /\ \A j \in 1..(Len(s) - i) : b[j] = s[i + j]
  BY <1>1
<1>4. RemoveAt(s, i) = a \o b
  BY DEF RemoveAt
<1>. HIDE DEF a, b
<1>. DEFINE c == a \o b
<1>5. /\ c \in Seq(S) /\ Len(c) = Len(s) - 1
      /\ \A j \in 1..(i - 1) : c[j] = s[j]
      /\ \A j \in 1..(Len(s) - i) : c[(i - 1) + j] = s[i + j]
  <2>. SUFFICES ASSUME a \in Seq(S), b \in Seq(S)
                PROVE  /\ c \in Seq(S) /\ Len(c) = Len(s) - 1
                       /\ \A j \in 1..(i - 1) : c[j] = s[j]
                       /\ \A j \in 1..(Len(s) - i) : c[(i - 1) + j] = s[i + j]
    BY <1>2, <1>3
  <2>1. /\ c \in Seq(S) /\ Len(c) = Len(a) + Len(b)
        /\ \A j \in 1..Len(a) : c[j] = a[j]
        /\ \A j \in 1..Len(b) : c[Len(a) + j] = b[j]
    BY ConcatIs
  <2>. HIDE DEF c
  <2>2. Len(c) = Len(s) - 1
    BY <1>1, <1>2, <1>3, <2>1
  <2>3. ASSUME NEW j \in 1..(i - 1) PROVE c[j] = s[j]
    <3>1. j \in 1..Len(a) /\ a[j] = s[j]
      BY <1>2
    <3>2. QED
      BY <2>1, <3>1
  <2>4. ASSUME NEW j \in 1..(Len(s) - i) PROVE c[(i - 1) + j] = s[i + j]
    <3>1. j \in 1..Len(b) /\ b[j] = s[i + j] /\ Len(a) = i - 1
      BY <1>2, <1>3
    <3>2. c[Len(a) + j] = b[j]
      BY <2>1, <3>1
    <3>3. QED
      BY <3>1, <3>2
  <2>5. QED
    BY <2>1, <2>2, <2>3, <2>4
<1>. HIDE DEF c
<1>6. ASSUME NEW j \in 1..(Len(s) - 1)
      PROVE  c[j] = IF j < i THEN s[j] ELSE s[j + 1]
  <2>1. CASE j < i
    BY <1>1, <1>5, <2>1
  <2>2. CASE ~(j < i)
    <3>1. /\ j - (i - 1) \in 1..(Len(s) - i)
          /\ i + (j - (i - 1)) = j + 1 /\ (i - 1) + (j - (i - 1)) = j
      BY <1>1, <2>2
    <3>2. QED
      BY <1>5, <2>2, <3>1
  <2>3. QED
    BY <2>1, <2>2
<1>7. QED
  BY <1>4, <1>5, <1>6 DEF c

\* Each request but the one taken out stays, and no other comes.
LEMMA Remains ==
  ASSUME requests \in Seq(Request), NEW i \in 1..Len(requests)
  PROVE  LET r == RemoveAt(requests, i)
         IN  /\ r \in Seq(Request)
             /\ \A j \in 1..Len(requests) : j # i => \E k \in 1..Len(r) : r[k] = requests[j]
             /\ ServesOne => /\ \A k, m \in 1..Len(r) : r[k].served /\ r[m].served => k = m
                             /\ \A k \in 1..Len(r) : r[k].served => r[k].kind = mode
             /\ i \in Served /\ ServesOne => \A k \in 1..Len(r) : ~r[k].served
             /\ Served = {} => \A k \in 1..Len(r) : ~r[k].served
<1>. DEFINE r == RemoveAt(requests, i)
<1>1. /\ r \in Seq(Request) /\ Len(r) = Len(requests) - 1
      /\ \A k \in 1..(Len(requests) - 1) :
           r[k] = IF k < i THEN requests[k] ELSE requests[k + 1]
  BY RemovedAt
<1>2. Len(requests) \in Nat
  OBVIOUS
<1>. HIDE DEF r
<1>3. ASSUME NEW j \in 1..Len(requests), j # i
      PROVE  \E k \in 1..Len(r) : r[k] = requests[j]
  <2>1. CASE j < i
    <3>1. j \in 1..Len(r) /\ r[j] = requests[j]
      BY <1>1, <1>2, <2>1
    <3>2. QED
      BY <3>1
  <2>2. CASE ~(j < i)
    <3>1. j - 1 \in 1..Len(r) /\ r[j - 1] = requests[j]
      BY <1>1, <1>2, <1>3, <2>2
    <3>2. QED
      BY <3>1
  <2>3. QED
    BY <2>1, <2>2
<1>4. ASSUME NEW k \in 1..Len(r)
      PROVE  \E j \in 1..Len(requests) : j # i /\ r[k] = requests[j]
  <2>1. CASE k < i
    <3>1. k \in 1..Len(requests) /\ k # i /\ r[k] = requests[k]
      BY <1>1, <1>2, <1>4, <2>1
    <3>2. QED
      BY <3>1
  <2>2. CASE ~(k < i)
    <3>1. k + 1 \in 1..Len(requests) /\ k + 1 # i /\ r[k] = requests[k + 1]
      BY <1>1, <1>2, <1>4, <2>2
    <3>2. QED
      BY <3>1
  <2>3. QED
    BY <2>1, <2>2
<1>5. i \in Served /\ ServesOne => \A k \in 1..Len(r) : ~r[k].served
  BY <1>4 DEF Served, ServesOne
<1>6. Served = {} => \A k \in 1..Len(r) : ~r[k].served
  BY <1>4 DEF Served
<1>7. ASSUME ServesOne, NEW k \in 1..Len(r), r[k].served
      PROVE  r[k].kind = mode
  BY <1>4, <1>7 DEF Served, ServesOne
<1>8. ASSUME ServesOne, NEW k \in 1..Len(r), NEW m \in 1..Len(r), r[k].served, r[m].served
      PROVE  k = m
  <2>. DEFINE F(x) == IF x < i THEN x ELSE x + 1
  <2>1. F(k) \in Served /\ F(m) \in Served
    BY <1>1, <1>2, <1>8 DEF Served
  <2>2. F(k) = F(m)
    BY <1>8, <2>1 DEF ServesOne
  <2>3. QED
    BY <1>1, <1>2, <2>2
<1>9. QED
  BY <1>1, <1>3, <1>5, <1>6, <1>7, <1>8 DEF r

LEMMA NoneComes ==
  ASSUME requests \in Seq(Request), NEW i \in 1..Len(requests), NEW r,
         r = RemoveAt(requests, i)
  PROVE  \A k \in 1..Len(r) : \E j \in 1..Len(requests) : r[k] = requests[j]
<1>1. /\ Len(r) = Len(requests) - 1 /\ Len(requests) \in Nat
      /\ \A k \in 1..(Len(requests) - 1) :
           r[k] = IF k < i THEN requests[k] ELSE requests[k + 1]
  <2>1. /\ Len(RemoveAt(requests, i)) = Len(requests) - 1
        /\ \A k \in 1..(Len(requests) - 1) :
             RemoveAt(requests, i)[k] = IF k < i THEN requests[k] ELSE requests[k + 1]
    BY RemovedAt
  <2>2. Len(requests) \in Nat
    OBVIOUS
  <2>3. QED
    BY <2>1, <2>2, Zenon
<1>2. ASSUME NEW k \in 1..Len(r)
      PROVE  k \in 1..Len(requests) /\ k + 1 \in 1..Len(requests)
  BY <1>1
<1>3. QED
  BY <1>1, <1>2

\* A request that is added at the end.
LEMMA Appended ==
  ASSUME NEW q \in Seq(Request), NEW e \in Request
  PROVE  /\ Append(q, e) \in Seq(Request)
         /\ Len(Append(q, e)) = Len(q) + 1
         /\ Append(q, e)[Len(q) + 1] = e
         /\ \A i \in 1..Len(q) : Append(q, e)[i] = q[i]
  OBVIOUS

LEMMA StageRuns ==
  ASSUME Stage
  PROVE  /\ outcome = "running" /\ mode' = mode /\ outcome' # "none"
         /\ stored => stored'
<1>. USE DEF Running, AtStage, Go, Halt, result
<1>1. CASE RegisterFile
  BY <1>1 DEF RegisterFile
<1>2. CASE ValidateIntake
  BY <1>2 DEF ValidateIntake
<1>3. CASE Normalize
  BY <1>3 DEF Normalize
<1>4. CASE RouteParser
  BY <1>4 DEF RouteParser
<1>5. CASE ParseDocument
  BY <1>5 DEF ParseDocument
<1>6. CASE RunOcr
  BY <1>6 DEF RunOcr
<1>7. CASE AssembleText
  BY <1>7 DEF AssembleText
<1>8. CASE GuardIngestEligibility
  BY <1>8 DEF GuardIngestEligibility
<1>9. CASE CleanText
  BY <1>9 DEF CleanText
<1>10. CASE SplitSections
  BY <1>10 DEF SplitSections
<1>11. CASE SplitChunks
  BY <1>11 DEF SplitChunks
<1>12. CASE EmbedBatch
  BY <1>12 DEF EmbedBatch
<1>13. CASE EmbedIfNeeded
  BY <1>13 DEF EmbedIfNeeded
<1>14. CASE PersistIfNeeded
  BY <1>14 DEF PersistIfNeeded
<1>15. CASE StageRaises
  BY <1>15 DEF StageRaises
<1>16. CASE Answer
  BY <1>16 DEF Answer
<1>17. QED
  BY <1>1, <1>2, <1>3, <1>4, <1>5, <1>6, <1>7, <1>8, <1>9,
     <1>10, <1>11, <1>12, <1>13, <1>14, <1>15, <1>16 DEF Stage

\* The pipeline's own invariant goes on in a step of the session.
LEMMA PipelineStep ==
  ASSUME PInv, [SessionNext]_sessionVars
  PROVE  PInv'
  BY SessionStep, ControlStep, FlagsStep, VectorsStep, LoggedStep, LeftStep, ToldStep, SoundStep
     DEF PInv

\* What marking a request does to it and to the others.
LEMMA TimedOut ==
  ASSUME requests \in Seq(Request), NEW i \in 1..Len(requests),
         requests' = [requests EXCEPT ![i].awaited = FALSE]
  PROVE  /\ requests' \in Seq(Request) /\ Len(requests') = Len(requests)
         /\ \A j \in 1..Len(requests) : /\ requests'[j].kind = requests[j].kind
                                        /\ requests'[j].served = requests[j].served
                                        /\ requests'[j].upload = requests[j].upload
<1>1. requests[i] \in Request
  OBVIOUS
<1>2. [requests[i] EXCEPT !.awaited = FALSE] \in Request
  BY <1>1 DEF Request
<1>3. QED
  BY <1>1, <1>2 DEF Request

LEMMA Taken ==
  ASSUME requests \in Seq(Request), NEW i \in 1..Len(requests),
         NEW u \in Upload \cup {None},
         \/ requests' = [requests EXCEPT ![i].served = TRUE]
         \/ requests' = [requests EXCEPT ![i].served = TRUE, ![i].upload = u]
  PROVE  /\ requests' \in Seq(Request) /\ Len(requests') = Len(requests)
         /\ requests'[i].served /\ requests'[i].kind = requests[i].kind
         /\ \A j \in 1..Len(requests) : j # i => requests'[j] = requests[j]
<1>1. requests[i] \in Request
  OBVIOUS
<1>2. /\ [requests[i] EXCEPT !.served = TRUE] \in Request
      /\ [requests[i] EXCEPT !.served = TRUE, !.upload = u] \in Request
  BY <1>1 DEF Request
<1>3. CASE requests' = [requests EXCEPT ![i].served = TRUE]
  BY <1>1, <1>2, <1>3 DEF Request
<1>4. CASE requests' = [requests EXCEPT ![i].served = TRUE, ![i].upload = u]
  <2>1. requests' = [requests EXCEPT ![i] = [requests[i] EXCEPT !.served = TRUE, !.upload = u]]
    BY <1>1, <1>4 DEF Request
  <2>2. [requests[i] EXCEPT !.served = TRUE, !.upload = u].served
    BY <1>1 DEF Request
  <2>3. [requests[i] EXCEPT !.served = TRUE, !.upload = u].kind = requests[i].kind
    BY <1>1 DEF Request
  <2>4. QED
    BY <1>2, <2>1, <2>2, <2>3
<1>5. QED
  BY <1>3, <1>4

\* The server serves at most one request, the one that the pipeline runs for.
LEMMA ServesOneStep ==
  ASSUME ServesOne, Asks, [SessionNext]_sessionVars
  PROVE  ServesOne'
<1>. USE DEF pipeline, vars
<1>1. ASSUME NEW kind \in {"preview", "ingest", "activate"}, NEW u \in Upload \cup {None},
             Send(kind, u)
      PROVE  ServesOne'
  <2>1. Sent(kind, u) \in Request /\ ~Sent(kind, u).served
    BY DEF Sent, Request
  <2>2. requests' = Append(requests, Sent(kind, u)) /\ mode' = mode /\ outcome' = outcome
    BY <1>1 DEF Send
  <2>3. /\ requests' \in Seq(Request) /\ Len(requests') = Len(requests) + 1
        /\ requests'[Len(requests) + 1] = Sent(kind, u)
        /\ \A i \in 1..Len(requests) : requests'[i] = requests[i]
    BY <2>1, <2>2, Appended DEF ServesOne
  <2>4. Served' = Served
    BY <2>1, <2>3 DEF Served
  <2>5. QED
    BY <2>2, <2>3, <2>4 DEF ServesOne, Served
<1>2. ASSUME Cancel
      PROVE  ServesOne'
  BY <1>2 DEF Cancel, ServesOne, Served
<1>3. ASSUME TimesOut
      PROVE  ServesOne'
  <2>1. PICK i \in 1..Len(requests) : requests' = [requests EXCEPT ![i].awaited = FALSE]
    BY <1>3 DEF TimesOut
  <2>2. mode' = mode /\ outcome' = outcome
    BY <1>3 DEF TimesOut
  <2>3. Served' = Served
    BY <2>1, TimedOut DEF Served, ServesOne
  <2>4. QED
    BY <2>1, <2>2, <2>3, TimedOut DEF ServesOne, Served
<1>4. ASSUME NEW i \in 1..Len(requests), requests' = RemoveAt(requests, i),
             ~requests[i].served, mode' = mode, outcome' = outcome
      PROVE  ServesOne'
  <2>1. requests' \in Seq(Request)
    BY <1>4, Remains DEF ServesOne
  <2>2. ASSUME NEW j \in Served
        PROVE  Served' # {}
    <3>1. j \in 1..Len(requests) /\ j # i /\ requests[j].served
      BY <1>4 DEF Served
    <3>2. PICK k \in 1..Len(requests') : requests'[k] = requests[j]
      BY <1>4, <3>1, Remains DEF ServesOne
    <3>3. QED
      BY <3>1, <3>2 DEF Served
  <2>3. /\ \A k, m \in Served' : k = m
        /\ \A k \in Served' : requests'[k].kind = mode
    BY <1>4, Remains DEF ServesOne, Served
  <2>4. QED
    BY <1>4, <2>1, <2>2, <2>3 DEF ServesOne
<1>5. ASSUME ~Busy, NEW i \in 1..Len(requests), AcceptPreview(i) \/ AcceptIngest(i)
      PROVE  ServesOne'
  <2>1. PICK u \in Upload \cup {None} :
          \/ requests' = [requests EXCEPT ![i].served = TRUE]
          \/ requests' = [requests EXCEPT ![i].served = TRUE, ![i].upload = u]
    BY <1>5 DEF AcceptPreview, AcceptIngest, Take
  <2>2. requests[i].kind = mode'
    BY <1>5 DEF AcceptPreview, AcceptIngest, Start
  <2>3. \A j \in 1..Len(requests) : ~requests[j].served
    BY <1>5 DEF Busy
  <2>4. Served' = {i}
    BY <2>1, <2>3, Taken DEF Served, ServesOne
  <2>5. QED
    BY <2>1, <2>2, <2>4, Taken DEF ServesOne
<1>6. ASSUME Run
      PROVE  ServesOne'
  <2>1. outcome = "running" /\ mode' = mode /\ requests' = requests
    BY <1>6, StageRuns DEF Run
  <2>2. QED
    BY <2>1 DEF ServesOne, Served
<1>7. ASSUME NEW i \in 1..Len(requests), requests[i].served, PreviewEnds(i) \/ IngestEnds(i)
      PROVE  ServesOne'
  <2>. DEFINE e == Sent("activate", None)
              r == RemoveAt(requests, i)
  <2>1. e \in Request /\ ~e.served
    BY DEF Sent, Request
  <2>2. outcome' = "none"
    BY <1>7 DEF PreviewEnds, IngestEnds, Rest
  <2>3. requests' = r \/ requests' = Append(r, e)
    BY <1>7 DEF PreviewEnds, IngestEnds, IngestAnswered, IngestRaised
  <2>4. r \in Seq(Request) /\ \A k \in 1..Len(r) : ~r[k].served
    BY <1>7, Remains DEF ServesOne, Served
  <2>. HIDE DEF e, r
  <2>5. requests' \in Seq(Request) /\ \A k \in 1..Len(requests') : ~requests'[k].served
    <3>1. CASE requests' = r
      BY <2>4, <3>1
    <3>2. CASE requests' = Append(r, e)
      BY <2>1, <2>4, <3>2, Appended
    <3>3. QED
      BY <2>3, <3>1, <3>2
  <2>6. Served' = {}
    BY <2>5 DEF Served
  <2>7. QED
    BY <2>2, <2>5, <2>6 DEF ServesOne
<1>8. CASE UNCHANGED sessionVars
  BY <1>8 DEF sessionVars, ServesOne, Served
<1>9. ASSUME SubmitForm \/ Confirm
      PROVE  ServesOne'
  BY <1>1, <1>9 DEF SubmitForm, Confirm, Asks
<1>10. ASSUME Lose
       PROVE  ServesOne'
  BY <1>4, <1>10 DEF Lose
<1>11. ASSUME ~Busy, NEW i \in 1..Len(requests), Refuse(i) \/ Activate(i) \/ ActivateFails(i)
       PROVE  ServesOne'
  BY <1>4, <1>11 DEF Refuse, Activate, ActivateFails, Busy
<1>12. QED
  BY <1>2, <1>3, <1>5, <1>6, <1>7, <1>8, <1>9, <1>10, <1>11
     DEF SessionNext, ServerStep, ServeActivate

LEMMA AsksStep ==
  ASSUME ServesOne, Asks, [SessionNext]_sessionVars
  PROVE  Asks'
<1>1. ASSUME NEW i \in 1..Len(requests), PreviewEnds(i)
      PROVE  Asks'
  <2>1. requests[i] \in Request
    BY DEF ServesOne
  <2>2. requests[i].upload \in Upload \cup {None}
    BY <2>1 DEF Request
  <2>3. QED
    BY <1>1, <2>2 DEF PreviewEnds, Asks
<1>2. ASSUME NEW i \in 1..Len(requests), IngestEnds(i)
      PROVE  Asks'
  BY <1>2 DEF IngestEnds, IngestAnswered, IngestRaised, page, Asks
<1>3. ASSUME NEW i \in 1..Len(requests),
             \/ AcceptPreview(i) \/ AcceptIngest(i) \/ Refuse(i) \/ Activate(i) \/ ActivateFails(i)
      PROVE  Asks'
  BY <1>3 DEF AcceptPreview, AcceptIngest, Refuse, Activate, ActivateFails, page, Asks
<1>4. ASSUME SubmitForm \/ Confirm \/ Cancel \/ TimesOut \/ Lose \/ Run
      PROVE  Asks'
  BY <1>4 DEF SubmitForm, Confirm, Cancel, TimesOut, Lose, Run, Send, page, Asks
<1>5. CASE UNCHANGED sessionVars
  BY <1>5 DEF sessionVars, page, Asks
<1>6. QED
  BY <1>1, <1>2, <1>3, <1>4, <1>5 DEF SessionNext, ServerStep, ServeActivate

\* An activation stays at the server when another request goes.
LEMMA StaysActivating ==
  ASSUME requests \in Seq(Request), NEW i \in 1..Len(requests),
         requests[i].kind # "activate", Activating, NEW e \in Request,
         \/ requests' = RemoveAt(requests, i)
         \/ requests' = Append(RemoveAt(requests, i), e)
  PROVE  Activating'
<1>. DEFINE r == RemoveAt(requests, i)
<1>1. PICK j \in 1..Len(requests) : requests[j].kind = "activate"
  BY DEF Activating
<1>2. r \in Seq(Request)
  BY Remains
<1>3. PICK k \in 1..Len(r) : r[k] = requests[j]
  BY <1>1, Remains
<1>. HIDE DEF r
<1>4. CASE requests' = r
  BY <1>1, <1>3, <1>4 DEF Activating
<1>5. CASE requests' = Append(r, e)
  <2>1. k \in 1..Len(requests') /\ requests'[k] = r[k]
    BY <1>2, <1>5, Appended
  <2>2. QED
    BY <1>1, <1>3, <2>1 DEF Activating
<1>6. QED
  BY <1>4, <1>5 DEF r

\* A draft that is not lost is about to be activated, or its run goes on.
LEMMA ExplainedStep ==
  ASSUME DInv, PInv', [SessionNext]_sessionVars
  PROVE  Explained'
<1>. USE DEF DInv, pipeline, vars, result, server
<1>1. ASSUME NEW kind \in {"preview", "ingest", "activate"}, NEW u \in Upload \cup {None},
             Send(kind, u)
      PROVE  Explained'
  <2>1. Sent(kind, u) \in Request
    BY DEF Sent, Request
  <2>2. \A i \in 1..Len(requests) : i \in 1..Len(requests') /\ requests'[i] = requests[i]
    BY <1>1, <2>1, Appended DEF Send, ServesOne
  <2>3. Activating => Activating'
    BY <2>2 DEF Activating
  <2>4. QED
    BY <1>1, <2>3 DEF Send, Explained
<1>2. ASSUME Cancel
      PROVE  Explained'
  BY <1>2 DEF Cancel, Explained, Activating
<1>3. ASSUME TimesOut
      PROVE  Explained'
  <2>1. PICK i \in 1..Len(requests) : requests' = [requests EXCEPT ![i].awaited = FALSE]
    BY <1>3 DEF TimesOut
  <2>2. Activating => Activating'
    BY <2>1, TimedOut DEF Activating, ServesOne
  <2>3. QED
    BY <1>3, <2>2 DEF TimesOut, Explained
<1>4. ASSUME Lose
      PROVE  Explained'
  <2>1. PICK i \in 1..Len(requests) : /\ requests' = RemoveAt(requests, i)
                                      /\ lost' = (lost \/ requests[i].kind = "activate")
    BY <1>4 DEF Lose
  <2>2. Sent("activate", None) \in Request
    BY DEF Sent, Request
  <2>3. Activating => lost' \/ Activating'
    BY <2>1, <2>2, StaysActivating DEF ServesOne
  <2>4. lost => lost'
    BY <2>1, Zenon
  <2>5. version' = version /\ stored' = stored /\ mode' = mode /\ outcome' = outcome
    BY <1>4 DEF Lose
  <2>6. QED
    BY <2>3, <2>4, <2>5, Zenon DEF Explained
<1>5. ASSUME NEW i \in 1..Len(requests), AcceptPreview(i) \/ AcceptIngest(i)
      PROVE  Explained'
  <2>1. PICK u \in Upload \cup {None} :
          \/ requests' = [requests EXCEPT ![i].served = TRUE]
          \/ requests' = [requests EXCEPT ![i].served = TRUE, ![i].upload = u]
    BY <1>5 DEF AcceptPreview, AcceptIngest, Take
  <2>2. Activating => Activating'
    BY <2>1, Taken DEF Activating, ServesOne
  <2>3. outcome = "none" /\ version' = version /\ lost' = lost
    BY <1>5 DEF AcceptPreview, AcceptIngest, Start
  <2>4. QED
    BY <2>2, <2>3 DEF Explained
<1>6. ASSUME NEW i \in 1..Len(requests), Refuse(i)
      PROVE  Explained'
  <2>1. requests[i].kind # "activate" /\ requests' = RemoveAt(requests, i)
    BY <1>6 DEF Refuse
  <2>2. Sent("activate", None) \in Request
    BY DEF Sent, Request
  <2>3. Activating => Activating'
    BY <2>1, <2>2, StaysActivating DEF ServesOne
  <2>4. QED
    BY <1>6, <2>3 DEF Refuse, Explained
<1>7. ASSUME NEW i \in 1..Len(requests), Activate(i) \/ ActivateFails(i)
      PROVE  Explained'
  BY <1>7 DEF Activate, ActivateFails, Explained
<1>8. ASSUME Run
      PROVE  Explained'
  <2>1. mode' = mode /\ outcome' # "none" /\ outcome # "none" /\ (stored => stored')
    BY <1>8, StageRuns DEF Run
  <2>2. requests' = requests /\ lost' = lost
    BY <1>8 DEF Run
  <2>3. CASE stored' /\ ~stored
    BY <2>1, <2>3 DEF PInv, StoredIsSound, Explained
  <2>4. CASE ~(stored' /\ ~stored)
    <3>1. version' = version
      BY <1>8, <2>4 DEF Run
    <3>2. QED
      BY <2>1, <2>2, <3>1 DEF Explained, Activating
  <2>5. QED
    BY <2>3, <2>4
<1>9. ASSUME NEW i \in 1..Len(requests), requests[i].served, PreviewEnds(i)
      PROVE  Explained'
  <2>1. /\ requests[i].kind = "preview" /\ requests' = RemoveAt(requests, i)
        /\ version' = version /\ lost' = lost
    BY <1>9 DEF PreviewEnds
  <2>2. mode = "preview"
    BY <1>9, <2>1 DEF ServesOne, Served
  <2>3. Sent("activate", None) \in Request
    BY DEF Sent, Request
  <2>4. Activating => Activating'
    BY <2>1, <2>3, StaysActivating DEF ServesOne
  <2>5. QED
    BY <2>1, <2>2, <2>4 DEF Explained
<1>10. ASSUME NEW i \in 1..Len(requests), IngestEnds(i)
       PROVE  Explained'
  <2>. DEFINE e == Sent("activate", None)
              r == RemoveAt(requests, i)
  <2>1. requests[i].kind = "ingest" /\ version' = version
    BY <1>10 DEF IngestEnds
  <2>2. e \in Request /\ e.kind = "activate"
    BY DEF Sent, Request
  <2>3. CASE IngestAnswered(i)
    <3>1. stored => answer = "persisted"
      BY <2>3, Consequences DEF IngestAnswered, AnswerTellsStored
    <3>2. CASE requests[i].awaited /\ answer = "persisted"
      <4>1. requests' = Append(r, e) /\ r \in Seq(Request)
        BY <2>3, <3>2, Remains DEF IngestAnswered, ServesOne
      <4>. HIDE DEF e, r
      <4>2. /\ Len(requests') = Len(r) + 1 /\ Len(r) \in Nat
            /\ requests'[Len(r) + 1] = e
        BY <2>2, <4>1, Appended
      <4>3. Activating'
        BY <2>2, <4>2 DEF Activating
      <4>4. QED
        BY <4>3 DEF Explained
    <3>3. CASE ~(requests[i].awaited /\ answer = "persisted")
      <4>1. requests' = r /\ lost' = (lost \/ (stored /\ ~requests[i].awaited))
        BY <2>3, <3>3 DEF IngestAnswered
      <4>2. Activating => Activating'
        BY <2>1, <2>2, <4>1, StaysActivating DEF ServesOne
      <4>3. QED
        BY <2>1, <3>1, <3>3, <4>1, <4>2 DEF Explained
    <3>4. QED
      BY <3>2, <3>3
  <2>4. CASE IngestRaised(i)
    <3>1. requests' = r /\ lost' = (lost \/ stored)
      BY <2>4 DEF IngestRaised
    <3>2. Activating => Activating'
      BY <2>1, <2>2, <3>1, StaysActivating DEF ServesOne
    <3>3. QED
      BY <2>1, <3>1, <3>2 DEF Explained
  <2>5. QED
    BY <1>10, <2>3, <2>4 DEF IngestEnds
<1>11. CASE UNCHANGED sessionVars
  BY <1>11 DEF sessionVars, Explained, Activating
<1>12. ASSUME SubmitForm \/ Confirm
       PROVE  Explained'
  BY <1>1, <1>12 DEF SubmitForm, Confirm, Asks
<1>13. QED
  BY <1>2, <1>3, <1>4, <1>5, <1>6, <1>7, <1>8, <1>9, <1>10, <1>11, <1>12
     DEF SessionNext, ServerStep, ServeActivate

\* A version, once active, stays so, and the page speaks only of one that is.
LEMMA ToldPublishedStep ==
  ASSUME ToldPublished, [SessionNext]_sessionVars
  PROVE  ToldPublished'
<1>. USE DEF server, page, ToldPublished
<1>1. ASSUME NEW i \in 1..Len(requests), PreviewEnds(i) \/ IngestEnds(i)
      PROVE  ToldPublished'
  BY <1>1 DEF PreviewEnds, IngestEnds, IngestAnswered, IngestRaised
<1>2. ASSUME NEW i \in 1..Len(requests),
             \/ AcceptPreview(i) \/ AcceptIngest(i) \/ Refuse(i) \/ Activate(i) \/ ActivateFails(i)
      PROVE  ToldPublished'
  BY <1>2 DEF AcceptPreview, AcceptIngest, Refuse, Activate, ActivateFails
<1>3. ASSUME SubmitForm \/ Confirm \/ Cancel \/ TimesOut \/ Lose \/ Run
      PROVE  ToldPublished'
  BY <1>3 DEF SubmitForm, Confirm, Cancel, TimesOut, Lose, Run, Send
<1>4. CASE UNCHANGED sessionVars
  BY <1>4 DEF sessionVars
<1>5. QED
  BY <1>1, <1>2, <1>3, <1>4 DEF SessionNext, ServerStep, ServeActivate

-----------------------------------------------------------------------------
\* The invariant of a session (UploadDocumentModal.tsx, policy_pipeline.py): the
\* server runs the pipeline for one request, and a draft is accounted for.
THEOREM SessionInvariant == SessionSpec => []DInv
<1>1. ASSUME SessionInit
      PROVE  ServesOne /\ Asks /\ Explained
  <2>1. requests \in Seq(Request) /\ Served = {} /\ outcome = "none"
    BY <1>1 DEF SessionInit, Init, Served
  <2>2. QED
    BY <1>1, <2>1 DEF SessionInit, ServesOne, Asks, Explained
<1>2. DInv /\ PInv' /\ [SessionNext]_sessionVars => (ServesOne /\ Asks /\ Explained)'
  BY ServesOneStep, AsksStep, ExplainedStep DEF DInv
<1>3. SessionSpec => []PInv
  BY SessionRunsPipeline, PipelineInvariant, PTL
<1>4. QED
  BY <1>1, <1>2, <1>3, PTL DEF SessionSpec, DInv

\* The dialog's promise (KnowledgeBasePage.tsx): it says that the document is
\* published when it is.
THEOREM ToldCorrect == SessionSpec => []ToldPublished
<1>1. SessionInit => ToldPublished
  BY DEF SessionInit, ToldPublished
<1>2. ToldPublished /\ [SessionNext]_sessionVars => ToldPublished'
  BY ToldPublishedStep
<1>3. QED
  BY <1>1, <1>2, PTL DEF SessionSpec

\* Whatever the user and the network do, a draft is left behind only by an ingest
\* that was answered too late or not well, or by an activation that failed.
THEOREM DraftCorrect == SessionSpec => []DraftExplained
<1>1. ASSUME DInv, version = "draft", ~lost, ~Activating
      PROVE  \E i \in 1..Len(requests) : requests[i].kind = "ingest" /\ requests[i].served
  <2>1. mode = "ingest" /\ outcome # "none"
    BY <1>1 DEF DInv, Explained
  <2>2. PICK i \in Served : TRUE
    BY <1>1, <2>1 DEF DInv, ServesOne
  <2>3. QED
    BY <1>1, <2>1, <2>2 DEF DInv, ServesOne, Served
<1>2. DInv => DraftExplained
  BY <1>1 DEF DraftExplained, Activating
<1>3. QED
  BY <1>2, SessionInvariant, PTL

-----------------------------------------------------------------------------
\* A preview that is served has its upload's name, which the dialog is told.
Named == \A i \in 1..Len(requests) :
           requests[i].served /\ requests[i].kind = "preview" => requests[i].upload \in Upload
Asked == preview \in {None} \cup [upload : Upload, allowed : BOOLEAN]
ServerTypes == /\ upload \in [Upload -> {"unused", "staged", "gone"}]
               /\ version \in {"none", "draft", "active"}
               /\ told \in BOOLEAN /\ lost \in BOOLEAN

LEMMA NamedStep ==
  ASSUME ServesOne, Asks, Named, [SessionNext]_sessionVars
  PROVE  Named'
<1>. USE DEF Named, ServesOne
<1>1. ASSUME NEW kind \in {"preview", "ingest", "activate"}, NEW u \in Upload \cup {None},
             Send(kind, u)
      PROVE  Named'
  <2>1. Sent(kind, u) \in Request /\ ~Sent(kind, u).served
    BY DEF Sent, Request
  <2>2. requests' = Append(requests, Sent(kind, u))
    BY <1>1 DEF Send
  <2>3. /\ Len(requests') = Len(requests) + 1
        /\ requests'[Len(requests) + 1] = Sent(kind, u)
        /\ \A i \in 1..Len(requests) : requests'[i] = requests[i]
    BY <2>1, <2>2, Appended
  <2>4. QED
    BY <2>1, <2>3
<1>2. ASSUME NEW i \in 1..Len(requests), requests' = RemoveAt(requests, i)
      PROVE  Named'
  BY <1>2, NoneComes
<1>3. ASSUME NEW i \in 1..Len(requests), AcceptPreview(i)
      PROVE  Named'
  <2>1. PICK u \in Upload :
          requests' = [requests EXCEPT ![i].served = TRUE, ![i].upload = u]
    BY <1>3 DEF AcceptPreview
  <2>2. requests'[i].upload = u
    BY <2>1 DEF Request
  <2>3. /\ Len(requests') = Len(requests)
        /\ \A j \in 1..Len(requests) : j # i => requests'[j] = requests[j]
    BY <2>1, Taken
  <2>4. QED
    BY <2>2, <2>3
<1>4. ASSUME NEW i \in 1..Len(requests), AcceptIngest(i)
      PROVE  Named'
  <2>1. requests' = [requests EXCEPT ![i].served = TRUE] /\ requests[i].kind = "ingest"
    BY <1>4 DEF AcceptIngest, Take
  <2>2. /\ Len(requests') = Len(requests) /\ requests'[i].kind = requests[i].kind
        /\ \A j \in 1..Len(requests) : j # i => requests'[j] = requests[j]
    BY <2>1, Taken
  <2>3. QED
    BY <2>1, <2>2
<1>5. ASSUME TimesOut
      PROVE  Named'
  BY <1>5, TimedOut DEF TimesOut
<1>6. ASSUME NEW i \in 1..Len(requests), PreviewEnds(i) \/ IngestEnds(i)
      PROVE  Named'
  <2>. DEFINE e == Sent("activate", None)
              r == RemoveAt(requests, i)
  <2>1. e \in Request /\ ~e.served
    BY DEF Sent, Request
  <2>2. requests' = r \/ requests' = Append(r, e)
    BY <1>6 DEF PreviewEnds, IngestEnds, IngestAnswered, IngestRaised
  <2>3. /\ r \in Seq(Request)
        /\ \A k \in 1..Len(r) : r[k].served /\ r[k].kind = "preview" => r[k].upload \in Upload
    <3>1. r \in Seq(Request)
      BY Remains
    <3>2. \A k \in 1..Len(r) : \E j \in 1..Len(requests) : r[k] = requests[j]
      BY NoneComes
    <3>. HIDE DEF r
    <3>3. QED
      BY <3>1, <3>2
  <2>. HIDE DEF e, r
  <2>4. CASE requests' = r
    BY <2>3, <2>4
  <2>5. CASE requests' = Append(r, e)
    BY <2>1, <2>3, <2>5, Appended
  <2>6. QED
    BY <2>2, <2>4, <2>5
<1>7. ASSUME SubmitForm \/ Confirm
      PROVE  Named'
  BY <1>1, <1>7 DEF SubmitForm, Confirm, Asks
<1>8. ASSUME NEW i \in 1..Len(requests), Refuse(i) \/ Activate(i) \/ ActivateFails(i)
      PROVE  Named'
  BY <1>2, <1>8 DEF Refuse, Activate, ActivateFails
<1>9. ASSUME Cancel \/ Run
      PROVE  Named'
  BY <1>9 DEF Cancel, Run
<1>10. CASE UNCHANGED sessionVars
  BY <1>10 DEF sessionVars
<1>11. CASE Lose
  BY <1>2, <1>11 DEF Lose
<1>12. QED
  BY <1>3, <1>4, <1>5, <1>6, <1>7, <1>8, <1>9, <1>10, <1>11
     DEF SessionNext, ServerStep, ServeActivate

LEMMA AskedStep ==
  ASSUME ServesOne, Named, Asked, [SessionNext]_sessionVars
  PROVE  Asked'
<1>. USE DEF Asked
<1>1. ASSUME NEW i \in 1..Len(requests), requests[i].served, PreviewEnds(i)
      PROVE  Asked'
  <2>1. requests[i].upload \in Upload
    BY <1>1 DEF Named, PreviewEnds
  <2>2. Allowed \in BOOLEAN
    BY Zenon DEF Allowed
  <2>. HIDE DEF Asked
  <2>3. [upload |-> requests[i].upload, allowed |-> Allowed] \in [upload : Upload, allowed : BOOLEAN]
    BY <2>1, <2>2, Zenon
  <2>4. \/ preview' = [upload |-> requests[i].upload, allowed |-> Allowed]
        \/ preview' = preview
    BY <1>1, Zenon DEF PreviewEnds
  <2>5. QED
    BY <2>3, <2>4, Zenon DEF Asked
<1>2. ASSUME NEW i \in 1..Len(requests), IngestEnds(i)
      PROVE  Asked'
  BY <1>2 DEF IngestEnds, IngestAnswered, IngestRaised, page
<1>3. ASSUME NEW i \in 1..Len(requests),
             \/ AcceptPreview(i) \/ AcceptIngest(i) \/ Refuse(i) \/ Activate(i) \/ ActivateFails(i)
      PROVE  Asked'
  BY <1>3 DEF AcceptPreview, AcceptIngest, Refuse, Activate, ActivateFails, page
<1>4. ASSUME SubmitForm \/ Confirm \/ Cancel \/ TimesOut \/ Lose \/ Run
      PROVE  Asked'
  BY <1>4 DEF SubmitForm, Confirm, Cancel, TimesOut, Lose, Run, Send, page
<1>5. CASE UNCHANGED sessionVars
  BY <1>5 DEF sessionVars, page
<1>6. QED
  BY <1>1, <1>2, <1>3, <1>4, <1>5 DEF SessionNext, ServerStep, ServeActivate

LEMMA ServerTypesStep ==
  ASSUME ServerTypes, [SessionNext]_sessionVars
  PROVE  ServerTypes'
<1>. USE DEF ServerTypes, server, page
<1>1. ASSUME NEW i \in 1..Len(requests), AcceptPreview(i) \/ AcceptIngest(i) \/ Refuse(i)
      PROVE  ServerTypes'
  BY <1>1 DEF AcceptPreview, AcceptIngest, Refuse
<1>2. ASSUME NEW i \in 1..Len(requests), Activate(i) \/ ActivateFails(i)
      PROVE  ServerTypes'
  BY <1>2 DEF Activate, ActivateFails
<1>3. ASSUME NEW i \in 1..Len(requests), PreviewEnds(i)
      PROVE  ServerTypes'
  BY <1>3 DEF PreviewEnds
<1>4. ASSUME NEW i \in 1..Len(requests), IngestEnds(i)
      PROVE  ServerTypes'
  <2>1. upload' \in [Upload -> {"unused", "staged", "gone"}] /\ UNCHANGED <<version, told>>
    BY <1>4 DEF IngestEnds, IngestAnswered, IngestRaised
  <2>2. lost' \in BOOLEAN
    BY <1>4, Zenon DEF IngestEnds, IngestAnswered, IngestRaised
  <2>3. QED
    BY <2>1, <2>2
<1>5. ASSUME SubmitForm \/ Confirm \/ Cancel \/ TimesOut \/ Run
      PROVE  ServerTypes'
  BY <1>5 DEF SubmitForm, Confirm, Cancel, TimesOut, Run, Send
<1>6. ASSUME Lose
      PROVE  ServerTypes'
  <2>1. UNCHANGED <<upload, version, told>>
    BY <1>6 DEF Lose
  <2>2. lost' \in BOOLEAN
    BY <1>6, Zenon DEF Lose
  <2>3. QED
    BY <2>1, <2>2
<1>7. CASE UNCHANGED sessionVars
  BY <1>7 DEF sessionVars
<1>8. QED
  BY <1>1, <1>2, <1>3, <1>4, <1>5, <1>6, <1>7 DEF SessionNext, ServerStep, ServeActivate

\* The variables of page and server keep their types; what the dialog asks to confirm
\* always names an upload (UploadDocumentModal.tsx, policy_pipeline.py).
THEOREM SessionTypes == SessionSpec => []SessionTypeOK
<1>1. SessionInit => Named /\ Asked /\ ServerTypes
  <2>1. ASSUME SessionInit PROVE requests = <<>> /\ Named
    BY <2>1 DEF SessionInit, Named
  <2>2. ASSUME SessionInit PROVE Asked /\ ServerTypes
    BY <2>2 DEF SessionInit, Asked, ServerTypes
  <2>3. QED
    BY <2>1, <2>2
<1>2. DInv /\ Named /\ Asked /\ ServerTypes /\ [SessionNext]_sessionVars
        => (Named /\ Asked /\ ServerTypes)'
  BY NamedStep, AskedStep, ServerTypesStep DEF DInv
<1>3. DInv /\ Asked /\ ServerTypes => SessionTypeOK
  BY Consequences DEF DInv, ServesOne, Asked, ServerTypes, SessionTypeOK
<1>4. QED
  BY <1>1, <1>2, <1>3, SessionInvariant, PTL DEF SessionSpec
=============================================================================
