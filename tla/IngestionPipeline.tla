--------------------------- MODULE IngestionPipeline ---------------------------
(***************************************************************************)
(* The runs of the ingestion pipeline in a server process, one at a time:    *)
(* thirteen stages in a fixed order, each of which reads results of earlier  *)
(* stages from a shared context, records itself in the response, and may     *)
(* stop the run or raise.  A preview goes through the same stages and must   *)
(* leave no trace; an ingest ends with the one transaction that              *)
(* KnowledgeBase models statement by statement.                              *)
(***************************************************************************)
EXTENDS Naturals, Sequences, SequencesExt

CONSTANTS BatchSize,  \* settings.embedding_batch_size
          MaxChunks   \* bound on the chunks of a document

ASSUME BatchAssumption == BatchSize \in Nat \ {0} /\ MaxChunks \in Nat \ {0}

VARIABLES
  mode,     \* of the run: "preview" or "ingest"
  ocr,      \* whether OCR is enabled and has credentials
  at,       \* the stage that runs next, an index into Stages
  have,     \* the results that are in the context
  image,    \* the parsed document has image blocks to recognise
  blocks,   \* what the text of the document's blocks amounts to
  text,     \* what the assembled text amounts to
  chunks,   \* how many chunks it gives
  vectors,  \* the chunk whose text each vector was made for, in chunk order
  stop,     \* stop_requested
  log,      \* response.stages
  answer,   \* response.persistence
  stored,   \* the transaction has committed
  outcome   \* how the run ended; "none" before it begins

document == <<image, blocks, text, chunks, vectors>>
result == <<answer, stored>>
vars == <<mode, ocr, at, have, document, stop, log, result, outcome>>

\* Faulty variants: text that was never assembled passes the guard; vectors are
\* made before there are chunks.
StagesGuardEarly ==
  <<"register_file", "validate_intake", "normalize", "route_parser",
    "parse_document", "run_ocr", "guard_ingest_eligibility", "assemble_text",
    "clean_text", "split_sections", "split_chunks", "embed_if_needed",
    "persist_if_needed">>
StagesEmbedEarly ==
  <<"register_file", "validate_intake", "normalize", "route_parser",
    "parse_document", "run_ocr", "assemble_text", "guard_ingest_eligibility",
    "clean_text", "split_sections", "embed_if_needed", "split_chunks",
    "persist_if_needed">>

Stages == <<"register_file", "validate_intake", "normalize", "route_parser",
            "parse_document", "run_ocr", "assemble_text",
            "guard_ingest_eligibility", "clean_text", "split_sections",
            "split_chunks", "embed_if_needed", "persist_if_needed">>

\* The names under which the response lists the stages; the last stage has two.
StageNames == <<"file_registration", "intake_validation", "format_normalization",
                "parse_routing", "document_parsing", "ocr_processing",
                "text_assembly", "ingest_guard", "text_cleaning",
                "section_splitting", "chunk_splitting", "embedding_generation",
                "chunk_persistence", "document_persistence">>

\* The results that storing raises a RuntimeError without; it also needs a vector for
\* each chunk, and only a text that leaves nothing has no chunks.
NeedsToStore == {"file", "document", "text", "cleaned", "sections", "chunks"}
                  \cup (IF text = "body" THEN {"vectors"} ELSE {})

\* The results a stage raises one without.
Needs(stage) ==
  CASE stage \in {"validate_intake", "normalize"} -> {"file"}
    [] stage = "route_parser" -> {"normalization"}
    [] stage = "parse_document" -> {"normalization", "routing"}
    [] stage \in {"run_ocr", "assemble_text"} -> {"document"}
    [] stage = "clean_text" -> {"text"}
    [] stage = "split_sections" -> {"cleaned"}
    [] stage = "split_chunks" -> {"sections"}
    [] stage = "embed_if_needed" -> {"chunks"}
    [] stage = "persist_if_needed" ->
         IF mode = "preview" THEN {"chunks"} ELSE NeedsToStore
    [] OTHER -> {}

Result == {"file", "validation", "normalization", "routing", "document",
           "unreadable", "ocr", "text", "cleaned", "sections", "chunks", "vectors"}

\* No text at all; lines that the cleaner removes, every one of them (page
\* numbers, short lines repeated); text that it keeps some of.
Text == {"none", "noise", "body"}

Entry == [stage : ToSet(StageNames), status : {"success", "failed", "skipped"}]

\* The context and the response of a run that begins.
Fresh == /\ at' = 1
         /\ have' = {}
         /\ image' = FALSE /\ blocks' = "none" /\ text' = "none"
         /\ chunks' = 0 /\ vectors' = <<>>
         /\ stop' = FALSE
         /\ log' = <<>>
         /\ answer' = "none"
         /\ stored' = FALSE

Init == /\ mode = "preview"
        /\ ocr \in BOOLEAN
        /\ at = 1
        /\ have = {}
        /\ image = FALSE /\ blocks = "none" /\ text = "none"
        /\ chunks = 0 /\ vectors = <<>>
        /\ stop = FALSE
        /\ log = <<>>
        /\ answer = "none"
        /\ stored = FALSE
        /\ outcome = "none"

\* A request starts the pipeline.
Start(m) == /\ outcome = "none"
            /\ mode' = m
            /\ outcome' = "running"
            /\ Fresh
            /\ UNCHANGED ocr

\* The run's response has been sent; its context and its response are gone.
Rest == /\ outcome \in {"answered", "raised"}
        /\ mode' = "preview" /\ outcome' = "none"
        /\ Fresh
        /\ UNCHANGED ocr

-----------------------------------------------------------------------------
\* The loop has come to a stage.
AtStage == outcome = "running" /\ ~stop /\ at <= Len(Stages)
Running(stage) == AtStage /\ Stages[at] = stage /\ Needs(stage) \subseteq have

Record(name, status) == log' = Append(log, [stage |-> name, status |-> status])

\* The stage sets its results in the context and records how it went.
Go(name, status, results) == /\ have' = have \cup results
                             /\ at' = at + 1
                             /\ Record(name, status)
                             /\ UNCHANGED <<stop, outcome>>

\* builder.failed(..., stop=True)
Halt(name, results) == /\ have' = have \cup results
                       /\ stop' = TRUE
                       /\ Record(name, "failed")
                       /\ UNCHANGED <<at, outcome>>

-----------------------------------------------------------------------------
RegisterFile == /\ Running("register_file")
                /\ Go("file_registration", "success", {"file"})
                /\ UNCHANGED <<mode, ocr, document, result>>

ValidateIntake == /\ Running("validate_intake")
                  /\ \/ Go("intake_validation", "success", {"validation"})
                     \/ Halt("intake_validation", {"validation"})
                  /\ UNCHANGED <<mode, ocr, document, result>>

\* Only a .doc is converted; other files are passed on as they are.
Normalize == /\ Running("normalize")
             /\ \/ \E status \in {"success", "skipped"} :
                     Go("format_normalization", status, {"normalization"})
                \/ Halt("format_normalization", {"normalization"})
             /\ UNCHANGED <<mode, ocr, document, result>>

RouteParser == /\ Running("route_parser")
               /\ Go("parse_routing", "success", {"routing"})
               /\ UNCHANGED <<mode, ocr, document, result>>

\* The document is kept in the context even when its parser reports failure.
ParseDocument == /\ Running("parse_document")
                 /\ image' \in BOOLEAN
                 /\ blocks' \in Text
                 /\ \/ Go("document_parsing", "success", {"document"})
                    \/ Halt("document_parsing", {"document", "unreadable"})
                 /\ UNCHANGED <<mode, ocr, text, chunks, vectors, result>>

\* OCR never stops the run.  What it reads completes the document's text, and may
\* make its lines repeat; blocks it cannot read stay as they are.
RunOcr == /\ Running("run_ocr")
          /\ \E read, unread \in BOOLEAN :
               /\ read => image /\ ocr
               /\ unread => image
               /\ image /\ ~ocr => unread
               /\ blocks' \in IF read THEN {"noise", "body"} ELSE {blocks}
               /\ Go("ocr_processing", IF read THEN "success"
                                       ELSE IF unread THEN "failed" ELSE "skipped",
                     {"ocr"})
          /\ UNCHANGED <<mode, ocr, image, text, chunks, vectors, result>>

\* The assembled text has its document's parser status.
AssembleText == /\ Running("assemble_text")
                /\ text' = blocks
                /\ IF "unreadable" \in have THEN Halt("text_assembly", {"text"})
                   ELSE Go("text_assembly", "success", {"text"})
                /\ UNCHANGED <<mode, ocr, image, blocks, chunks, vectors, result>>

\* A preview is not stopped; without assembled text nothing is decided, nor
\* recorded.
GuardIngestEligibility ==
  /\ Running("guard_ingest_eligibility")
  /\ CASE mode = "preview" -> Go("ingest_guard", "skipped", {}) /\ UNCHANGED answer
       [] mode = "ingest" /\ "text" \notin have ->
            at' = at + 1 /\ UNCHANGED <<have, stop, log, answer, outcome>>
       [] mode = "ingest" /\ "text" \in have /\ text # "none" ->
            Go("ingest_guard", "success", {}) /\ UNCHANGED answer
       [] OTHER -> Halt("ingest_guard", {}) /\ answer' = "not_persisted"
  /\ UNCHANGED <<mode, ocr, document, stored>>

CleanText == /\ Running("clean_text")
             /\ Go("text_cleaning", "success", {"cleaned"})
             /\ UNCHANGED <<mode, ocr, document, result>>

SplitSections == /\ Running("split_sections")
                 /\ Go("section_splitting", "success", {"sections"})
                 /\ UNCHANGED <<mode, ocr, document, result>>

\* The cleaner leaves nothing of noise to cut.
SplitChunks == /\ Running("split_chunks")
               /\ chunks' \in IF text = "body" THEN 1..MaxChunks ELSE {0}
               /\ Go("chunk_splitting", "success", {"chunks"})
               /\ UNCHANGED <<mode, ocr, image, blocks, text, vectors, result>>

\* The chunks of the next request to the embedding service.
Batch == [i \in 1..Min({BatchSize, chunks - Len(vectors)}) |-> Len(vectors) + i]

\* The service answers with vectors in the order of the texts.  Too many or too few
\* of them, or of another dimension, raise.
EmbedBatch == /\ Running("embed_if_needed")
              /\ mode = "ingest"
              /\ Len(vectors) < chunks
              /\ vectors' = vectors \o Batch
              /\ UNCHANGED <<mode, ocr, at, have, image, blocks, text, chunks, stop, log,
                             result, outcome>>

EmbedIfNeeded == /\ Running("embed_if_needed")
                 /\ IF mode = "preview" THEN Go("embedding_generation", "skipped", {})
                    ELSE /\ Len(vectors) >= chunks
                         /\ Go("embedding_generation", "success", {"vectors"})
                 /\ UNCHANGED <<mode, ocr, document, result>>

\* Faulty variant: a stage that is not over yet is listed as pending.
RecordPersistencePending(status) ==
  log' = log \o <<[stage |-> "chunk_persistence", status |-> status],
                  [stage |-> "document_persistence", status |-> "pending"]>>

\* The stage is recorded for the chunks and for the document.
RecordPersistence(status) ==
  log' = log \o <<[stage |-> "chunk_persistence", status |-> status],
                  [stage |-> "document_persistence", status |-> "success"]>>

\* Faulty variant: the result is stored but not put into the response.
PersistUnreported ==
  /\ Running("persist_if_needed")
  /\ stored' = (mode = "ingest")
  /\ RecordPersistence("success")
  /\ at' = at + 1
  /\ UNCHANGED <<mode, ocr, have, document, stop, answer, outcome>>

PersistIfNeeded ==
  /\ Running("persist_if_needed")
  /\ IF mode = "preview"
     THEN answer' = "not_persisted" /\ RecordPersistence("skipped") /\ UNCHANGED stored
     ELSE answer' = "persisted" /\ RecordPersistence("success") /\ stored' = TRUE
  /\ at' = at + 1
  /\ UNCHANGED <<mode, ocr, have, document, stop, outcome>>

\* An exception leaves the stage, and there is no response.  It may come after
\* the commit, when the stored rows are read back.
StageRaises ==
  /\ AtStage
  /\ outcome' = "raised"
  /\ \/ UNCHANGED stored
     \/ Running("persist_if_needed") /\ mode = "ingest" /\ stored' = TRUE
  /\ UNCHANGED <<mode, ocr, at, have, document, stop, log, answer>>

Answer == /\ outcome = "running"
          /\ stop \/ at > Len(Stages)
          /\ outcome' = "answered"
          /\ UNCHANGED <<mode, ocr, at, have, document, stop, log, result>>

Stage == \/ RegisterFile \/ ValidateIntake \/ Normalize \/ RouteParser
         \/ ParseDocument \/ RunOcr \/ AssembleText \/ GuardIngestEligibility
         \/ CleanText \/ SplitSections \/ SplitChunks \/ EmbedBatch \/ EmbedIfNeeded
         \/ PersistIfNeeded \/ StageRaises \/ Answer

Next == Stage \/ (\E m \in {"preview", "ingest"} : Start(m)) \/ Rest

Spec == Init /\ [][Next]_vars

-----------------------------------------------------------------------------
\* The context and the response hold what they should; nothing is left pending.
TypeOK == /\ mode \in {"preview", "ingest"}
          /\ ocr \in BOOLEAN
          /\ at \in 1..(Len(Stages) + 1)
          /\ have \subseteq Result
          /\ image \in BOOLEAN
          /\ blocks \in Text
          /\ text \in Text
          /\ chunks \in 0..MaxChunks
          /\ vectors \in Seq(1..MaxChunks)
          /\ stop \in BOOLEAN
          /\ log \in Seq(Entry)
          /\ answer \in {"none", "not_persisted", "persisted"}
          /\ stored \in BOOLEAN
          /\ outcome \in {"none", "running", "answered", "raised"}

\* No stage meets a context without the results it needs: the stages that come
\* before it have left them there, on every way through the pipeline.
InputsReady == AtStage => Needs(Stages[at]) \subseteq have

\* Only an ingest stores, and what it stores went all the way: no stage failed
\* but OCR, the text is not empty and is that of the blocks stored with it, OCR
\* included, and each of its chunks has the vector of its own text.
StoredIsSound ==
  stored => /\ mode = "ingest"
            /\ text # "none" /\ text = blocks
            /\ {"ocr", "text", "vectors"} \subseteq have
            /\ vectors = [i \in 1..chunks |-> i]
            /\ \A i \in 1..Len(log) : log[i].status = "failed" =>
                                        log[i].stage = "ocr_processing"

\* Whoever gets a response can tell from it what happened: it says persisted iff
\* the version is stored, and an ingest that did not store names the stage that
\* stopped it last.
AnswerTellsStored ==
  outcome = "answered" =>
    /\ answer = "persisted" <=> stored
    /\ mode = "ingest" /\ ~stored => stop /\ Last(log).status = "failed"
=============================================================================
