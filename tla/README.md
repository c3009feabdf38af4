# Verification of the policy knowledge base

The repository is a knowledge base for policy documents: files are uploaded,
parsed, cut into chunks, embedded and stored as numbered *versions* of policy
*documents*; versions are published; questions are answered from the stored
chunks; and a checklist of submitted materials is reviewed against the stored
rules. It is a FastAPI server (`app/`) over PostgreSQL with pgvector
(`sql/001_kb_policy_schema.sql`), with a web frontend. Paths below are relative to
`src/`.

This directory holds TLA+ modules that model its stateful and algorithmic core,
TLC configurations that check them on small instances, and theorems checked by
the TLA+ proof system. `PROJECT.json` says for each definition which lines it
models, for each property which faulty variant of the code breaks it, and lists
the hazards the properties are for.

## 1. Inventory

| Component | State | Operations | What makes it correct |
|---|---|---|---|
| **Version tables** `app/infrastructure/persistence/repositories/policy_persistence_gateway.py`, `sql/001_kb_policy_schema.sql` | `kb_policy_document` (current and latest version), `kb_policy_version` (number, label, file hash, predecessor, status), sections, blocks, chunks | ingest (find or create the document, number and label the version, insert everything, move `latest_version_id`), retry source, read views, searches | numbers without gaps, `latest` is the newest, the chain of predecessors goes back, one document per policy; under concurrent requests, rejected inserts, deadlocks |
| **Publication** `.../knowledge_publication_repository.py` | `current_version_id`, `version_status` | `activate_version` | the current version is the one active version |
| **Retry** `app/modules/ingestion/application/retry_ingestion.py` | none | read the source of the latest version, ingest it again | the source is still there; a retry never damages the chain |
| **Upload staging** `app/infrastructure/filesystem/upload_service.py`, `app/interfaces/http/routes/policy_pipeline.py` | one directory per upload id, its age | stage, resolve, discard, clean up | no half-written file is read, nothing is lost before it was ingested, nothing stays for ever; processes die between steps |
| **Ingestion pipeline** `app/modules/ingestion/pipeline/` | the context of one run, the response under construction | thirteen stages, `preview` and `ingest` | each stage finds its inputs, previews store nothing, the response tells what was stored |
| **Chunking** `app/modules/ingestion/domain/policies.py:216` | the loop's offsets | cut a section into overlapping windows | the loop ends, windows advance, overlaps and gaps are bounded, text is not lost |
| **Text preparation** `steps/policy_text_assembler.py`, `policy_text_cleaner.py`, `policy_section_splitter.py` | none | blocks to text, text to cleaned lines, lines to a tree of sections | no paragraph lost, the tree matches heading levels |
| **OCR adapter** `app/infrastructure/ocr/tencent_ocr.py` | request slots of the process, counts of a run | choose the blocks to recognise, call the service, put texts back | failed, recognised and blank blocks add up; requests keep their distance |
| **Parsers** `steps/policy_parser.py` | none | parse PDF, DOCX and images into blocks | every text and picture in its place |
| **Registration and normaliser** `app/infrastructure/filesystem/policy_file_service.py`, `steps/policy_normalizer.py` | source files, one converted file per hash | hash, convert with Word or reuse, read again to parse and to recognise | the text is that of the hashed content; a half-converted file is not taken for a whole one; a run does not hang |
| **Retrieval** `app/modules/knowledge/retrieval/` | none | recall by keywords and vectors, fuse, rerank, evidence gate, filter | hits are unique, ordered, within `top_k`, above the threshold, and of one version of each document |
| **Checklist review** `app/modules/online/` | none | acquire materials, retrieve rules, build a rule pack, evaluate, decide | `pass` only on sufficient evidence and a complete submission |
| **Questions and answers** `app/modules/online/application/ask_knowledge.py`, `rag_facade.py` | none | retrieve, prompt, answer | answers only with evidence |
| **Management views, quality audit** `management_service.py`, `.../knowledge_quality_audit_repository.py` | none | overview, listing, details; an audit of all tables; each in several statements | what is shown of a version is of that version; no false alarms about versions that are listed |
| **Import dialog** `frontend/src/features/knowledge-base/` | the preview shown, the request awaited | preview, ingest, activate, each with a time limit; cancel | it says *published* only of what is published; a stored version does not stay unpublished unnoticed |
| **Language models, agent adapter, composition, scripts, other pages** | none that the core depends on | external calls, wiring, command lines, UI | - |

How they interact. An HTTP request gets a container and an ORM session of its
own (`app/composition/root.py`); the handlers are `async` but await nothing
between the statements of a request, so **a server process runs one request at a
time** and concurrency is between processes that share the database and the
staging directory (and the OCR account). `preview-upload` stages a file and
runs the pipeline without storing; `ingest-upload` resolves the staged file, runs
the pipeline, whose last stage is the one database transaction, and discards the
file; `retry` reads the source path of the latest version and runs the pipeline on
it; publication moves `current_version_id`; retrieval reads the chunks of latest
versions, and review and question answering call retrieval. The import dialog
strings three of these together: `preview-upload`, `ingest-upload`, and, when that
has said *persisted*, `publication/activate`; it gives each 15 seconds, and the
server does not notice when it stops waiting. The pipeline reads its source file
when it hashes it and again, stages later, when it converts, parses and recognises
it.

What is hard: transactions that compute a number or choose a predecessor from
unlocked reads (READ COMMITTED, unique constraints as the only guard); an ORM
that writes only changed attributes; cleanup that races with staging and
ingesting; a process that dies with a staged file half-written; a response that
may claim something else than what was committed; loops over offsets with
early breaks; a client that gives a request up while the server completes it; files
that change between two reads; a conversion that is killed, or survives its killing,
and leaves a file that later runs take as it is.

## 2. Modules

| Module | Models | Notes |
|---|---|---|
| `VersionCatalog` | what the version tables promise: per document an append-only history, the newest and the published version, each step atomic | abstract specification |
| `KnowledgeBase` | the version tables, ingest, retry and publication, statement by statement | implements `VersionCatalog` |
| `KnowledgeBaseOverlap` | `KnowledgeBase` with a history of which requests overlapped | |
| `KnowledgeBaseProofs` | the inductive invariants, safety, refinement, what overlaps can break | TLAPS |
| `UploadStaging` | the staging directory and the two upload routes | crashes, time |
| `UploadProofs` | its inductive invariant and safety | TLAPS |
| `IngestionPipeline` | the thirteen stages of a run and its response, run after run | |
| `ImportSession` | the import dialog, the network and the server's routes around the pipeline | extends `IngestionPipeline` and drives its steps |
| `IngestionProofs` | the pipeline's and the session's invariants, and that a session runs the pipeline | TLAPS |
| `SourceFiles` | what runs read from disk, and Word's conversions | edits, crashes, timeouts |
| `SourceFilesProofs` | its inductive invariant and safety | TLAPS |
| `Chunking` | the cutting loop | |
| `ChunkingProofs` | its inductive invariant and properties | TLAPS |
| `SectionSplitting` | the cleaner's and the splitter's loops over lines | used by `DocumentText` |
| `DocumentText` | parsing, OCR and assembly of one file, then cleaning and splitting | |
| `TextProofs` | the invariant of a file on its way from items to sections, and safety | TLAPS |
| `Retrieval` | one search over chunks that other processes add to and publish | used by the next two |
| `KnowledgeViews` | overview, listing, details and quality audit, statement by statement | used by `OnlineRequests` |
| `OnlineRequests` | a question answered from, or a submission reviewed against, what was found; composes all requests that read | |
| `RequestProofs` | what views, audits, searches, answers and reviews tell, whatever is committed between their statements | TLAPS |
| `DataLemmas` | induction over the naturals, lists of finite sets in a total order, sequences put together; what other proofs cite | TLAPS |
| `MCKnowledgeBase`, `MCUploadStaging`, `MCOnlineRequests` | model values and symmetry for TLC | |

### KnowledgeBase

`document` and `version` are the committed rows. A row that is not there has
`policy` (or `doc`) `None`. `dept` says whether `responsible_department` is filled.
Sections, blocks and chunks have no columns of their own in the model: they are
inserted and rolled back with their version and never updated, so a version
stands for them.

`pc[w]` is the next statement of the request that process `w` runs, `sess[w]` its
ORM session: the document object *as it was loaded*, the flags of what it will
write, and the values computed for the new version. That objects go stale is
the point: `CommitIngest` merges only the changed columns into the row as it is
at commit time, `DraftRow` takes the predecessor from the object as it was loaded,
`NewStatus` compares with the statuses as loaded.

| Action | Code |
|---|---|
| `IngestTarget`, `IngestExisting`, `IngestNew` | `_get_or_create_document` 847-884 with and without target, found and not found |
| `RetryIngest`, `LoadTarget` | `get_retry_source` 377-392, then an ingest with that target, which loads the document again |
| `ReadMaxSeq`, `ReadLabels` | `_create_version` 898-903, `_ensure_unique_version_label` 939-958 |
| `FillDepartment` | the flush of the changed document: takes the row lock |
| `InsertVersion`, `InsertRejected` | the INSERTs; it waits for uncommitted conflicting rows and fails on committed ones |
| `CommitIngest` | `latest_version_id`, flush, commit |
| `LoadVersion`, `LoadDocument`, `LoadPrevious`, `CommitPublish` | `activate_version` 21-57 |
| `DeadlockVictim`, `Fail` | PostgreSQL breaks a cycle; an exception or a dead process rolls back |

Abstractions: policies are `(name, category)` pairs; a stored label is a client's
label and the suffixes `-2`, `-3` it has got (client labels are taken not to end
in another one's suffix); `file_hash` is the file; the key of a new version is
drawn when the request starts, which nobody can observe before the commit. The
department's flush is one statement before the version's INSERT, because the unit
of work emits UPDATEs of the document first. PostgreSQL's locks and unique
indexes are external and modelled from how the code relies on them.

### KnowledgeBaseOverlap

The same steps, with a variable `met` that notes on which documents two publications
or two ingests, and on which policies two first ingests, were under way at the same
time. It restricts no step. Some promises of the tables fail under concurrency
because nothing locks what a request has read; the module says exactly which overlap
each failure needs, and that everything else, failures and retries included, does no
harm.

### UploadStaging

`dir[u]` is the directory of upload `u`: absent, empty, with the hidden partial
file, with the file. `age` counts ticks since its last modification, `todo` is what
the running cleanup found expired, `given` the ids that a client holds. Each of the
two requests is a sequence of steps (`sweep`, `mkdir`, `open`, `rename` /
`resolve`, then `register`, `parse`, `persist`, `answer`), and a process may die
between any two. Abstractions: `rmtree` is one step and removes everything; too
large, empty and `OSError` are one failure; a malformed id is refused before
anything happens, so ids are the set `Upload`; an id is drawn anew only when
nothing remembers it (it is a UUID; the model reuses ids to stay finite). `Raise`
stands for every exception: `preview-upload` discards for those it catches and
keeps for the others.

### IngestionPipeline

One run after the other, each from `Start` over `RegisterFile` to `Answer`; `Rest`
forgets context and response. `have` is the set of results in the
context, `Needs` what a stage raises a `RuntimeError` without, `log` the stages in
the response. The text is `none`, `noise` (everything is removed by the cleaner)
or `body`. What a step does inside is its outcome: refused, converted or skipped,
parsed or failed. That a parser reports failure with whatever blocks it likes is
its port's contract; the parsers in the repository fail with no blocks. Chunks are
embedded in batches of `embedding_batch_size`, one request each (`EmbedBatch`); a
vector is the number of the chunk whose text it was made for, and a batch that comes
back too short, too long or with a wrong dimension is a `StageRaises`.

### ImportSession

One browser page, one file, one server process. `preview` is what the dialog asks to
confirm, `requests` what is at the server in order of sending, each `awaited` by the
page or not, and `served` while its handler runs. The page's actions are the dialog's
handlers (`SubmitForm`, `Confirm`, `Cancel`); `TimesOut` is axios giving a request up;
`Lose` a request that does not arrive. The server takes one request at a time, because
the handlers do not await: `AcceptPreview`, `AcceptIngest` start a run of
`IngestionPipeline`, `Run` is a step of it, `PreviewEnds` and `IngestEnds` what the
routes make of its end. `Run` adds the file's version to the step that commits, and
lets storing raise if the file has one (`UNIQUE(policy_id, file_hash)`). `lost` notes
that the page will not publish a draft. Abstractions: an order of serving is not
fixed, since requests come on connections of their own; what becomes of an upload in
detail (expiry, crashes) is in `UploadStaging`; the publication is one step, whose
statements are in `KnowledgeBase`; an error's message is left out.

### SourceFiles

Each process runs one request at a time: `Register` hashes the file, `Normalize` finds
or does not find the converted file of that hash, `OpenSource`, `BeginSave`, `EndSave`
are Word's script, `Parse` and `Ocr` read the file again, `Persist` stores. A content
is what sha256 tells apart; a text is the content it was read from; `Half` is a
converted file that is not complete. `Edit` is anybody writing a source file at any
time. `ConvertFails` is an error of Word, `TimesOut` the 180 seconds, `Crash` the
process's death; after the last two Word may live on as an entry of `late`, because it
is a COM server and not a child of the killed script. `cut` and `edited` are history:
of which contents a conversion did not end well, and which were changed under a run.
Abstractions: all files have one name and policy (the converted file's name contains
it); only the first twelve digits of the hash name the directory, taken to tell
contents apart as well as all of them; two conversions that write at once leave `Half`.

### Chunking

`start`, `end` and `slices` are the variables of `split_section_text`; one `Window`
step is one turn of the loop. Characters are what the code tells apart: a line
break, a sentence break (full stop or comma), a blank, anything else. `rfind` for
several separators and the test against half the window become "the last break in
the second half" (`WindowEnd`). One section is cut; the loop over sections adds
running numbers.

### SectionSplitting

The loops of `policy_text_cleaner.py` and `policy_section_splitter.py`: `CleanLine` is
one turn of the first, `AddLine` and `OpenSection` are the two branches of the
second, `EndSplit` what follows it. A line is a sequence of *tokens*, pieces of
text of which only the kind (a heading of a level, one character, a page number,
...) and the length are kept: that is all that `_is_repeated_short_line`,
`_looks_like_page_number_line`, `match_heading` and `_should_keep_preface` look at.
`article2` is a second article, so that two different headings of one level occur
(`SectionPath`).

### DocumentText

A file is a sequence of pages (PDF), of paragraphs and tables (DOCX), or one
picture. `ParseItem` appends an item and what the parser makes of it; `EndParse`
decides whether the file is suspected to be scanned and which blocks OCR is to
read; `PassBlock`, `ReadBlock`, `MissBlock` are the OCR loop, one call of the service
each; `AssembleBlock` is the assembler's loop. Placeholders of pictures in
paragraphs are numbers that the parser gives and the assembler resolves, as in the
code. `answers` remembers, for the properties only, what was read in which picture.
Abstractions: a paragraph or a recognised line has no line breaks of its own; page
numbers follow from the page breaks and are not kept; a picture's bytes are its
place; rendering a page cannot fail separately from reading it; the spacing of
requests (`RequestSlots`) and picture formats are left out; a picture whose
relation is missing in the DOCX is the piece `missing`.

### Retrieval

One request: `StartSearch`, `VectorSearch`, `KeywordSearch`, `Rank`. The two searches
are separate statements, each with a snapshot of its own, and `Ingest` and `Publish`
may commit before and between them; they are the atomic steps that
`VersionCatalog` promises, with the versions' statuses added. One query is fixed and
a chunk is what it is worth to it, a `Profile`: its vector score, its raw keyword
score, its rerank signal and coverage, in thousandths. How these come from wording
(`policies.py`, the weights in `rerank.py` and in the keyword statement) is left out;
how they are recalled, cut, fused, ranked, filtered and rescued is modelled. Recalled
chunks are sets of ids, because the sort that follows decides every tie. `exact` and
`hnsw` recall run the same statement and the planner may use the approximate index
for both, so `VectorSearch` returns the nearest of *some* of the visible chunks: the scan
may miss any of them, and farther ones take their places. The filters by category and
department work like the one by document and are left out. Commits of other
processes interleave only where the search reads.

### KnowledgeViews

The statements of the management views and of `KnowledgeQualityAuditRepository.audit`,
each an action with a snapshot of its own; `seen` is what they have returned so far.
Because numbers of versions only grow and rows of a version never change, a snapshot of
the documents or the versions is each document's newest version, and one of the sections
or chunks is the ids it contains. A chunk stands for its section too: both are stored in
one transaction, and every chunk has the section it was cut from. The order in which a
page lists documents is by their last change, which the model does not keep: a page is
any documents, as many as the page has. Filters, the audit's issues about single rows
(other than an empty text) and its counts by status are left out; so are the counts of
pending and failed versions, which are always 0, because only parsed texts are stored.

### OnlineRequests

`ShowHits` answers a plain search. `Answer` is `RagApplicationFacade.ask` with the
model's reply as a choice: a grounded answer, the fixed sentence (or nothing), an
exception. `Review` is `RuleDrivenChecklistDecisionService.review` after the rules were
retrieved; nothing in it reads shared state. The scenario is a constant: requirements,
their components, which are required, how many must be found. A submitted item is the
set of components that it matches; blank items and repetitions are gone. A rule text is
a sequence of pieces, a requirement's keyword, one half of one, or something else,
because the code joins the texts and drops line breaks before it searches them. One
reader runs at a time: readers write nothing, so two of them do not disturb each other.

## 3. Runs

| Run | Question | Instance |
|---|---|---|
| `KnowledgeBaseTwo` | do interleaved ingests, retries and publications keep the tables consistent, do they implement `VersionCatalog`, and which overlaps does each anomaly need? | 2 processes, 2 documents, 3 versions, 1 policy, 3 files |
| `KnowledgeBaseLive` | does every request end, in spite of locks and deadlocks? | 2 processes, 1 document, 3 versions |
| `PublishRace` | *violated:* is the current version the only active one? | 2 processes |
| `UploadStaging` | half-read files, lost uploads, leftovers | 2 processes, 2 uploads, retention 1 tick |
| `UploadRetry` | *violated:* is the source of a stored version there for a retry? | 2 processes, 1 upload |
| `Chunking` | bounds, progress, ends, termination of the loop | every text of up to 10 characters, windows of 5 sharing 1 |
| `ChunkingLoss` | *violated:* is all of the text in some chunk? | as above, up to 7 characters |
| `ImportSession` | inputs of stages, soundness of what is stored, truth of the response and of what the page says, what leaves a draft behind | every path of the pipeline, 2 uploads, 2 requests at the server, 3 chunks in batches of 2 |
| `SourceFiles` | is a text that of its hash, who explains half a file, does every run end? | 2 processes, 1 place, 2 contents, 1 conversion that outlives its run |
| `DocumentText` | is text in its place, is OCR accounted for, do the sections cover the text in order and nest? | every file of up to 3 items and 4 pieces of text |
| `OnlineRequests` | what do searches, answers, reviews, views and audits promise while versions are stored and published? | up to 3 chunks in 2 versions of 2 documents, `top_k` 1 and 2, pages of 1, the shipped thresholds |
| `SectionPath` | *violated:* does a section's path name a way from the outside in? | as above, with two articles |

Why the bounds are enough. Two processes show every pairwise race; a request compares
itself with one other row or lock holder at a time. Three versions are a stored one and
two in flight, the least number at which a late commit could point a document back and
at which a predecessor can be skipped; two documents are needed for two requests to
create the same policy's document twice. Labels need a suffix of at most 4 there
(`MaxSuffix`; a retry appends to a label that has one). One tick of retention separates
fresh, old and expired; two uploads let a cleanup take one while another is staged.
Texts of ten characters have three windows of five, so there are windows between a first
and a last one, and an odd size makes the half-window rounding visible. Four pieces of
text are three repetitions of a header and a heading besides it, or two one-character
lines and a heading, or page numbers between them, and a `long` piece alone decides
whether a PDF counts as scanned; three items put a picture between two texts. Three
chunks are one more than each search returns at `top_k` 1, so that a nearer one can be
missed for a farther one; two versions (`MaxVersions`) may be of one document, one
hiding the other or superseding it, or of two, one stored while a request runs or both,
and either may have no chunks; the four profiles are a chunk found by both searches, one
just below the threshold, one rescued by the evidence gate, and one that only fusion
lifts over it; one that states a rule, one that ends with half of another and one that
begins with the rest show the join of rule texts. Two requests at the server are one
that is served and one that waits, or one given up and its repetition; two uploads let
the user preview again while an ingest of the first is under way; three chunks in
batches of two are a full and a partial batch. Two contents at one place are a file and
what replaces it; one process may convert what the other has registered, and one late
conversion may disturb either. `SYMMETRY` is used in safety runs only. `CHECK_DEADLOCK
FALSE` is set where the function or the run ends (`Chunking*`, `DocumentText`,
`SectionPath`).

Fairness. `KnowledgeBaseLive`: weak fairness of a request's steps (a process keeps
running its request) and strong fairness of the statements that wait for a lock,
because PostgreSQL queues waiters; no fairness for starting requests or for
failures. `UploadStaging`: weak fairness of a request's steps and of time, none for
crashes or for new requests: `NothingStays` therefore says "if cleanups go on
being completed". `Chunking`: the function runs on. `SourceFiles`: weak fairness of the
server's steps and of the time limit (`subprocess.run(timeout=180)` kills the script
whatever it does), none of Word, which may hang for ever. `ImportSession`: weak
fairness of the server's steps, and strong fairness of serving an activation, because
what has arrived waits in the event loop's queue and is not passed over for ever by
previews that come later; none of the user, of time limits or of the network.

### What the violations show

* `PublishRace`: two publications that both read the same current version each
  supersede that one and not each other: two versions end `active`, one of them
  not current. `activate_version` takes no lock, and the schema has no constraint
  against it.
* `UploadRetry`: the version stored by `ingest-upload` names the staged file as
  its source, and the staged file is discarded when the request answers, so the
  retry of such a document finds no file.
* `ChunkingLoss`: `next_start = max(end - overlap, start + step)` is always the
  second, since `end <= start + target`. If the window was cut short at a break, the
  characters between the break and `start + step` are in no chunk. `GapBounded`
  bounds the loss.
* `SectionPath`: a heading replaces the part of the path from its own level on, and
  is only appended if the path is too short for that level. An article directly
  under a chapter makes a path of two; the next article keeps it and is appended:
  chapter / first article / second article. `PathsNest` says what does hold: as long as
  no level is skipped, a path is the way to its section.

Two more promises fail under concurrency: one document per policy (no unique constraint
on name and category: two first ingests of a policy make two documents), and a complete
chain of predecessors (the predecessor comes from the document as loaded, so an ingest
that overlaps another one can skip a version). They are not runs of their own because
no text in the repository promises them under concurrency. `OneDocumentUnlessRaced`,
`ChainUnlessRaced` and, for the active version, `ActiveUnlessRaced` say that these
overlaps are the only way to get there; they are checked and proved.

Texts of the repository and its code disagree in further places. The models do what the
code does. The properties do not take the code's side there: they hold of it, and would
hold as well if it did what the text says.

* *Published versions are searched.* `app/interfaces/http/routes/knowledge_publication.py:22`
  says of publishing that it brings a version into the online read model. Recall filters
  on `latest_version_id` instead (`policy_persistence_gateway.py:592`), of which
  `sql/001_kb_policy_schema.sql:34` and `sql/README-policy-schema.md:95` say that it need
  not be in force. So drafts are found before anybody publishes them; and when an older
  version is published again it is not found, nor is the newest, which it supersedes:
  without `include_history` nothing is found of that document. This is a disagreement, not a
  matter of taste. `HitsCurrent` admits the newest and the published version; what it holds
  the search to is one version of each document, and not a superseded one, as long as
  nobody commits to the document between the two statements.
* *Numbers of headings are kept.* The cleaner notes that those of chapters, sections and
  articles deliberately are (`policy_text_cleaner.py:59`; its docstring at line 16 and
  `docs/RAG学习笔记.md:469` agree), but removes every line of at most 30 characters that
  stands in the document three times. A first article in each of three chapters loses its
  section, whose text goes to the section before. `SectionsAtHeadings` is about the other
  headings and leaves these open.
* *An upload is deleted once it was stored* (`policy_pipeline.py:95`). The route discards it
  after every answer, also when the pipeline has stopped without storing. `KeptForIngest`
  leaves open what becomes of an upload whose ingest has been answered.
* *Issues of the audit are repeatable* (`app/modules/knowledge/ports/quality_audit.py:9`).
  Chunks of an ingest that commits while the audit runs are reported as having no section,
  once. `AuditBlamesNoListed` bounds that to versions which the audit does not list.
* *A retry has published the document* (`KnowledgeBasePage.tsx:75`). `retry_ingestion.py`
  only ingests; but the button needs a failed version, which is never stored. Not modelled.

What no text speaks of is modelled and not judged, and the properties name it as an
exception where it would break them: the `exact` strategy does nothing to
keep the planner from the HNSW index; rule keywords are found across the border of two
chunks (`VerdictHolds`); with a `top_k` above `rag_answer_top_k` a review need not cite the
rule that decided (`ToldWithSources`); a submitted item that is a fragment of an alias, or
punctuation only, counts as every component whose alias contains it; with OCR off, a
document that has some text is stored without the text of its images; a document all of
whose lines the cleaner removes is stored with no chunks (`StoredIsSound`); pages without
text in a PDF that has 80 characters elsewhere are never sent to OCR, because only a PDF
suspected to be scanned has its pages recognised (`OcrTold`); two lines of one character
before the first heading make everything before it a cover (`SectionsCoverText`); an
ingest whose read-back fails after the commit is answered with an error, and an import
that takes the server longer than 15 seconds is given up by the page: both are stored all
the same and stay drafts (`DraftExplained`), and importing the file again is refused for
its hash, while the page shows no error after the confirmation, because nothing handles
the rejected promise of `handleConfirm`; a half-converted .doc is never removed, so that
one conversion that did not end well makes that content unreadable for good
(`HalfIsExplained`). That a transaction is rolled back as a whole is PostgreSQL's promise,
on which `KnowledgeBase` relies: what a failed request had written is never seen.

## 4. Proofs

**KnowledgeBaseProofs** proves `Spec => []IInv` for any number of processes,
documents, versions, policies, labels and files, assuming only that `None` is none
of them and that `MaxSuffix` is a natural number. `LatestIsNewest`,
`NumberedByGeneration` and `ChainGoesBack` are not inductive by themselves: that
a commit moves `latest` forward depends on what the session computed several
statements ago. `IInv` adds

* `TablesOK`: every version belongs to a stored document and is numbered from 1;
* `IngestOK`: the key an ingest will write is unused, the document it works on is
  stored or, if it creates it, is not;
* `NumberOK`: the number it took is 1 or *one more than the number of some stored
  version*, and above its predecessor's. It is not claimed to be one more than the
  maximum: that is stale as soon as somebody commits;
* `SessionOK`: once the row is inserted nobody has its number;
* `Apart`: two inserted rows of a document differ in number, because the second
  insert waits for the first (`UNIQUE(policy_id, version_seq)`).

From these the commit step follows: the number is free and its predecessor
exists, so it is the maximum plus one, and `latest` advances by one generation
(`NextGeneration`). The unique constraint is what the argument rests on: without it
(`ConflictNoSeq`) TLC refutes the invariant.

`CatalogImplemented`, at the end of that module, says that `KnowledgeBase` implements
`VersionCatalog` under the mapping of section 2: a commit of an ingest is `Record`, a
commit of a publication is `Publish` or a stutter, every other step a stutter.

**ChunkingProofs** proves the loop's inductive invariant and, from it, the
bounds on overlap and gap, progress and the coverage of both ends for every
text, every window size and every overlap smaller than the window
(`ChunksAdvance` for overlaps of at most half a window: beyond that a chunk can lie
within the one before, which TLC shows).

The same module proves `OSpec => []OInv` on top of `IInv`, for any number of
processes. The three properties are about what requests that *overlap* can do, so the
invariant has to say what one that overlaps no other knows: `PublishFresh`, that what a
publication has loaded is what is stored, the prior version's status included;
`IngestFresh` and `CreateFresh` the same of a document's latest version and of a
policy's having no document; `MeetingsNoted`, that whoever is at the same document now
is in `met`. A step of another request would have to commit to the same document to
spoil that, and then the two have met.

**SourceFilesProofs** proves `Spec => []SInv` for any number of processes, places,
contents and surviving conversions. A wrong text travels: from an edited file into
Word, from there into the converted file or a surviving conversion, and from these into
runs that were never touched by an edit. `SInv` therefore says of each of these places
(`ReadsFit`, `HeldFits`, `LateFits`, `DocxFits`) that what is there is what its hash names
or that hash is in `edited`; and of an incomplete file (`HalfFits`, `LateIsCut`) that
somebody writes it or a conversion was cut short.

**IngestionProofs** proves the pipeline's invariant `PInv` for every batch size and
number of chunks: what the stages before the current one have left (`Left`), that the
vectors made so far are those of the first chunks in order (`Vectors`), what the log
and the answer say of a run that was stopped or has come to the end (`Logged`, `Told`).
`SessionRunsPipeline` shows that a session, with everything but the pipeline's
variables hidden, is a behaviour of the pipeline's specification, so the theorems are
stated for sessions. For the session itself it adds `DInv`: at most one request is served and the run
that goes on is of its kind (`ServesOne`); a draft is lost, about to be activated, or
that of the run that goes on (`Explained`). `ToldPublished` follows because only a step
that activates sets `told`, and an active version stays active. `SessionTypeOK` says
that what the dialog asks to confirm names an upload; for that a preview that is served
has to have its upload's name already (`Named`).

**UploadProofs** proves `Spec => []UInv` for any number of processes and uploads.
`NoHalfFile` rests on ids being fresh: nobody can name an upload that is being staged
(`NotGiven`, `OneStager`, `NobodyReads`), and a file gets its name only when it is
complete (`NoFileYet`). `KeptForIngest` has to be extended to uploads whose preview has
not been answered yet (`KeptForAnswer`).

**RequestProofs** proves `Spec => []VInv` of `OnlineRequests` for any set of documents (also
an infinite one: those that are stored are finitely many), any pages, and any number
and size of versions. A view reads versions first and chunks later, and others commit in
between. That is harmless because an ingest only appends chunks of a version newer than
all of its document (`Grows`), so the chunks of a version that somebody has seen listed
stay what they are (`ChunksStay`). `VInv` says on top of the two properties where a request
is (`Places`), that the first statement's snapshot is overtaken only by documents in
`changed` (`DocumentsFit`), which chunks an audit may have missed so far (`VersionsFit`)
and that half-filled rows are right (`RowsFit`). That a page has as many rows as
documents is a bijection (`PageIsFull`).

On top of `VInv` it proves `Spec => []SInv`, for searches and what is made of their hits.
`SInv` says what each statement's snapshot is still worth: what the first has recalled
was visible at one moment, so that it holds one version of each document, and is visible
still unless its document was touched (`VectorFresh`); after the second nothing is read,
so what it has recalled is visible (`KeywordFresh`); the hits are what ranking makes of
both (`RankFits`), and a response what its purpose makes of the hits (`Responses`).
`Bounds` counts what ingests may still store: a document has at most as many versions
as there are rows, because they are numbered without gaps.

* `HitsCurrent` follows because two hits of one document in different versions cannot be
  recalled by the same statement.
* `HitsAreBest` needs that the sort key is a total order on hits (`Lexical`: its last part
  is the id), that a finite set has exactly one list in a total order, that its first `k`
  are before the rest (`TopOfRanked`), and that neither limit of a statement cuts when no
  more is visible than it allows. A chunk's score is then its `Worth`, and whether it
  passes is whether it is `Deserving`; fusion and reranking are arithmetic on thousandths.
* `VerdictHolds` is about the texts of all hits put together: that a requirement is stated
  in a concatenation iff it is in one of the texts, or across the border of two
  neighbours, is an induction over the number of texts (`StatedInTexts`) with the case of
  two texts as its step (`StatedInTwo`). It needs that no text is empty.
* `ToldWithSources` needs that a sufficient review has hits (`VerdictHasHits`), that hits
  are visible to the request, and that there are at most `top_k`.

**TextProofs** proves `Spec => []TextInv` of `DocumentText`, for files of any number of
items and any texts of tokens, and from it `Spec => []PlaceInv`. `TextInv` has a part
for each of the three stretches of the way, because each property is about the end of a
loop and needs what holds half-way:

* `DocInv`, blocks and OCR. Texts are not empty, only the text of a paragraph has
  placeholders, a block that OCR has read has given up its picture (`DocTypes`); the
  blocks read, failed or blank so far are the targets behind the loop (`Counted`); in a PDF
  there are as many rendered pictures as pages without text (`PagesToRead`), which are
  targets exactly if the file is suspected to be scanned.
* `LinesInv`, assembly and cleaning. Blocks do not go back along the lines (`Rising`), and
  the headings among the cleaned lines are, rank by rank, those of the assembled
  lines that are not repeated short ones (`Same`, `WantedBefore`). Both sides are sets of
  places, so that taking a line is adding one element (`UpToGrows`, `SameGrows`).
* `SplitInv`, splitting. The current section is the lines from its heading on (`Cut`,
  `CurrentInv`), those before it are in the sections in order but for a cover (`Cover`),
  and a path is the way to its heading from the outside in (`Way`). When a section opens
  its path is cut at its level and extended; that this is the way again needs
  that a level that is not skipped has its last heading behind that of each
  level above (`NextWay`).

`OcrTold`, `SectionsCoverText`, `SectionsAtHeadings` and `PathsNest` follow at the end of
the loops. For `SectionsAtHeadings` the ranks give each section that a heading opened a
heading of the document with the same text, so that none of them looks like a header.

`TextInPlace` compares the text of the blocks with the items they came from, so it needs
where each item's blocks are (`PlaceInv`): some `s` and `place` tell that item `i` is laid
out in the blocks from `s[i] + 1` to `s[i + 1]` (`Laid`, a case for each type of item) and
picture `p` is block `place[p]`, another for each picture, with what was read in it
(`Places`); the number in a placeholder leads to one block (`Slots`); and what is
assembled is what the blocks so far contribute. Parsing an item extends `s` and `place`
(`PlaceParse`), reading a picture changes only its own block (`PictureDone`), and at the
end the items are taken one by one, each of whose blocks contribute its reading
(`ItemReads`). That the pictures' blocks stand in the order of their places in a paragraph
is `AscendingRanks`. How texts run together within a line (`Together`) is one definition
that the model and the property share.

**DataLemmas** holds what these need of data. The library's induction theorems take a
predicate, which the provers cannot instantiate. `SetInduction` is induction for *sets* of
naturals, derived from the well-foundedness of `<`; a predicate becomes a set by
comprehension at the place of use. From it follow that a finite totally ordered set has a
last element and a list (`LastExists`, `Listed`), by induction on its cardinality, what
`FlattenSeq` computes (`FlattenGrows`, `FlattenAppend`, `FlattenSingles`), that a function defined by
recursion over the naturals exists and is what its equations say (`Recursion`), and that a
set of numbers with an upper bound has a largest (`Largest`, `MaxIs`).

Only model-checked: liveness (`RequestsFinish`, `NothingStays`, `Terminates`, `RunsEnd`,
`DraftSettles`), for which the prover has no support (fairness, ENABLED). Every safety
invariant that a run checks is a theorem.

## 5. Plan, and what is not modelled

The order was: the version tables and their abstract specification, the staging
directory, the pipeline, the text algorithms, retrieval and the online requests;
each with its run first and its theorem after. What is left, in the order of its
worth:

1. *Composition*: `ImportSession` with `UploadStaging` and `KnowledgeBase`, so that two
   processes serve sessions statement by statement. Each is at the limit of what TLC
   explores within minutes; the interfaces between them are the atomic steps that
   `VersionCatalog` and the upload properties promise.

Not modelled, and why: prompts and clients of the language model adapters (external
services; their outcomes are actions), the scores of query analysis (a heuristic no text
states a property of), the OCR rate limiter (it is local to a process and sequential),
the agent adapter, composition, scripts and the frontend's other pages (wiring, command
lines, and views of what one request returns). The directory scan of candidates is a
filter on file names. Categories and departments as filters, and further checklist
scenarios, repeat what is modelled.
