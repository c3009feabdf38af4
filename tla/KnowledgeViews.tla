---------------------------- MODULE KnowledgeViews ----------------------------
(***************************************************************************)
(* The management views and the quality audit read the tables of Retrieval. *)
(* Each of them is several statements, each with a snapshot of its own, so  *)
(* what other processes commit in between is seen by some of them only.     *)
(* A chunk is the only one of its section; both are stored together.        *)
(***************************************************************************)
EXTENDS Retrieval

CONSTANTS PageRequest  \* the limits and offsets that listings ask for

ASSUME PageAssumption == PageRequest \subseteq [limit : Nat \ {0}, offset : Nat]

VARIABLE seen  \* what the statements of the view have returned

Row == [document : Document, version : Nat, chunk_count : Nat, section_count : Nat,
        publication_status : {"draft", "active", "superseded"}]

NobodySeen == [d \in Document |-> 0]

\* Of documents and versions a statement tells the newest versions; the audit's
\* issues are about versions without a text and chunks without a section; no document
\* is ever without a version.
NothingSeen == [view |-> "none", documents |-> NobodySeen, versions |-> NobodySeen,
                sections |-> {}, chunks |-> 0, rows |-> {}, page |-> None,
                without_text |-> {}, without_section |-> {}]

\* Only documents that have been committed to have rows.
Stored(newest) == {d \in Document : newest[d] > 0}

Status(d, n) == CASE n = current[d]        -> "active"
                  [] <<d, n>> \in superseded -> "superseded"
                  [] OTHER                 -> "draft"

\* Faulty variant: the chunks of all versions of the document are counted.
ChunksOfDocument(d, n) == {i \in 1..Len(chunks) : chunks[i].document = d}

ChunksOf(d, n) == {i \in 1..Len(chunks) : chunks[i].document = d /\ chunks[i].version = n}

\* The first statement of a view.
Open(view, result, next) ==
  /\ pc = "idle"
  /\ seen' = [result EXCEPT !.view = view]
  /\ changed' = {}
  /\ pc' = next
  /\ UNCHANGED <<stored, request, vectorHits, keywordHits, hits>>

\* A later one.
Read(at, result, next) ==
  /\ pc = at
  /\ seen' = result
  /\ pc' = next
  /\ UNCHANGED <<stored, search>>

-----------------------------------------------------------------------------
\* The audit.  Other things that it says of single rows, and of versions with the same
\* hash or label, come from one statement too; the blocks are compared with nothing.
StartAudit ==
  Open("audit", [NothingSeen EXCEPT !.documents = latest], "audit_versions")

\* Only a text that is empty has no chunks.
EmptyVersions == {v \in StoredVersions : ChunksOf(v[1], v[2]) = {}}

AuditVersions ==
  Read("audit_versions", [seen EXCEPT !.versions = latest, !.without_text = EmptyVersions],
       "audit_sections")

\* Faulty variant: only the newest versions' sections are read.
AuditNewestSections ==
  Read("audit_sections",
       [seen EXCEPT !.sections = {i \in 1..Len(chunks) :
                                    chunks[i].version = latest[chunks[i].document]}],
       "audit_chunks")

AuditSections ==
  Read("audit_sections", [seen EXCEPT !.sections = 1..Len(chunks)], "audit_chunks")

AuditChunks ==
  Read("audit_chunks",
       [seen EXCEPT !.chunks = Len(chunks),
                    !.without_section = (1..Len(chunks)) \ seen.sections],
       "done")

-----------------------------------------------------------------------------
\* The overview.  No version that is stored is pending or failed.
StartOverview == Open("overview", [NothingSeen EXCEPT !.documents = latest], "overview_chunks")

CountChunks == Read("overview_chunks", [seen EXCEPT !.chunks = Len(chunks)], "done")

\* A listing counts the documents and then reads a page of them, by the time of their
\* last change, with the newest version of each.
StartList(page) ==
  Open("list", [NothingSeen EXCEPT !.documents = latest, !.page = page], "list_page")

RowOf(d, n) == [document |-> d, version |-> n,
                chunk_count |-> Cardinality(ChunksOf(d, n)),
                section_count |-> Cardinality(ChunksOf(d, n)),
                publication_status |-> Status(d, n)]

\* How many documents are on a page when there are so many.
PageSize(page, count) == Min({page.limit, Max({0, count - page.offset})})

ReadPage ==
  /\ pc = "list_page"
  /\ \E D \in SUBSET Stored(latest) :
       /\ Cardinality(D) = PageSize(seen.page, Cardinality(Stored(latest)))
       /\ Read("list_page", [seen EXCEPT !.rows = {RowOf(d, latest[d]) : d \in D}], "done")

\* The details of a document: its row, the version that is its newest there, and the
\* numbers of that version's chunks and sections.
StartDetail(d) == /\ latest[d] > 0
                  /\ Open("detail", [NothingSeen EXCEPT !.documents[d] = latest[d]],
                          "detail_version")

DetailMissing(d) == latest[d] = 0 /\ Open("missing", NothingSeen, "done")

DetailVersion ==
  \E d \in Stored(seen.documents) :
    Read("detail_version",
         [seen EXCEPT !.rows = {[document |-> d, version |-> seen.documents[d],
                                 chunk_count |-> 0, section_count |-> 0,
                                 publication_status |-> Status(d, seen.documents[d])]}],
         "detail_chunks")

DetailChunks ==
  \E row \in seen.rows :
    Read("detail_chunks",
         [seen EXCEPT !.rows = {[row EXCEPT !.chunk_count =
                                   Cardinality(ChunksOf(row.document, row.version))]}],
         "detail_sections")

DetailSections ==
  \E row \in seen.rows :
    Read("detail_sections",
         [seen EXCEPT !.rows = {[row EXCEPT !.section_count =
                                   Cardinality(ChunksOf(row.document, row.version))]}],
         "done")

StartView == \/ StartAudit \/ StartOverview
             \/ \E page \in PageRequest : StartList(page)
             \/ \E d \in Document : StartDetail(d) \/ DetailMissing(d)

ViewStep == \/ AuditVersions \/ AuditSections \/ AuditChunks
            \/ CountChunks \/ ReadPage
            \/ DetailVersion \/ DetailChunks \/ DetailSections

ViewPlaces == {"audit_versions", "audit_sections", "audit_chunks", "overview_chunks",
               "list_page", "detail_version", "detail_chunks", "detail_sections"}

-----------------------------------------------------------------------------
ViewsTypeOK ==
  /\ seen.view \in {"none", "audit", "overview", "list", "detail", "missing"}
  /\ \A d \in Document : seen.documents[d] \in 0..latest[d] /\ seen.versions[d] \in 0..latest[d]
  /\ seen.sections \cup seen.without_section \subseteq 1..Len(chunks)
  /\ seen.without_text \subseteq Document \X (1..MaxVersions)
  /\ seen.chunks \in 0..Len(chunks)
  /\ seen.rows \subseteq Row
  /\ seen.page \in PageRequest \cup {None}

\* The audit reads sections before chunks, so an ingest that commits in between makes
\* it report chunks without a section that have one.  But it reads versions before
\* either: all such chunks are of versions it does not list, and of versions that it
\* lists it has read every chunk, so it has some unless it reports that there is no
\* text.  Each document has its newest version listed.
AuditBlamesNoListed ==
  seen.view = "audit" /\ pc = "done" =>
    LET listed(i) == chunks[i].version <= seen.versions[chunks[i].document]
    IN  /\ \A i \in seen.without_section : ~listed(i) /\ chunks[i].document \in changed
        /\ \A i \in 1..Len(chunks) : listed(i) => i <= seen.chunks
        /\ \A d \in Document, n \in 1..MaxVersions :
             n <= seen.versions[d] =>
               (<<d, n>> \in seen.without_text <=>
                  \A i \in 1..seen.chunks : chunks[i].document # d \/ chunks[i].version # n)
        /\ \A d \in Document : seen.documents[d] <= seen.versions[d]

\* What a view shows of a version is of that version, whole, also when commits fall
\* between its statements: a row counts all chunks and sections of its version, which is
\* the document's newest unless the document was changed; the overview has counted the
\* chunks of all documents counted.  A page is as full as the total says unless
\* something was stored.
ViewsAgree ==
  pc = "done" =>
    /\ \A row \in seen.rows :
         LET d == row.document
             size == Cardinality({i \in 1..Len(chunks) :
                                    chunks[i].document = d /\ chunks[i].version = row.version})
         IN  /\ row.chunk_count = size /\ row.section_count = size
             /\ d \notin changed => /\ row.version = latest[d]
                                    /\ row.publication_status = "active" <=>
                                         current[d] = row.version
    /\ seen.view = "overview" =>
         Cardinality({i \in 1..Len(chunks) :
                        chunks[i].version <= seen.documents[chunks[i].document]}) <= seen.chunks
    /\ seen.view = "list" /\ changed = {} =>
         Cardinality(seen.rows) =
           PageSize(seen.page, Cardinality(Stored(seen.documents)))
===============================================================================
