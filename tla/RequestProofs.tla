--------------------------- MODULE RequestProofs ----------------------------
(***************************************************************************)
(* Proofs about OnlineRequests, for any documents, versions, chunks, settings *)
(* and commits between two statements.  What a view shows of a version is of *)
(* that version, and the audit's false alarms are about versions that it does *)
(* not list.  What a search finds is current and the best of what there is to *)
(* find, and whoever is told something is told what the texts that were found *)
(* support.                                                                 *)
(***************************************************************************)
EXTENDS OnlineRequests, DataLemmas

AuditPlaces == {"audit_versions", "audit_sections", "audit_chunks"}
DetailPlaces == {"detail_version", "detail_chunks", "detail_sections"}
SearchPlaces == {"idle", "vector", "keyword", "rank", "respond"}

Chunks == [document : Document, version : Nat, profile : Profile]
Seen == [view : {"none", "audit", "overview", "list", "detail", "missing"},
         documents : [Document -> Nat], versions : [Document -> Nat],
         sections : SUBSET Nat, chunks : Nat, rows : SUBSET Row,
         page : PageRequest \cup {None}, without_text : SUBSET (Document \X Nat),
         without_section : SUBSET Nat]

\* The tables: each chunk belongs to a version that exists, and no document's published
\* version is superseded.
Tables == /\ chunks \in Seq(Chunks)
          /\ latest \in [Document -> Nat]
          /\ current \in [Document -> Nat]
          /\ IsFiniteSet(Stored(latest))
          /\ \A i \in 1..Len(chunks) : chunks[i].version <= latest[chunks[i].document]
          /\ \A d \in Document : <<d, current[d]>> \notin superseded

\* A view is at one of its places; a search has seen nothing of the views.
Places == /\ seen \in Seen
          /\ pc \in AuditPlaces \cup DetailPlaces \cup SearchPlaces
                      \cup {"overview_chunks", "list_page", "done"}
          /\ pc \in AuditPlaces => seen.view = "audit"
          /\ pc \in DetailPlaces => seen.view = "detail"
          /\ pc = "overview_chunks" => seen.view = "overview"
          /\ pc = "list_page" => seen.view = "list"
          /\ pc \in SearchPlaces => seen = NothingSeen
          /\ pc \notin {"detail_chunks", "detail_sections", "done"} => seen.rows = {}

\* The first statement's snapshot is overtaken only by documents that have changed.
DocumentsFit ==
  /\ \A d \in Document : seen.documents[d] <= latest[d]
  /\ pc \in {"list_page", "detail_version"} =>
       \A d \in Document \ changed : seen.documents[d] \in {0, latest[d]}
  /\ pc = "list_page" => \A d \in Document \ changed : seen.documents[d] = latest[d]

\* The versions that an audit lists have all of their chunks, and it knows which of
\* them have none; the chunks whose sections it has not read are later ones.
VersionsFit ==
  /\ pc \in {"audit_sections", "audit_chunks"} =>
       /\ \A d \in Document : /\ seen.documents[d] <= seen.versions[d]
                              /\ seen.versions[d] <= latest[d]
       /\ \A d \in Document, n \in 1..MaxVersions :
            n <= seen.versions[d] => (<<d, n>> \in seen.without_text <=> ChunksOf(d, n) = {})
  /\ pc = "audit_chunks" =>
       \A i \in 1..Len(chunks) : i \notin seen.sections =>
         /\ chunks[i].version > seen.versions[chunks[i].document]
         /\ chunks[i].document \in changed

\* What the rows of a document's details say so far is true.
RowsFit ==
  pc \in {"detail_chunks", "detail_sections"} =>
    \A row \in seen.rows :
      /\ row.version <= latest[row.document]
      /\ row.document \notin changed =>
           /\ row.version = latest[row.document]
           /\ row.publication_status = "active" <=> current[row.document] = row.version
      /\ pc = "detail_sections" =>
           row.chunk_count = Cardinality(ChunksOf(row.document, row.version))

VInv == /\ Tables /\ Places /\ DocumentsFit /\ VersionsFit /\ RowsFit
        /\ AuditBlamesNoListed /\ ViewsAgree

-----------------------------------------------------------------------------
\* What a commit of another process does to the tables: it adds chunks of a version
\* newer than all that its document had, and between two statements of a request every
\* document that it touches is remembered.
Grows == /\ Reading
         /\ pc' = pc
         /\ Len(chunks) <= Len(chunks')
         /\ \A i \in 1..Len(chunks) : chunks'[i] = chunks[i]
         /\ \A i \in (1..Len(chunks')) \ (1..Len(chunks)) :
              /\ chunks'[i].version > latest[chunks'[i].document]
              /\ pc # "idle" => chunks'[i].document \in changed'
         /\ \A d \in Document : latest[d] <= latest'[d]
         /\ pc # "idle" =>
              /\ changed \subseteq changed'
              /\ \A d \in Document \ changed' : /\ latest'[d] = latest[d]
                                                /\ current'[d] = current[d]

LEMMA ProfilesAreSeq ==
  ASSUME NEW ps \in BoundedSeq(Profile, 2)
  PROVE  ps \in Seq(Profile)
<1>1. PICK m \in 0..2 : ps \in [1..m -> Profile]
  BY DEF BoundedSeq, SeqOf
<1> QED
  BY <1>1

\* Each chunk has a document and a version.
LEMMA ChunkFields ==
  ASSUME NEW s \in Seq(Chunks)
  PROVE  \A i \in 1..Len(s) : s[i].document \in Document /\ s[i].version \in Nat
<1>1. \A i \in 1..Len(s) : s[i] \in Chunks
  BY ElementOfSeq
<1> QED
  BY <1>1 DEF Chunks

\* An ingest appends the chunks of its version.
LEMMA IngestGrows ==
  ASSUME Tables, NEW d \in Document, NEW ps \in BoundedSeq(Profile, 2), Ingest(d, ps)
  PROVE  Tables' /\ Grows
<1> DEFINE new == [i \in 1..Len(ps) |-> [document |-> d, version |-> latest[d] + 1,
                                         profile |-> ps[i]]]
<1>1. ps \in Seq(Profile) /\ latest[d] \in Nat /\ chunks \in Seq(Chunks)
  BY ProfilesAreSeq DEF Tables
<1>2. /\ new \in Seq(Chunks)
      /\ Len(new) = Len(ps)
      /\ \A i \in 1..Len(new) : /\ new[i].document = d
                                /\ new[i].version = latest[d] + 1
  BY <1>1 DEF Chunks
<1>3. chunks' = chunks \o new
  BY DEF Ingest
<1> HIDE DEF new
<1>4. /\ chunks' \in Seq(Chunks)
      /\ Len(chunks') = Len(chunks) + Len(new)
      /\ Len(chunks) \in Nat /\ Len(new) \in Nat
      /\ \A i \in 1..(Len(chunks) + Len(new)) :
           chunks'[i] = IF i <= Len(chunks) THEN chunks[i] ELSE new[i - Len(chunks)]
  <2>1. /\ chunks \o new \in Seq(Chunks)
        /\ Len(chunks \o new) = Len(chunks) + Len(new)
        /\ \A i \in 1..(Len(chunks) + Len(new)) :
             (chunks \o new)[i] = IF i <= Len(chunks) THEN chunks[i] ELSE new[i - Len(chunks)]
    <3>1. chunks \in Seq(Chunks) /\ new \in Seq(Chunks)
      BY <1>1, <1>2
    <3> QED
      BY <3>1, ConcatProperties, ZenonT(30)
  <2>2. Len(chunks) \in Nat /\ Len(new) \in Nat
    BY <1>1, <1>2
  <2> QED
    BY <1>3, <2>1, <2>2, Zenon
<1>5. /\ \A i \in 1..Len(chunks) : chunks'[i] = chunks[i]
      /\ \A i \in (1..Len(chunks')) \ (1..Len(chunks)) :
           chunks'[i].document = d /\ chunks'[i].version = latest[d] + 1
  <2>1. \A i \in 1..Len(chunks) : chunks'[i] = chunks[i]
    BY <1>4
  <2>2. ASSUME NEW i \in (1..Len(chunks')) \ (1..Len(chunks))
        PROVE  chunks'[i] = new[i - Len(chunks)] /\ i - Len(chunks) \in 1..Len(new)
    BY <1>4
  <2> QED
    BY <1>2, <2>1, <2>2
<1>6. latest' = [latest EXCEPT ![d] = @ + 1] /\ UNCHANGED <<current, superseded>>
  BY DEF Ingest
<1>7. IsFiniteSet(Stored(latest)')
  <2>1. Stored(latest)' = Stored(latest) \cup {d}
    BY <1>1, <1>6 DEF Stored, Tables
  <2> QED
    BY <2>1, FS_AddElement DEF Tables
<1>8. Tables'
  <2>1. \A i \in 1..Len(chunks) : chunks[i].document \in Document /\ chunks[i].version \in Nat
    BY <1>1, ChunkFields
  <2>2. \A e \in Document : latest[e] <= latest'[e] /\ latest[e] \in Nat
    BY <1>6 DEF Tables
  <2>3. \A i \in 1..Len(chunks') : chunks'[i].version <= latest'[chunks'[i].document]
    <3> SUFFICES ASSUME NEW i \in 1..Len(chunks')
                 PROVE  chunks'[i].version <= latest'[chunks'[i].document]
      OBVIOUS
    <3>1. CASE i \in 1..Len(chunks)
      BY <3>1, <1>5, <1>6, <2>1, <2>2 DEF Tables
    <3>2. CASE i \notin 1..Len(chunks)
      BY <3>2, <1>5, <1>6, <1>1 DEF Tables
    <3> QED
      BY <3>1, <3>2
  <2> QED
    BY <1>4, <1>6, <1>7, <2>3 DEF Tables
<1>9. Grows
  BY <1>1, <1>4, <1>5, <1>6 DEF Grows, Tables, Ingest, Touch
<1> QED
  BY <1>8, <1>9

\* A publication adds nothing.
LEMMA PublishGrows ==
  ASSUME Tables, NEW d \in Document, NEW n \in 1..MaxVersions, Publish(d, n)
  PROVE  Tables' /\ Grows
<1>1. /\ chunks' = chunks /\ latest' = latest /\ n \in Nat
      /\ current' = [current EXCEPT ![d] = n]
      /\ pc' = pc /\ Reading /\ Len(chunks) \in Nat
      /\ pc # "idle" => changed' = changed \cup {d}
  BY SettingsAssumption DEF Publish, Touch, Tables
<1>2. \A e \in Document : <<e, current'[e]>> \notin superseded'
  <2>1. superseded' = (superseded \ {<<d, n>>})
                        \cup (IF current[d] = 0 THEN {} ELSE {<<d, current[d]>>})
        /\ n # current[d]
    BY DEF Publish
  <2> QED
    BY <1>1, <2>1 DEF Tables
<1>3. Tables'
  BY <1>1, <1>2 DEF Tables, Stored
<1> QED
  BY <1>1, <1>3 DEF Grows, Tables

\* So the chunks of a version that exists stay what they are.
LEMMA ChunksStay ==
  ASSUME Tables, Tables', Grows, NEW d, NEW n \in Nat, n <= latest[d], d \in Document
  PROVE  ChunksOf(d, n)' = ChunksOf(d, n)
<1>1. /\ Len(chunks) \in Nat /\ Len(chunks') \in Nat
      /\ Len(chunks) <= Len(chunks')
      /\ \A i \in 1..Len(chunks) : chunks'[i] = chunks[i]
  BY DEF Tables, Grows
<1>2. latest[d] \in Nat
  BY DEF Tables
<1>3. \A i \in (1..Len(chunks')) \ (1..Len(chunks)) :
        chunks'[i].document = d => chunks'[i].version > latest[d]
  BY DEF Grows
<1>4. \A i \in (1..Len(chunks')) \ (1..Len(chunks)) :
        ~(chunks'[i].document = d /\ chunks'[i].version = n)
  BY <1>2, <1>3
<1> QED
  BY <1>1, <1>4 DEF ChunksOf

\* Counting chunks gives a number.
LEMMA CountsAreNat ==
  ASSUME Tables, NEW S \in SUBSET (1..Len(chunks))
  PROVE  Cardinality(S) \in Nat /\ Cardinality(S) <= Len(chunks)
<1>1. Len(chunks) \in Nat
  BY DEF Tables
<1>2. IsFiniteSet(1..Len(chunks)) /\ Cardinality(1..Len(chunks)) = Len(chunks)
  BY <1>1, FS_Interval
<1> QED
  BY <1>2, FS_Subset, FS_CardinalityType

LEMMA SeenFields ==
  ASSUME seen \in Seen
  PROVE  /\ seen.documents \in [Document -> Nat] /\ seen.versions \in [Document -> Nat]
         /\ seen.sections \in SUBSET Nat /\ seen.chunks \in Nat
         /\ seen.rows \in SUBSET Row /\ seen.page \in PageRequest \cup {None}
         /\ seen.without_text \in SUBSET (Document \X Nat)
         /\ seen.without_section \in SUBSET Nat
BY DEF Seen

LEMMA RowFields ==
  ASSUME seen \in Seen, NEW row \in seen.rows
  PROVE  row \in Row /\ row.document \in Document /\ row.version \in Nat
BY DEF Seen, Row

\* What a view has seen survives the commits of others.
LEMMA GrowsKeeps ==
  ASSUME VInv, Tables', Grows, seen' = seen
  PROVE  VInv'
<1> USE DEF VInv
<1>1. pc' = pc /\ pc # "done"
  BY DEF Grows, Reading
<1>2. Places'
  <2> DEFINE P(v, c) ==
          /\ v \in Seen
          /\ c \in AuditPlaces \cup DetailPlaces \cup SearchPlaces
                      \cup {"overview_chunks", "list_page", "done"}
          /\ c \in AuditPlaces => v.view = "audit"
          /\ c \in DetailPlaces => v.view = "detail"
          /\ c = "overview_chunks" => v.view = "overview"
          /\ c = "list_page" => v.view = "list"
          /\ c \in SearchPlaces => v = NothingSeen
          /\ c \notin {"detail_chunks", "detail_sections", "done"} => v.rows = {}
  <2>1. P(seen, pc)
    BY Zenon DEF Places
  <2>2. P(seen', pc')
    BY <1>1, <2>1, Zenon
  <2> QED
    BY <2>2, Zenon DEF Places, Seen, NothingSeen, NobodySeen, AuditPlaces, DetailPlaces, SearchPlaces, Row
<1>3. DocumentsFit'
  <2>1. \A d \in Document : seen.documents[d] \in Nat /\ latest[d] \in Nat /\ latest'[d] \in Nat
    BY SeenFields DEF Tables, Places
  <2> QED
    BY <1>1, <2>1 DEF DocumentsFit, Grows
<1>4. VersionsFit'
  <2>1. \A d \in Document : /\ seen.documents[d] \in Nat /\ seen.versions[d] \in Nat
                            /\ latest[d] \in Nat /\ latest'[d] \in Nat
                            /\ latest[d] <= latest'[d]
    BY SeenFields DEF Tables, Places, Grows
  <2>2. ASSUME pc \in {"audit_sections", "audit_chunks"}, NEW d \in Document,
               NEW n \in 1..MaxVersions, n <= seen.versions[d]
        PROVE  <<d, n>> \in seen.without_text <=> ChunksOf(d, n)' = {}
    <3>1. n \in Nat /\ n <= latest[d]
      BY <2>1, <2>2, SettingsAssumption DEF VersionsFit
    <3>2. ChunksOf(d, n)' = ChunksOf(d, n)
      BY <3>1, ChunksStay
    <3> QED
      BY <2>2, <3>2 DEF VersionsFit
  <2>3. ASSUME pc = "audit_chunks", NEW i \in 1..Len(chunks'), i \notin seen.sections
        PROVE  /\ chunks'[i].version > seen.versions[chunks'[i].document]
               /\ chunks'[i].document \in changed'
    <3>1. chunks'[i].document \in Document /\ chunks'[i].version \in Nat
      BY ChunkFields DEF Tables
    <3>2. CASE i \in 1..Len(chunks)
      BY <2>3, <3>2 DEF VersionsFit, Grows
    <3>3. CASE i \notin 1..Len(chunks)
      <4>1. chunks'[i].version > latest[chunks'[i].document] /\ chunks'[i].document \in changed'
        BY <2>3, <3>3 DEF Grows
      <4>2. seen.versions[chunks'[i].document] <= latest[chunks'[i].document]
        BY <2>3, <3>1 DEF VersionsFit
      <4> QED
        BY <2>1, <3>1, <4>1, <4>2
    <3> QED
      BY <3>2, <3>3
  <2>4. pc \in {"audit_sections", "audit_chunks"} =>
          \A d \in Document : /\ seen.documents[d] <= seen.versions[d]
                              /\ seen.versions[d] <= latest'[d]
    BY <2>1 DEF VersionsFit
  <2> QED
    BY <1>1, <2>2, <2>3, <2>4 DEF VersionsFit
<1>5. RowsFit'
  <2> SUFFICES ASSUME pc \in {"detail_chunks", "detail_sections"}, NEW row \in seen.rows
               PROVE  /\ row.version <= latest'[row.document]
                      /\ row.document \notin changed' =>
                           /\ row.version = latest'[row.document]
                           /\ row.publication_status = "active"
                                <=> current'[row.document] = row.version
                      /\ pc = "detail_sections" =>
                           row.chunk_count =
                             Cardinality(ChunksOf(row.document, row.version)')
    BY <1>1 DEF RowsFit
  <2>1. row.document \in Document /\ row.version \in Nat
    BY RowFields DEF Places
  <2>2. /\ latest[row.document] \in Nat /\ latest'[row.document] \in Nat
        /\ latest[row.document] <= latest'[row.document]
    BY <2>1 DEF Tables, Grows
  <2>3. row.version <= latest[row.document]
    BY DEF RowsFit
  <2>4. ChunksOf(row.document, row.version)' = ChunksOf(row.document, row.version)
    BY <2>1, <2>3, ChunksStay
  <2>5. row.document \notin changed' =>
           /\ row.document \notin changed
           /\ latest'[row.document] = latest[row.document]
           /\ current'[row.document] = current[row.document]
    BY <2>1 DEF Grows
  <2> QED
    BY <2>1, <2>2, <2>3, <2>4, <2>5 DEF RowsFit
<1>6. AuditBlamesNoListed' /\ ViewsAgree'
  BY <1>1 DEF AuditBlamesNoListed, ViewsAgree
<1> QED
  BY <1>2, <1>3, <1>4, <1>5, <1>6

-----------------------------------------------------------------------------
LEMMA TablesStay ==
  ASSUME Tables, UNCHANGED stored
  PROVE  Tables'
BY DEF Tables, stored, Stored

LEMMA NothingSeenType ==
  /\ NothingSeen \in Seen
  /\ \A d \in Document : NothingSeen.documents[d] = 0 /\ NothingSeen.versions[d] = 0
BY DEF NothingSeen, NobodySeen, Seen, Row

\* What the first statement of a view has read.
Opened(view, documents, page) ==
  [view |-> view, documents |-> documents, versions |-> NobodySeen, sections |-> {},
   chunks |-> 0, rows |-> {}, page |-> page, without_text |-> {}, without_section |-> {}]

LEMMA OpenedType ==
  ASSUME NEW view \in {"audit", "overview", "list", "detail", "missing"},
         NEW documents \in [Document -> Nat], NEW page \in PageRequest \cup {None}
  PROVE  /\ Opened(view, documents, page) \in Seen
         /\ Opened(view, documents, page).view = view
         /\ Opened(view, documents, page).rows = {}
         /\ Opened(view, documents, page).documents = documents
<1>1. NobodySeen \in [Document -> Nat]
  BY DEF NobodySeen
<1> QED
  BY <1>1 DEF Opened, Seen

\* It reads the newest versions, or nothing.
LEMMA StartKeeps ==
  ASSUME VInv, StartView
  PROVE  VInv'
<1> USE DEF VInv
<1>1. pc = "idle" /\ changed' = {} /\ UNCHANGED stored
  BY DEF StartView, StartAudit, StartOverview, StartList, StartDetail, DetailMissing, Open
<1>2. /\ Tables' /\ latest' = latest /\ latest \in [Document -> Nat]
      /\ NobodySeen \in [Document -> Nat] /\ None \in PageRequest \cup {None}
  BY <1>1, TablesStay DEF stored, Tables, NobodySeen
<1>3. CASE StartAudit
  <2>1. /\ pc' = "audit_versions"
        /\ seen' = Opened("audit", latest, None)
    BY <1>2, <1>3 DEF StartAudit, Open, NothingSeen, NobodySeen, Opened
  <2>2. /\ seen' \in Seen /\ seen'.view = "audit" /\ seen'.rows = {}
        /\ seen'.documents = latest
    BY <1>2, <2>1, OpenedType
  <2>3. Places'
    BY <2>1, <2>2 DEF Places, AuditPlaces, DetailPlaces, SearchPlaces
  <2> QED
    BY <1>1, <1>2, <2>1, <2>2, <2>3 DEF DocumentsFit, VersionsFit, RowsFit,
       AuditBlamesNoListed, ViewsAgree
<1>4. CASE StartOverview
  <2>1. /\ pc' = "overview_chunks"
        /\ seen' = Opened("overview", latest, None)
    BY <1>2, <1>4 DEF StartOverview, Open, NothingSeen, NobodySeen, Opened
  <2>2. /\ seen' \in Seen /\ seen'.view = "overview" /\ seen'.rows = {}
        /\ seen'.documents = latest
    BY <1>2, <2>1, OpenedType
  <2>3. Places'
    BY <2>1, <2>2 DEF Places, AuditPlaces, DetailPlaces, SearchPlaces
  <2> QED
    BY <1>1, <1>2, <2>1, <2>2, <2>3 DEF DocumentsFit, VersionsFit, RowsFit,
       AuditBlamesNoListed, ViewsAgree
<1>5. ASSUME NEW page \in PageRequest, StartList(page)
      PROVE  VInv'
  <2>1. /\ pc' = "list_page"
        /\ seen' = Opened("list", latest, page)
    BY <1>2, <1>5 DEF StartList, Open, NothingSeen, NobodySeen, Opened
  <2>2. /\ seen' \in Seen /\ seen'.view = "list" /\ seen'.rows = {}
        /\ seen'.documents = latest
    BY <1>2, <2>1, OpenedType
  <2>3. Places'
    BY <2>1, <2>2 DEF Places, AuditPlaces, DetailPlaces, SearchPlaces
  <2> QED
    BY <1>1, <1>2, <2>1, <2>2, <2>3 DEF DocumentsFit, VersionsFit, RowsFit,
       AuditBlamesNoListed, ViewsAgree
<1>6. ASSUME NEW d \in Document, StartDetail(d)
      PROVE  VInv'
  <2> DEFINE docs == [NobodySeen EXCEPT ![d] = latest[d]]
  <2>1. pc' = "detail_version" /\ seen' = Opened("detail", docs, None)
    BY <1>2, <1>6 DEF StartDetail, Open, NothingSeen, NobodySeen, Opened
  <2>2. docs \in [Document -> Nat] /\ \A e \in Document : docs[e] \in {0, latest[e]}
    BY <1>2 DEF NobodySeen
  <2> HIDE DEF docs
  <2>3. /\ seen' \in Seen /\ seen'.view = "detail" /\ seen'.rows = {}
        /\ seen'.documents = docs
    BY <1>2, <2>1, <2>2, OpenedType
  <2>4. Places'
    BY <2>1, <2>3 DEF Places, AuditPlaces, DetailPlaces, SearchPlaces
  <2> QED
    BY <1>1, <1>2, <2>1, <2>2, <2>3, <2>4 DEF DocumentsFit, VersionsFit, RowsFit,
       AuditBlamesNoListed, ViewsAgree
<1>7. ASSUME NEW d \in Document, DetailMissing(d)
      PROVE  VInv'
  <2>1. /\ pc' = "done"
        /\ seen' = Opened("missing", NobodySeen, None)
    BY <1>2, <1>7 DEF DetailMissing, Open, NothingSeen, NobodySeen, Opened
  <2>2. /\ seen' \in Seen /\ seen'.view = "missing" /\ seen'.rows = {}
        /\ seen'.documents = NobodySeen
    BY <1>2, <2>1, OpenedType
  <2>3. Places'
    BY <2>1, <2>2 DEF Places, AuditPlaces, DetailPlaces, SearchPlaces
  <2> QED
    BY <1>1, <1>2, <2>1, <2>2, <2>3 DEF DocumentsFit, VersionsFit, RowsFit,
       AuditBlamesNoListed, ViewsAgree, NobodySeen
<1> QED
  BY <1>3, <1>4, <1>5, <1>6, <1>7 DEF StartView

\* The audit's next statements.
LEMMA AuditKeeps ==
  ASSUME VInv, AuditVersions \/ AuditSections \/ AuditChunks
  PROVE  VInv'
<1> USE DEF VInv
<1>1. UNCHANGED <<stored, search>>
  BY DEF AuditVersions, AuditSections, AuditChunks, Read
<1>2. /\ Tables' /\ latest' = latest /\ chunks' = chunks /\ changed' = changed
      /\ latest \in [Document -> Nat] /\ Len(chunks) \in Nat
      /\ seen.view = "audit" /\ seen \in Seen
  BY <1>1, TablesStay DEF stored, search, Tables, AuditVersions, AuditSections, AuditChunks,
     Read, Places, AuditPlaces
<1>3. /\ \A i \in 1..Len(chunks) : /\ chunks[i].document \in Document
                                   /\ chunks[i].version \in Nat
      /\ \A d \in Document : seen.documents[d] \in Nat /\ seen.versions[d] \in Nat
  BY <1>2, ChunkFields, SeenFields DEF Tables
<1>4. CASE AuditVersions
  <2>1. /\ pc' = "audit_sections"
        /\ seen' = [seen EXCEPT !.versions = latest, !.without_text = EmptyVersions]
        /\ pc = "audit_versions" /\ seen.rows = {}
    BY <1>4 DEF AuditVersions, Read, Places
  <2>2. EmptyVersions \in SUBSET (Document \X Nat)
    BY SettingsAssumption DEF EmptyVersions, StoredVersions
  <2>3. ASSUME NEW d \in Document, NEW n \in 1..MaxVersions, n <= latest[d]
        PROVE  <<d, n>> \in EmptyVersions <=> ChunksOf(d, n) = {}
    BY <2>3 DEF EmptyVersions, StoredVersions
  <2>4. ASSUME NEW d \in Document, NEW n \in 1..MaxVersions, n <= latest[d]
        PROVE  <<d, n>> \in EmptyVersions <=> ChunksOf(d, n)' = {}
    BY <1>2, <2>3, <2>4 DEF ChunksOf
  <2>5. /\ seen' \in Seen /\ seen'.view = "audit" /\ seen'.rows = {}
        /\ seen'.documents = seen.documents /\ seen'.versions = latest
        /\ seen'.without_text = EmptyVersions
    BY <1>2, <2>1, <2>2 DEF Seen
  <2>6. Places'
    BY <2>1, <2>5 DEF Places, AuditPlaces, DetailPlaces, SearchPlaces
  <2>7. DocumentsFit' /\ RowsFit' /\ AuditBlamesNoListed' /\ ViewsAgree'
    BY <1>2, <2>1, <2>5 DEF DocumentsFit, RowsFit, AuditBlamesNoListed, ViewsAgree
  <2>8. VersionsFit'
    BY <1>2, <2>1, <2>4, <2>5 DEF VersionsFit, DocumentsFit
  <2> QED
    BY <1>2, <2>6, <2>7, <2>8
<1>5. CASE AuditSections
  <2>1. /\ pc' = "audit_chunks"
        /\ seen' = [seen EXCEPT !.sections = 1..Len(chunks)]
        /\ pc = "audit_sections" /\ seen.rows = {}
    BY <1>5 DEF AuditSections, Read, Places
  <2>2. /\ seen' \in Seen /\ seen'.view = "audit" /\ seen'.rows = {}
        /\ seen'.documents = seen.documents /\ seen'.versions = seen.versions
        /\ seen'.without_text = seen.without_text /\ seen'.sections = 1..Len(chunks)
    <3>1. 1..Len(chunks) \in SUBSET Nat /\ (1..Len(chunks)) \ seen.sections \in SUBSET Nat
      BY <1>2
    <3> QED
      BY <1>2, <2>1, <3>1 DEF Seen
  <2>3. Places'
    BY <2>1, <2>2 DEF Places, AuditPlaces, DetailPlaces, SearchPlaces
  <2>4. DocumentsFit' /\ RowsFit' /\ AuditBlamesNoListed' /\ ViewsAgree'
    BY <1>2, <2>1, <2>2 DEF DocumentsFit, RowsFit, AuditBlamesNoListed, ViewsAgree
  <2>5. VersionsFit'
    BY <1>2, <2>1, <2>2 DEF VersionsFit, ChunksOf
  <2> QED
    BY <1>2, <2>3, <2>4, <2>5
<1>6. CASE AuditChunks
  <2>1. /\ pc' = "done"
        /\ seen' = [seen EXCEPT !.chunks = Len(chunks),
                                !.without_section = (1..Len(chunks)) \ seen.sections]
        /\ pc = "audit_chunks" /\ seen.rows = {}
    BY <1>6 DEF AuditChunks, Read, Places
  <2>2. /\ seen' \in Seen /\ seen'.view = "audit" /\ seen'.rows = {}
        /\ seen'.documents = seen.documents /\ seen'.versions = seen.versions
        /\ seen'.without_text = seen.without_text /\ seen'.sections = seen.sections
        /\ seen'.chunks = Len(chunks)
        /\ seen'.without_section = (1..Len(chunks)) \ seen.sections
    <3>1. 1..Len(chunks) \in SUBSET Nat /\ (1..Len(chunks)) \ seen.sections \in SUBSET Nat
      BY <1>2
    <3> QED
      BY <1>2, <2>1, <3>1 DEF Seen
  <2>3. Places'
    BY <2>1, <2>2 DEF Places, AuditPlaces, DetailPlaces, SearchPlaces
  <2>4. DocumentsFit' /\ RowsFit' /\ VersionsFit' /\ ViewsAgree'
    BY <1>2, <2>1, <2>2 DEF DocumentsFit, RowsFit, VersionsFit, ViewsAgree
  <2>5. \A i \in (1..Len(chunks)) \ seen.sections :
          /\ ~(chunks[i].version <= seen.versions[chunks[i].document])
          /\ chunks[i].document \in changed
    BY <1>3, <2>1 DEF VersionsFit
  <2>6. ASSUME NEW d \in Document, NEW n \in 1..MaxVersions, n <= seen.versions[d]
        PROVE  <<d, n>> \in seen.without_text <=>
                 \A i \in 1..Len(chunks) : chunks[i].document # d \/ chunks[i].version # n
    BY <2>1, <2>6 DEF VersionsFit, ChunksOf
  <2>7. \A d \in Document : seen.documents[d] <= seen.versions[d]
    BY <2>1 DEF VersionsFit
  <2>8. AuditBlamesNoListed'
    BY <1>2, <2>2, <2>5, <2>6, <2>7 DEF AuditBlamesNoListed
  <2> QED
    BY <1>2, <2>3, <2>4, <2>8
<1> QED
  BY <1>4, <1>5, <1>6

\* The overview counts the chunks after the documents: at least those of all versions
\* that the documents had then.
LEMMA CountKeeps ==
  ASSUME VInv, CountChunks
  PROVE  VInv'
<1> USE DEF VInv
<1>1. /\ pc = "overview_chunks" /\ pc' = "done" /\ UNCHANGED <<stored, search>>
      /\ seen' = [seen EXCEPT !.chunks = Len(chunks)]
  BY DEF CountChunks, Read
<1>2. /\ Tables' /\ latest' = latest /\ chunks' = chunks /\ changed' = changed
      /\ Len(chunks) \in Nat
      /\ seen \in Seen /\ seen.view = "overview" /\ seen.rows = {}
  BY <1>1, TablesStay DEF stored, search, Tables, Places
<1>3. /\ seen' \in Seen /\ seen'.view = "overview" /\ seen'.rows = {}
      /\ seen'.documents = seen.documents /\ seen'.chunks = Len(chunks)
  BY <1>1, <1>2 DEF Seen
<1>4. Places'
  BY <1>1, <1>3 DEF Places, AuditPlaces, DetailPlaces, SearchPlaces
<1>5. DocumentsFit' /\ VersionsFit' /\ RowsFit' /\ AuditBlamesNoListed'
  BY <1>1, <1>2, <1>3 DEF DocumentsFit, VersionsFit, RowsFit, AuditBlamesNoListed
<1>6. ViewsAgree'
  <2> DEFINE old == {i \in 1..Len(chunks) :
                       chunks[i].version <= seen.documents[chunks[i].document]}
  <2>1. Cardinality(old) <= Len(chunks)
    BY CountsAreNat
  <2> QED
    BY <1>1, <1>2, <1>3, <2>1 DEF ViewsAgree
<1> QED
  BY <1>2, <1>4, <1>5, <1>6

\* A row counts the chunks that its version has.
LEMMA RowType ==
  ASSUME Tables, NEW d \in Document, NEW n \in Nat
  PROVE  /\ RowOf(d, n) \in Row
         /\ Cardinality(ChunksOf(d, n)) \in Nat
         /\ Status(d, n) \in {"draft", "active", "superseded"}
         /\ Status(d, n) = "active" <=> current[d] = n
<1>1. Cardinality(ChunksOf(d, n)) \in Nat
  BY CountsAreNat DEF ChunksOf
<1>2. Status(d, n) \in {"draft", "active", "superseded"}
  BY DEF Status
<1>3. Status(d, n) = "active" <=> current[d] = n
  BY DEF Status, Tables
<1> QED
  BY <1>1, <1>2, <1>3 DEF RowOf, Row

\* A page has as many rows as documents.
LEMMA PageIsFull ==
  ASSUME Tables, NEW D \in SUBSET Stored(latest)
  PROVE  Cardinality({RowOf(d, latest[d]) : d \in D}) = Cardinality(D)
<1> DEFINE rows == {RowOf(d, latest[d]) : d \in D}
           f == [d \in D |-> RowOf(d, latest[d])]
<1>1. IsFiniteSet(D)
  BY FS_Subset DEF Tables
<1>2. f \in [D -> rows]
  OBVIOUS
<1>3. \A a, b \in D : f[a] = f[b] => a = b
  BY DEF RowOf
<1>4. \A r \in rows : \E d \in D : f[d] = r
  OBVIOUS
<1>5. f \in Bijection(D, rows)
  BY <1>2, <1>3, <1>4, Fun_IsBij
<1> QED
  BY <1>1, <1>5, FS_Bijection DEF ExistsBijection

LEMMA PageKeeps ==
  ASSUME VInv, ReadPage
  PROVE  VInv'
<1> USE DEF VInv
<1>1. PICK D \in SUBSET Stored(latest) :
        /\ Cardinality(D) = PageSize(seen.page, Cardinality(Stored(latest)))
        /\ Read("list_page", [seen EXCEPT !.rows = {RowOf(d, latest[d]) : d \in D}], "done")
  BY DEF ReadPage
<1> DEFINE rows == {RowOf(d, latest[d]) : d \in D}
<1>2. /\ pc = "list_page" /\ pc' = "done" /\ UNCHANGED <<stored, search>>
      /\ seen' = [seen EXCEPT !.rows = rows]
  BY <1>1 DEF Read
<1>3. /\ Tables' /\ latest' = latest /\ chunks' = chunks /\ changed' = changed
      /\ current' = current /\ superseded' = superseded
      /\ seen \in Seen /\ seen.view = "list"
      /\ latest \in [Document -> Nat] /\ seen.documents \in [Document -> Nat]
  BY <1>2, TablesStay, SeenFields DEF stored, search, Tables, Places
<1>4. D \in SUBSET Document
  BY DEF Stored
<1>5. rows \in SUBSET Row
  BY <1>3, <1>4, RowType
<1>6. Cardinality(rows) = Cardinality(D)
  BY PageIsFull
<1>7. \A row \in rows :
        /\ row.document \in Document /\ row.version = latest[row.document]
        /\ row.chunk_count = Cardinality(ChunksOf(row.document, row.version))
        /\ row.section_count = Cardinality(ChunksOf(row.document, row.version))
        /\ row.publication_status = Status(row.document, row.version)
  BY <1>4 DEF RowOf
<1>8. \A row \in rows : row.publication_status = "active" <=>
                          current[row.document] = row.version
  BY <1>3, <1>7, RowType
<1> HIDE DEF rows
<1>9. /\ seen' \in Seen /\ seen'.view = "list" /\ seen'.rows = rows
      /\ seen'.documents = seen.documents /\ seen'.page = seen.page
  BY <1>2, <1>3, <1>5 DEF Seen
<1>10. Places'
  BY <1>2, <1>9 DEF Places, AuditPlaces, DetailPlaces, SearchPlaces
<1>11. DocumentsFit' /\ VersionsFit' /\ RowsFit' /\ AuditBlamesNoListed'
  BY <1>2, <1>3, <1>9 DEF DocumentsFit, VersionsFit, RowsFit, AuditBlamesNoListed
<1>12. changed = {} => seen.documents = latest
  BY <1>2, <1>3 DEF DocumentsFit
<1>13. ViewsAgree'
  <2>1. ASSUME NEW row \in rows
        PROVE  LET size == Cardinality({i \in 1..Len(chunks) :
                                          /\ chunks[i].document = row.document
                                          /\ chunks[i].version = row.version})
               IN  row.chunk_count = size /\ row.section_count = size
    BY <1>7 DEF ChunksOf
  <2>2. changed = {} => Cardinality(rows) =
                          PageSize(seen.page, Cardinality(Stored(seen.documents)))
    BY <1>1, <1>6, <1>12
  <2> QED
    BY <1>3, <1>7, <1>8, <1>9, <2>1, <2>2 DEF ViewsAgree, Stored, PageSize
<1> QED
  BY <1>3, <1>10, <1>11, <1>13

\* The details' next statements are about one row.
LEMMA DetailKeeps ==
  ASSUME VInv, DetailVersion \/ DetailChunks \/ DetailSections
  PROVE  VInv'
<1> USE DEF VInv
<1>1. UNCHANGED <<stored, search>> /\ pc \in DetailPlaces
  BY DEF DetailVersion, DetailChunks, DetailSections, Read, DetailPlaces
<1>2. /\ Tables' /\ latest' = latest /\ chunks' = chunks /\ changed' = changed
      /\ current' = current /\ superseded' = superseded
      /\ seen.view = "detail" /\ seen \in Seen
      /\ latest \in [Document -> Nat] /\ seen.documents \in [Document -> Nat]
  BY <1>1, TablesStay, SeenFields DEF stored, search, Tables, Places
<1>3. ASSUME NEW row \in Row, NEW next \in {"detail_chunks", "detail_sections", "done"},
             seen' = [seen EXCEPT !.rows = {row}], pc' = next
      PROVE  /\ seen'.rows = {row} /\ seen'.view = "detail" /\ Places'
             /\ DocumentsFit' /\ VersionsFit' /\ AuditBlamesNoListed'
  <2>1. /\ seen' \in Seen /\ seen'.view = "detail" /\ seen'.rows = {row}
        /\ seen'.documents = seen.documents
    BY <1>2, <1>3 DEF Seen
  <2>2. Places'
    BY <1>3, <2>1 DEF Places, AuditPlaces, DetailPlaces, SearchPlaces
  <2> QED
    BY <1>2, <1>3, <2>1, <2>2 DEF DocumentsFit, VersionsFit, AuditBlamesNoListed
<1>4. CASE DetailVersion
  <2>1. PICK d \in Stored(seen.documents) :
          /\ pc = "detail_version" /\ pc' = "detail_chunks"
          /\ seen' = [seen EXCEPT !.rows =
                        {[document |-> d, version |-> seen.documents[d],
                          chunk_count |-> 0, section_count |-> 0,
                          publication_status |-> Status(d, seen.documents[d])]}]
    BY <1>4 DEF DetailVersion, Read
  <2> DEFINE row == [document |-> d, version |-> seen.documents[d],
                     chunk_count |-> 0, section_count |-> 0,
                     publication_status |-> Status(d, seen.documents[d])]
  <2>2. d \in Document /\ seen.documents[d] \in Nat /\ seen.documents[d] > 0
    BY <1>2 DEF Stored
  <2>3. /\ seen.documents[d] <= latest[d]
        /\ d \notin changed => seen.documents[d] = latest[d]
    BY <2>1, <2>2 DEF DocumentsFit
  <2>4. /\ Status(d, seen.documents[d]) \in {"draft", "active", "superseded"}
        /\ Status(d, seen.documents[d]) = "active" <=> current[d] = seen.documents[d]
    BY <2>2, RowType
  <2>5. row \in Row
    BY <2>2, <2>4 DEF Row
  <2>6. /\ seen'.rows = {row} /\ Places'
        /\ DocumentsFit' /\ VersionsFit' /\ AuditBlamesNoListed'
    BY <1>3, <2>1, <2>5
  <2>7. RowsFit' /\ ViewsAgree'
    BY <1>2, <2>1, <2>3, <2>4, <2>6 DEF RowsFit, ViewsAgree
  <2> QED
    BY <1>2, <2>6, <2>7
<1>5. CASE DetailChunks
  <2>1. PICK r \in seen.rows :
          /\ pc = "detail_chunks" /\ pc' = "detail_sections"
          /\ seen' = [seen EXCEPT !.rows =
                        {[r EXCEPT !.chunk_count =
                            Cardinality(ChunksOf(r.document, r.version))]}]
    BY <1>5 DEF DetailChunks, Read
  <2> DEFINE row == [r EXCEPT !.chunk_count = Cardinality(ChunksOf(r.document, r.version))]
  <2>2. /\ r \in Row /\ r.document \in Document /\ r.version \in Nat
        /\ Cardinality(ChunksOf(r.document, r.version)) \in Nat
    BY <1>2, RowFields, RowType
  <2>3. /\ row \in Row /\ row.document = r.document /\ row.version = r.version
        /\ row.publication_status = r.publication_status
        /\ row.chunk_count = Cardinality(ChunksOf(r.document, r.version))
    BY <2>2 DEF Row
  <2> HIDE DEF row
  <2>4. /\ seen'.rows = {row} /\ Places'
        /\ DocumentsFit' /\ VersionsFit' /\ AuditBlamesNoListed'
    BY <1>3, <2>1, <2>3 DEF row
  <2>5. RowsFit'
    <3>1. /\ r.version <= latest[r.document]
          /\ r.document \notin changed =>
               /\ r.version = latest[r.document]
               /\ r.publication_status = "active" <=> current[r.document] = r.version
      BY <2>1 DEF RowsFit
    <3>2. row.chunk_count = Cardinality({i \in 1..Len(chunks') :
                                           /\ chunks'[i].document = row.document
                                           /\ chunks'[i].version = row.version})
      BY <1>2, <2>3 DEF ChunksOf
    <3> QED
      BY <1>2, <2>3, <2>4, <3>1, <3>2 DEF RowsFit, ChunksOf
  <2>6. ViewsAgree'
    BY <2>1 DEF ViewsAgree
  <2> QED
    BY <1>2, <2>4, <2>5, <2>6
<1>6. CASE DetailSections
  <2>1. PICK r \in seen.rows :
          /\ pc = "detail_sections" /\ pc' = "done"
          /\ seen' = [seen EXCEPT !.rows =
                        {[r EXCEPT !.section_count =
                            Cardinality(ChunksOf(r.document, r.version))]}]
    BY <1>6 DEF DetailSections, Read
  <2> DEFINE row == [r EXCEPT !.section_count = Cardinality(ChunksOf(r.document, r.version))]
  <2>2. /\ r \in Row /\ r.document \in Document /\ r.version \in Nat
        /\ Cardinality(ChunksOf(r.document, r.version)) \in Nat
    BY <1>2, RowFields, RowType
  <2>3. /\ row \in Row /\ row.document = r.document /\ row.version = r.version
        /\ row.publication_status = r.publication_status
        /\ row.chunk_count = r.chunk_count
        /\ row.section_count = Cardinality(ChunksOf(r.document, r.version))
    BY <2>2 DEF Row
  <2> HIDE DEF row
  <2>4. /\ seen'.rows = {row} /\ seen'.view = "detail" /\ Places'
        /\ DocumentsFit' /\ VersionsFit' /\ AuditBlamesNoListed'
    BY <1>3, <2>1, <2>3 DEF row
  <2>5. RowsFit'
    BY <2>1 DEF RowsFit
  <2>6. /\ r.chunk_count = Cardinality(ChunksOf(r.document, r.version))
        /\ r.document \notin changed =>
             /\ r.version = latest[r.document]
             /\ r.publication_status = "active" <=> current[r.document] = r.version
    BY <2>1 DEF RowsFit
  <2>7. ViewsAgree'
    BY <1>2, <2>3, <2>4, <2>6 DEF ViewsAgree, ChunksOf
  <2> QED
    BY <1>2, <2>4, <2>5, <2>7
<1> QED
  BY <1>4, <1>5, <1>6

\* Searches and what is done with their hits see nothing of the views.
LEMMA SearchKeeps ==
  ASSUME VInv, pc \in SearchPlaces \cup {"done"}, UNCHANGED stored,
         pc' \in SearchPlaces \cup {"done"}, seen' = NothingSeen
  PROVE  VInv'
<1> USE DEF VInv
<1>1. Tables' /\ latest' = latest /\ latest \in [Document -> Nat]
  BY TablesStay DEF stored, Tables
<1>2. /\ seen' \in Seen /\ seen'.rows = {} /\ seen'.view = "none"
      /\ \A d \in Document : seen'.documents[d] = 0 /\ seen'.versions[d] = 0
  BY NothingSeenType DEF NothingSeen
<1>3. Places'
  BY <1>2 DEF Places, AuditPlaces, DetailPlaces, SearchPlaces
<1>4. DocumentsFit' /\ VersionsFit' /\ RowsFit' /\ AuditBlamesNoListed' /\ ViewsAgree'
  BY <1>1, <1>2 DEF DocumentsFit, VersionsFit, RowsFit, AuditBlamesNoListed, ViewsAgree,
     SearchPlaces
<1> QED
  BY <1>1, <1>3, <1>4

LEMMA InitViews == Init => VInv
<1> SUFFICES ASSUME Init PROVE VInv
  OBVIOUS
<1>1. /\ chunks = <<>> /\ latest = [d \in Document |-> 0] /\ current = [d \in Document |-> 0]
      /\ superseded = {} /\ pc = "idle" /\ seen = NothingSeen
  BY DEF Init, RetrievalInit
<1>2. Tables
  <2>1. Stored(latest) = {}
    BY <1>1 DEF Stored
  <2>2. IsFiniteSet(Stored(latest))
    BY <2>1, FS_EmptySet
  <2> QED
    BY <1>1, <2>2 DEF Tables
<1>3. Places
  BY <1>1, NothingSeenType DEF Places, NothingSeen, AuditPlaces, DetailPlaces, SearchPlaces
<1>4. DocumentsFit /\ VersionsFit /\ RowsFit /\ AuditBlamesNoListed /\ ViewsAgree
  BY <1>1, NothingSeenType DEF DocumentsFit, VersionsFit, RowsFit, AuditBlamesNoListed,
     ViewsAgree
<1> QED
  BY <1>2, <1>3, <1>4 DEF VInv

LEMMA NextViews == VInv /\ [Next]_vars => VInv'
<1> SUFFICES ASSUME VInv, [Next]_vars PROVE VInv'
  OBVIOUS
<1>1. CASE OtherProcess /\ UNCHANGED <<seen, online>>
  <2>1. Tables' /\ Grows
    BY <1>1, IngestGrows, PublishGrows DEF OtherProcess, VInv
  <2> QED
    BY <1>1, <2>1, GrowsKeeps
<1>2. CASE SearchStep /\ UNCHANGED <<seen, online>>
  <2>1. /\ pc \in SearchPlaces /\ pc' \in SearchPlaces /\ UNCHANGED stored
    BY <1>2 DEF SearchStep, VectorSearch, KeywordSearch, Rank, SearchPlaces
  <2>2. seen' = NothingSeen
    BY <1>2, <2>1 DEF VInv, Places
  <2> QED
    BY <2>1, <2>2, SearchKeeps
<1>3. ASSUME NEW r \in Request, StartSearch(r), UNCHANGED <<seen, online>>
      PROVE  VInv'
  <2>1. /\ pc \in SearchPlaces /\ pc' \in SearchPlaces /\ UNCHANGED stored
    BY <1>3 DEF StartSearch, SearchPlaces
  <2>2. seen' = NothingSeen
    BY <1>3, <2>1 DEF VInv, Places
  <2> QED
    BY <2>1, <2>2, SearchKeeps
<1>4. CASE StartView
  BY <1>4, StartKeeps
<1>5. CASE ViewStep
  BY <1>5, AuditKeeps, CountKeeps, PageKeeps, DetailKeeps DEF ViewStep
<1>6. ASSUME ShowHits \/ Answer \/ \E items \in Submission : Review(items)
      PROVE  VInv'
  <2>1. pc = "respond" /\ pc' = "done" /\ UNCHANGED <<stored, search, seen>>
    BY <1>6 DEF ShowHits, Answer, Review, Respond
  <2>2. seen' = NothingSeen /\ pc \in SearchPlaces
    BY <2>1 DEF VInv, Places, SearchPlaces
  <2> QED
    BY <2>1, <2>2, SearchKeeps
<1>7. CASE Done
  BY <1>7, SearchKeeps DEF Done, SearchPlaces
<1>8. CASE UNCHANGED vars
  <2>1. /\ UNCHANGED <<chunks, latest, current, superseded, seen, pc, changed>>
    BY <1>8 DEF vars, stored, search
  <2>2. Tables'
    BY <2>1 DEF VInv, Tables, Stored
  <2>3. Places' /\ DocumentsFit'
    BY <2>1 DEF VInv, Places, DocumentsFit
  <2>4. VersionsFit' /\ RowsFit' /\ AuditBlamesNoListed'
    BY <2>1 DEF VInv, VersionsFit, RowsFit, AuditBlamesNoListed, ChunksOf
  <2>5. ViewsAgree'
    BY <2>1 DEF VInv, ViewsAgree, Stored, PageSize
  <2> QED
    BY <2>2, <2>3, <2>4, <2>5 DEF VInv
<1> QED
  BY <1>1, <1>2, <1>3, <1>4, <1>5, <1>6, <1>7, <1>8 DEF Next

\* At every moment a view knows what it needs: the tables hold together, its place
\* fits what it has read, and nothing that it has read of a version is overtaken.
THEOREM ViewsInvariant == Spec => []VInv
BY InitViews, NextViews, PTL DEF Spec

\* An audit's chunks without a section that have one are of versions that it does not
\* list, and of the versions that it lists it has read every chunk (run_quality_audit).
THEOREM AuditCorrect == Spec => []AuditBlamesNoListed
<1>1. VInv => AuditBlamesNoListed
  BY DEF VInv
<1> QED
  BY <1>1, ViewsInvariant, PTL

\* Every row of a view counts all chunks and sections of its version and tells what the
\* document is unless that was changed; pages are as full as their totals say
\* (get_document_detail, list_documents, get_overview).
THEOREM ViewsCorrect == Spec => []ViewsAgree
<1>1. VInv => ViewsAgree
  BY DEF VInv
<1> QED
  BY <1>1, ViewsInvariant, PTL

-----------------------------------------------------------------------------
\* Searches, and what is answered from them.

-----------------------------------------------------------------------------
\* The bounds on the tables, which only ingests come near.
Bounds == /\ Len(chunks) <= MaxChunks
          /\ IsFiniteSet(StoredVersions)
          /\ \A d \in Document : latest[d] <= MaxVersions /\ current[d] <= latest[d]
          /\ \A i \in 1..Len(chunks) : chunks[i].version >= 1

\* What a view has seen of the tables is still there.
SeenFits == /\ \A d \in Document : seen.versions[d] <= latest[d]
            /\ seen.sections \cup seen.without_section \subseteq 1..Len(chunks)
            /\ seen.chunks <= Len(chunks)
            /\ seen.without_text \subseteq Document \X (1..MaxVersions)

\* The variables of a search are filled one after the other.
Steps == /\ request \in Request
         /\ changed \subseteq Document
         /\ vectorHits \subseteq 1..Len(chunks)
         /\ keywordHits \subseteq 1..Len(chunks)
         /\ hits \in Seq(HitType)
         /\ pc \notin {"keyword", "rank", "respond", "done"} => vectorHits = {}
         /\ pc \notin {"rank", "respond", "done"} => keywordHits = {}
         /\ pc \notin {"respond", "done"} => hits = <<>>

\* What the first statement has recalled was visible then, at one moment; of a document
\* that nobody has touched since it still is.
VectorFresh ==
  /\ \A i \in vectorHits : request.document_id \in {None, chunks[i].document}
  /\ ~request.include_history =>
       /\ \A i, j \in vectorHits :
            chunks[i].document = chunks[j].document => chunks[i].version = chunks[j].version
       /\ \A i \in vectorHits : chunks[i].document \notin changed => Visible(chunks[i])

\* Only a hybrid search has a second statement.  After it nothing is read, so what it has
\* recalled is visible; it is all that there is with a keyword unless there is too much.
KeywordFresh ==
  /\ pc = "keyword" => Hybrid
  /\ \A i \in keywordHits : Visible(chunks[i])
  /\ pc \in {"rank", "respond"} =>
       /\ Hybrid /\ Cardinality(VisibleIds) <= PerSourceTopK =>
            keywordHits = {i \in VisibleIds : Value(i).keyword > 0}
       /\ ~Hybrid => keywordHits = {}

\* The hits are what ranking makes of what has been recalled.
RankFits ==
  /\ HitIds \subseteq vectorHits \cup keywordHits
  /\ hits # <<>> => Len(hits) <= request.top_k
  /\ pc = "respond" =>
       LET passing == Ranked({h \in Merged : Passes(h)})
       IN  hits = SubSeq(passing, 1, Min({request.top_k, Len(passing)}))

\* A response is what its purpose makes of the hits.
Responses ==
  /\ purpose = "none" => submitted = {} /\ outcome = NoOutcome
  /\ pc # "done" => purpose = "none"
  /\ purpose # "none" =>
       \/ /\ purpose = "search" /\ submitted = {}
          /\ outcome = [NoOutcome EXCEPT !.decision = "found", !.shown = AllHits]
       \/ /\ purpose = "ask" /\ submitted = {}
          /\ \/ hits # <<>> /\ outcome = Grounded
             \/ outcome = [NoOutcome EXCEPT !.decision = "fixed"]
             \/ outcome = [NoOutcome EXCEPT !.decision = "error"]
       \/ /\ purpose = "review" /\ submitted \subseteq Item
          /\ outcome = [decision |-> Decision(submitted), citations |-> Firsts(AnswerTopK),
                        shown |-> <<>>,
                        missing |-> IF Decision(submitted) = "fail"
                                    THEN Missing(submitted) ELSE {}]

SInv == /\ VInv /\ Bounds /\ SeenFits /\ Steps
        /\ VectorFresh /\ KeywordFresh /\ RankFits /\ Responses

-----------------------------------------------------------------------------
\* What a commit does to the bounds.

\* Versions are numbered without gaps, so a document has no more than are stored.
LEMMA IngestBound ==
  ASSUME Tables, Bounds, NEW d \in Document, NEW ps \in BoundedSeq(Profile, 2),
         Ingest(d, ps)
  PROVE  /\ latest[d] + 1 <= MaxVersions
         /\ IsFiniteSet(StoredVersions')
<1>1. /\ latest \in [Document -> Nat] /\ latest[d] \in Nat /\ MaxVersions \in Nat
      /\ latest[d] <= MaxVersions
      /\ Cardinality(StoredVersions) < MaxVersions
      /\ latest' = [latest EXCEPT ![d] = @ + 1]
  BY SettingsAssumption DEF Tables, Bounds, Ingest
<1>2. Cardinality({d} \X (1..latest[d])) = latest[d]
  <2>1. IsFiniteSet({d}) /\ Cardinality({d}) = 1
    BY FS_Singleton
  <2>2. IsFiniteSet(1..latest[d]) /\ Cardinality(1..latest[d]) = latest[d]
    BY <1>1, FS_Interval
  <2> QED
    BY <1>1, <2>1, <2>2, FS_Product
<1>3. {d} \X (1..latest[d]) \subseteq StoredVersions
  BY <1>1 DEF StoredVersions
<1>4. Cardinality({d} \X (1..latest[d])) <= Cardinality(StoredVersions)
  BY <1>3, FS_Subset DEF Bounds
<1>5. Cardinality(StoredVersions) \in Nat
  BY FS_CardinalityType DEF Bounds
<1>6. latest[d] + 1 <= MaxVersions
  BY <1>1, <1>2, <1>4, <1>5
<1>7. StoredVersions' = StoredVersions \cup {<<d, latest[d] + 1>>}
  BY <1>1, <1>6 DEF StoredVersions
<1>8. IsFiniteSet(StoredVersions')
  BY <1>7, FS_AddElement DEF Bounds
<1> QED
  BY <1>6, <1>8

LEMMA IngestKeepsBounds ==
  ASSUME Tables, Bounds, NEW d \in Document, NEW ps \in BoundedSeq(Profile, 2),
         Ingest(d, ps)
  PROVE  Bounds'
<1>1. Tables' /\ Grows
  BY IngestGrows
<1>2. latest[d] + 1 <= MaxVersions /\ IsFiniteSet(StoredVersions')
  BY IngestBound
<1>3. /\ latest \in [Document -> Nat] /\ current \in [Document -> Nat]
      /\ chunks \in Seq(Chunks) /\ chunks' \in Seq(Chunks)
      /\ MaxVersions \in Nat /\ MaxChunks \in Nat
      /\ latest' = [latest EXCEPT ![d] = @ + 1] /\ current' = current
  BY <1>1, SettingsAssumption DEF Tables, Ingest
<1>4. \A e \in Document : latest'[e] <= MaxVersions /\ current'[e] <= latest'[e]
  BY <1>2, <1>3 DEF Bounds
<1>5. Len(chunks') <= MaxChunks
  <2> DEFINE new == [i \in 1..Len(ps) |-> [document |-> d, version |-> latest[d] + 1,
                                           profile |-> ps[i]]]
  <2>1. ps \in Seq(Profile)
    BY ProfilesAreSeq
  <2>2. new \in Seq(Chunks) /\ Len(new) = Len(ps)
    BY <1>3, <2>1 DEF Chunks
  <2>3. chunks' = chunks \o new /\ Len(chunks) + Len(ps) <= MaxChunks
    BY DEF Ingest
  <2> HIDE DEF new
  <2>4. Len(chunks \o new) = Len(chunks) + Len(new)
    BY <1>3, <2>2, ConcatProperties, ZenonT(30)
  <2> QED
    BY <2>2, <2>3, <2>4
<1>6. \A i \in 1..Len(chunks') : chunks'[i].version >= 1
  <2> SUFFICES ASSUME NEW i \in 1..Len(chunks') PROVE chunks'[i].version >= 1
    OBVIOUS
  <2>1. chunks'[i].document \in Document /\ chunks'[i].version \in Nat
    BY <1>3, ChunkFields
  <2>2. CASE i \in 1..Len(chunks)
    BY <1>1, <2>2 DEF Grows, Bounds
  <2>3. CASE i \notin 1..Len(chunks)
    <3>1. chunks'[i].version > latest[chunks'[i].document]
      BY <1>1, <2>3 DEF Grows
    <3> QED
      BY <1>3, <2>1, <3>1
  <2> QED
    BY <2>2, <2>3
<1> QED
  BY <1>2, <1>4, <1>5, <1>6 DEF Bounds

LEMMA PublishKeepsBounds ==
  ASSUME Tables, Bounds, NEW d \in Document, NEW n \in 1..MaxVersions, Publish(d, n)
  PROVE  Bounds'
<1>1. /\ chunks' = chunks /\ latest' = latest /\ n <= latest[d]
      /\ current' = [current EXCEPT ![d] = n]
      /\ current \in [Document -> Nat] /\ latest \in [Document -> Nat]
  BY DEF Publish, Tables
<1>2. \A e \in Document : latest'[e] <= MaxVersions /\ current'[e] <= latest'[e]
  BY <1>1 DEF Bounds
<1> QED
  BY <1>1, <1>2 DEF Bounds, StoredVersions

LEMMA BoundsStay ==
  ASSUME Bounds, UNCHANGED stored
  PROVE  Bounds'
BY DEF Bounds, stored, StoredVersions

-----------------------------------------------------------------------------
\* What a commit leaves alone: the search's own variables, and the status of the
\* documents that it does not touch.
Apart == /\ UNCHANGED <<request, vectorHits, keywordHits, hits>>
         /\ changed' \subseteq changed \cup Document
         /\ pc # "idle" =>
              \A d \in Document \ changed', n \in Nat :
                <<d, n>> \in superseded' <=> <<d, n>> \in superseded

LEMMA OtherApart ==
  ASSUME Tables, OtherProcess
  PROVE  Apart
<1>1. ASSUME NEW d \in Document, NEW ps \in BoundedSeq(Profile, 2), Ingest(d, ps)
      PROVE  Apart
  BY <1>1 DEF Ingest, Touch, Apart
<1>2. ASSUME NEW d \in Document, NEW n \in 1..MaxVersions, Publish(d, n)
      PROVE  Apart
  <2>1. /\ UNCHANGED <<request, vectorHits, keywordHits, hits>>
        /\ changed' = IF pc = "idle" THEN changed ELSE changed \cup {d}
        /\ superseded' = (superseded \ {<<d, n>>})
                           \cup (IF current[d] = 0 THEN {} ELSE {<<d, current[d]>>})
    BY <1>2 DEF Publish, Touch
  <2> QED
    BY <2>1 DEF Apart
<1> QED
  BY <1>1, <1>2 DEF OtherProcess

LEMMA OtherKeeps ==
  ASSUME SInv, OtherProcess, UNCHANGED <<seen, online>>
  PROVE  SInv'
<1>1. VInv /\ Tables /\ Bounds /\ SeenFits /\ Steps /\ VectorFresh /\ Responses
  BY DEF SInv, VInv
<1>2. Tables' /\ Grows /\ Bounds' /\ Apart
  BY <1>1, OtherApart, IngestGrows, PublishGrows, IngestKeepsBounds, PublishKeepsBounds
     DEF OtherProcess
<1>3. VInv'
  BY <1>1, <1>2, GrowsKeeps
<1>4. /\ pc' = pc /\ pc \notin {"vector", "rank", "respond", "done"}
      /\ keywordHits = {} /\ hits = <<>> /\ (pc # "keyword" => vectorHits = {})
      /\ request' = request /\ vectorHits' = vectorHits /\ keywordHits' = {}
      /\ hits' = <<>> /\ seen' = seen
  BY <1>1, <1>2 DEF Grows, Reading, Steps, Apart
<1>5. /\ Len(chunks) \in Nat /\ Len(chunks') \in Nat /\ Len(chunks) <= Len(chunks')
      /\ \A i \in 1..Len(chunks) : chunks'[i] = chunks[i]
      /\ \A d \in Document : /\ latest[d] \in Nat /\ latest'[d] \in Nat
                             /\ latest[d] <= latest'[d]
  BY <1>1, <1>2 DEF Tables, Grows
<1>6. SeenFits'
  <2>1. \A d \in Document : seen.versions[d] \in Nat
    BY <1>1, SeenFields DEF VInv, Places
  <2>2. seen.chunks \in Nat
    BY <1>1, SeenFields DEF VInv, Places
  <2>3. \A d \in Document : seen.versions[d] <= latest'[d]
    BY <1>1, <1>5, <2>1 DEF SeenFits
  <2>4. seen.sections \cup seen.without_section \subseteq 1..Len(chunks')
    BY <1>1, <1>5 DEF SeenFits
  <2>5. seen.chunks <= Len(chunks')
    BY <1>1, <1>5, <2>2 DEF SeenFits
  <2> QED
    BY <1>1, <1>4, <2>3, <2>4, <2>5 DEF SeenFits
<1>7. Steps'
  BY <1>1, <1>2, <1>4, <1>5 DEF Steps, Apart
<1>8. VectorFresh'
  <2>1. vectorHits \subseteq 1..Len(chunks) /\ \A i \in vectorHits : chunks'[i] = chunks[i]
    BY <1>1, <1>5 DEF Steps
  <2>2. ASSUME NEW i \in vectorHits, ~request.include_history,
               chunks[i].document \notin changed'
        PROVE  Visible(chunks[i])'
    <3>1. chunks[i].document \in Document /\ chunks[i].version \in Nat
      BY <1>1, <2>1, ChunkFields DEF Tables
    <3>2. pc = "keyword"
      BY <1>4
    <3>3. /\ chunks[i].document \notin changed
          /\ latest'[chunks[i].document] = latest[chunks[i].document]
      BY <1>2, <2>2, <3>1, <3>2 DEF Grows
    <3>4. Visible(chunks[i])
      BY <1>1, <2>2, <3>3 DEF VectorFresh
    <3>5. <<chunks[i].document, chunks[i].version>> \notin superseded'
      BY <1>2, <2>2, <3>1, <3>2, <3>4 DEF Apart, Visible
    <3> QED
      BY <1>4, <2>1, <3>3, <3>4, <3>5 DEF Visible
  <2> QED
    BY <1>1, <1>4, <2>1, <2>2 DEF VectorFresh
<1>9. KeywordFresh'
  BY <1>4 DEF SInv, KeywordFresh, Hybrid
<1>10. RankFits'
  BY <1>4 DEF RankFits, HitIds
<1>11. Responses'
  BY <1>1, <1>4 DEF Responses, online
<1> QED
  BY <1>2, <1>3, <1>6, <1>7, <1>8, <1>9, <1>10, <1>11 DEF SInv

-----------------------------------------------------------------------------
LEMMA ViewLeaves ==
  ASSUME StartView \/ ViewStep
  PROVE  /\ UNCHANGED stored /\ UNCHANGED <<request, vectorHits, keywordHits, hits>>
         /\ changed' \in {{}, changed}
         /\ pc \in {"idle"} \cup ViewPlaces /\ pc' \in {"done"} \cup ViewPlaces
BY DEF StartView, StartAudit, StartOverview, StartList, StartDetail, DetailMissing, Open,
   ViewStep, AuditVersions, AuditSections, AuditChunks, CountChunks, ReadPage,
   DetailVersion, DetailChunks, DetailSections, Read, stored, search, ViewPlaces

\* The first statement of a view has seen no version and no chunk.
LEMMA StartSees ==
  ASSUME StartView
  PROVE  /\ \A d \in Document : seen'.versions[d] = 0
         /\ seen'.sections = {} /\ seen'.without_section = {} /\ seen'.chunks = 0
         /\ seen'.without_text = {}
<1> SUFFICES \E view, documents, page : seen' = Opened(view, documents, page)
  BY DEF Opened, NobodySeen
<1>1. CASE StartAudit
  BY <1>1 DEF StartAudit, Open, NothingSeen, Opened
<1>2. CASE StartOverview
  BY <1>2 DEF StartOverview, Open, NothingSeen, Opened
<1>3. ASSUME NEW page \in PageRequest, StartList(page)
      PROVE  seen' = Opened("list", latest, page)
  BY <1>3 DEF StartList, Open, NothingSeen, Opened
<1>4. ASSUME NEW d \in Document, StartDetail(d)
      PROVE  seen' = Opened("detail", [NobodySeen EXCEPT ![d] = latest[d]], None)
  BY <1>4 DEF StartDetail, Open, NothingSeen, Opened
<1>5. ASSUME NEW d \in Document, DetailMissing(d)
      PROVE  seen' = Opened("missing", NobodySeen, None)
  BY <1>5 DEF DetailMissing, Open, NothingSeen, Opened
<1> QED
  BY <1>1, <1>2, <1>3, <1>4, <1>5 DEF StartView

\* A view reads what is there, and leaves the search alone, which is not under way.
LEMMA ViewSeenFits ==
  ASSUME VInv, Bounds, SeenFits, StartView \/ ViewStep
  PROVE  SeenFits'
<1>1. /\ chunks' = chunks /\ latest' = latest /\ latest \in [Document -> Nat]
      /\ Len(chunks) \in Nat /\ seen \in Seen
  BY ViewLeaves DEF stored, VInv, Tables, Places
<1>2. CASE StartView
  <2>1. /\ \A d \in Document : seen'.versions[d] = 0
        /\ seen'.sections = {} /\ seen'.without_section = {} /\ seen'.chunks = 0
        /\ seen'.without_text = {}
    BY <1>2, StartSees
  <2> QED
    BY <1>1, <2>1 DEF SeenFits
<1>3. CASE AuditVersions
  <2>1. /\ seen'.versions = latest /\ seen'.without_text = EmptyVersions
        /\ seen'.sections = seen.sections /\ seen'.without_section = seen.without_section
        /\ seen'.chunks = seen.chunks
    BY <1>1, <1>3 DEF AuditVersions, Read, Seen
  <2>2. EmptyVersions \subseteq Document \X (1..MaxVersions)
    BY DEF EmptyVersions, StoredVersions
  <2> QED
    BY <1>1, <2>1, <2>2 DEF SeenFits
<1>4. CASE AuditSections
  <2>1. /\ seen'.versions = seen.versions /\ seen'.without_text = seen.without_text
        /\ seen'.sections = 1..Len(chunks) /\ seen'.without_section = seen.without_section
        /\ seen'.chunks = seen.chunks
    BY <1>1, <1>4 DEF AuditSections, Read, Seen
  <2> QED
    BY <1>1, <2>1 DEF SeenFits
<1>5. CASE AuditChunks
  <2>1. /\ seen'.versions = seen.versions /\ seen'.without_text = seen.without_text
        /\ seen'.sections = seen.sections
        /\ seen'.without_section = (1..Len(chunks)) \ seen.sections
        /\ seen'.chunks = Len(chunks)
    BY <1>1, <1>5 DEF AuditChunks, Read, Seen
  <2> QED
    BY <1>1, <2>1 DEF SeenFits
<1>6. CASE CountChunks
  <2>1. /\ seen'.versions = seen.versions /\ seen'.without_text = seen.without_text
        /\ seen'.sections = seen.sections /\ seen'.without_section = seen.without_section
        /\ seen'.chunks = Len(chunks)
    BY <1>1, <1>6 DEF CountChunks, Read, Seen
  <2> QED
    BY <1>1, <2>1 DEF SeenFits
<1>7. CASE ReadPage \/ DetailVersion \/ DetailChunks \/ DetailSections
  <2>1. \E R : seen' = [seen EXCEPT !.rows = R]
    BY <1>7 DEF ReadPage, DetailVersion, DetailChunks, DetailSections, Read
  <2>2. /\ seen'.versions = seen.versions /\ seen'.without_text = seen.without_text
        /\ seen'.sections = seen.sections /\ seen'.without_section = seen.without_section
        /\ seen'.chunks = seen.chunks
    BY <1>1, <2>1 DEF Seen
  <2> QED
    BY <1>1, <2>2 DEF SeenFits
<1> QED
  BY <1>2, <1>3, <1>4, <1>5, <1>6, <1>7 DEF ViewStep

LEMMA ViewKeeps ==
  ASSUME SInv, StartView \/ ViewStep, UNCHANGED online
  PROVE  SInv'
<1>1. VInv /\ Bounds /\ SeenFits /\ Steps /\ Responses
  BY DEF SInv
<1>2. VInv'
  BY <1>1, StartKeeps, AuditKeeps, CountKeeps, PageKeeps, DetailKeeps DEF ViewStep
<1>3. /\ UNCHANGED stored /\ UNCHANGED <<request, vectorHits, keywordHits, hits>>
      /\ changed' \in {{}, changed}
      /\ pc \in {"idle"} \cup ViewPlaces /\ pc' \in {"done"} \cup ViewPlaces
  BY ViewLeaves
<1>4. SeenFits' /\ Bounds'
  BY <1>1, <1>3, ViewSeenFits, BoundsStay
<1>5. /\ vectorHits = {} /\ keywordHits = {} /\ hits = <<>>
      /\ vectorHits' = {} /\ keywordHits' = {} /\ hits' = <<>> /\ request' = request
  BY <1>1, <1>3 DEF Steps, ViewPlaces
<1>6. Steps'
  BY <1>1, <1>3, <1>5 DEF Steps, stored
<1>7. VectorFresh' /\ KeywordFresh' /\ RankFits'
  <2>1. pc' \notin {"keyword", "rank", "respond"}
    BY <1>3 DEF ViewPlaces
  <2> QED
    BY <1>5, <2>1 DEF VectorFresh, KeywordFresh, RankFits, HitIds
<1>8. Responses'
  BY <1>1, <1>3 DEF Responses, online, ViewPlaces
<1> QED
  BY <1>2, <1>4, <1>6, <1>7, <1>8 DEF SInv

-----------------------------------------------------------------------------
\* The two statements of a search.

\* Requests ask for at least one chunk, so each statement is asked for some.
LEMMA LimitType ==
  ASSUME request \in Request
  PROVE  /\ request.top_k \in Nat /\ request.top_k >= 1
         /\ PerSourceTopK \in Nat /\ PerSourceTopK >= 1
<1>1. request.top_k \in 1..TopKMax
  BY SettingsAssumption DEF Request
<1>2. TopKMax \in Int
  BY SettingsAssumption
<1>3. PerSourceTopK = IF TopKMax <= 2 * request.top_k THEN TopKMax ELSE 2 * request.top_k
  BY <1>1, <1>2, MinOfTwo DEF PerSourceTopK
<1> QED
  BY <1>1, <1>2, <1>3

\* A step of a search reads the tables, but does not change them.
LEMMA SearchLeaves ==
  ASSUME SInv, UNCHANGED <<stored, seen>>, pc \in SearchPlaces, pc' \in SearchPlaces
  PROVE  VInv' /\ Bounds' /\ SeenFits' /\ Len(chunks) \in Nat
<1>1. seen' = NothingSeen
  BY DEF SInv, VInv, Places
<1>2. VInv'
  BY <1>1, SearchKeeps DEF SInv, stored
<1> QED
  BY <1>2, BoundsStay DEF SInv, SeenFits, stored, VInv, Tables

LEMMA StartSearchKeeps ==
  ASSUME SInv, NEW r \in Request, StartSearch(r), UNCHANGED <<seen, online>>
  PROVE  SInv'
<1>1. /\ pc = "idle" /\ pc' = "vector" /\ request' = r /\ changed' = {}
      /\ UNCHANGED <<stored, vectorHits, keywordHits, hits>>
      /\ vectorHits = {} /\ keywordHits = {} /\ hits = <<>>
  BY DEF StartSearch, SInv, Steps
<1>2. VInv' /\ Bounds' /\ SeenFits'
  BY <1>1, SearchLeaves DEF SearchPlaces
<1>3. Steps'
  BY <1>1 DEF SInv, Steps, stored
<1>4. VectorFresh' /\ KeywordFresh' /\ RankFits'
  BY <1>1 DEF VectorFresh, KeywordFresh, RankFits, HitIds
<1>5. Responses'
  BY <1>1 DEF SInv, Responses, online
<1> QED
  BY <1>2, <1>3, <1>4, <1>5 DEF SInv

\* What the first statement recalls is visible.
LEMMA VectorSearchKeeps ==
  ASSUME SInv, VectorSearch, UNCHANGED <<seen, online>>
  PROVE  SInv'
<1>1. /\ pc = "vector" /\ pc' = (IF Hybrid THEN "keyword" ELSE "rank")
      /\ UNCHANGED <<stored, request, keywordHits, hits, changed>>
      /\ keywordHits = {} /\ hits = <<>>
  BY DEF VectorSearch, Hybrid, SInv, Steps
<1>2. VInv' /\ Bounds' /\ SeenFits'
  BY <1>1, SearchLeaves DEF SearchPlaces
<1>3. vectorHits' \subseteq VisibleIds
  BY DEF VectorSearch, VectorTops
<1>4. /\ vectorHits' \subseteq 1..Len(chunks)
      /\ \A i \in vectorHits' : Visible(chunks[i])
  BY <1>3 DEF VisibleIds
<1>5. Steps'
  BY <1>1, <1>4 DEF SInv, Steps, stored
<1>6. VectorFresh'
  <2>1. \A i \in vectorHits' : Visible(chunks[i])'
    BY <1>1, <1>4 DEF Visible, stored
  <2>2. \A i \in vectorHits' : request.document_id \in {None, chunks[i].document}
    BY <1>4 DEF Visible
  <2>3. ~request.include_history =>
          \A i \in vectorHits' : chunks[i].version = latest[chunks[i].document]
    BY <1>4 DEF Visible
  <2> QED
    BY <1>1, <2>1, <2>2, <2>3 DEF VectorFresh, stored
<1>7. KeywordFresh'
  BY <1>1 DEF KeywordFresh, Hybrid
<1>8. RankFits'
  BY <1>1 DEF RankFits, HitIds
<1>9. Responses'
  BY <1>1 DEF SInv, Responses, online
<1> QED
  BY <1>2, <1>5, <1>6, <1>7, <1>8, <1>9 DEF SInv

\* Fewer than k chunks are no more than the top k.
LEMMA KeywordTopOfFew ==
  ASSUME NEW S, IsFiniteSet(S), NEW k \in Nat, Cardinality(S) <= k,
         \A i \in S : i \in Nat /\ Value(i).keyword \in Nat
  PROVE  KeywordTop(S, k) = S
<1> SUFFICES ASSUME NEW i \in S
             PROVE  Cardinality({j \in S : KeywordBefore(j, i)}) < k
  BY DEF KeywordTop
<1>1. ~KeywordBefore(i, i)
  BY DEF KeywordBefore
<1>2. {j \in S : KeywordBefore(j, i)} \subseteq S \ {i}
  BY <1>1
<1>3. IsFiniteSet(S \ {i}) /\ Cardinality(S \ {i}) = Cardinality(S) - 1
  BY FS_RemoveElement
<1>4. Cardinality({j \in S : KeywordBefore(j, i)}) <= Cardinality(S \ {i})
  BY <1>2, <1>3, FS_Subset
<1>5. /\ Cardinality(S) \in Nat
      /\ Cardinality({j \in S : KeywordBefore(j, i)}) \in Nat
  BY <1>2, <1>3, FS_Subset, FS_CardinalityType
<1> QED
  BY <1>3, <1>4, <1>5

\* What a chunk is worth to the query.
LEMMA ValueType ==
  ASSUME Tables, NEW i \in 1..Len(chunks)
  PROVE  /\ Value(i) \in Profile
         /\ Value(i).vector \in Int /\ Value(i).vector <= 1000
         /\ Value(i).keyword \in Nat
         /\ Value(i).rerank \in 0..1000 /\ Value(i).coverage \in 0..1000
<1>1. chunks[i] \in Chunks
  BY ElementOfSeq DEF Tables
<1>2. Value(i) \in Profile
  BY <1>1 DEF Value, Chunks
<1> QED
  BY <1>2, ProfileAssumption

LEMMA KeywordSearchKeeps ==
  ASSUME SInv, KeywordSearch, UNCHANGED <<seen, online>>
  PROVE  SInv'
<1> DEFINE found == {i \in VisibleIds : Value(i).keyword > 0}
<1>1. /\ pc = "keyword" /\ pc' = "rank"
      /\ UNCHANGED <<stored, request, vectorHits, hits, changed>>
      /\ hits = <<>>
      /\ keywordHits' = KeywordTop(found, PerSourceTopK)
  BY DEF KeywordSearch, SInv, Steps
<1>2. VInv' /\ Bounds' /\ SeenFits' /\ Len(chunks) \in Nat /\ Tables
  BY <1>1, SearchLeaves DEF SearchPlaces, SInv, VInv
<1>3. keywordHits' \subseteq found /\ found \subseteq VisibleIds
  BY <1>1 DEF KeywordTop
<1>4. /\ keywordHits' \subseteq 1..Len(chunks)
      /\ \A i \in keywordHits' : Visible(chunks[i])
  BY <1>3 DEF VisibleIds
<1>5. Steps'
  BY <1>1, <1>4 DEF SInv, Steps, stored
<1>6. VectorFresh'
  BY <1>1 DEF SInv, VectorFresh, stored, Visible
<1>7. KeywordFresh'
  <2>1. \A i \in keywordHits' : Visible(chunks[i])'
    BY <1>1, <1>4 DEF Visible, stored
  <2>2. ASSUME Cardinality(VisibleIds) <= PerSourceTopK
        PROVE  keywordHits' = found
    <3>1. VisibleIds \subseteq 1..Len(chunks)
      BY DEF VisibleIds
    <3>2. IsFiniteSet(1..Len(chunks))
      BY <1>2, FS_Interval
    <3>3. IsFiniteSet(VisibleIds)
      BY <3>1, <3>2, FS_Subset
    <3>4. /\ IsFiniteSet(found) /\ Cardinality(found) <= Cardinality(VisibleIds)
          /\ Cardinality(found) \in Nat /\ Cardinality(VisibleIds) \in Nat
      BY <1>3, <3>3, FS_Subset, FS_CardinalityType
    <3>5. PerSourceTopK \in Nat /\ Cardinality(found) <= PerSourceTopK
      BY <2>2, <3>4, LimitType DEF SInv, Steps
    <3>6. \A i \in found : i \in Nat /\ Value(i).keyword \in Nat
      BY <1>2, <1>3, <3>1, ValueType
    <3> QED
      BY <1>1, <3>4, <3>5, <3>6, KeywordTopOfFew
  <2>3. VisibleIds' = VisibleIds /\ PerSourceTopK' = PerSourceTopK /\ Hybrid' = Hybrid
    BY <1>1 DEF VisibleIds, Visible, PerSourceTopK, Hybrid, stored
  <2>4. \A i : Value(i)' = Value(i)
    BY <1>1 DEF Value, stored
  <2>5. Hybrid
    BY <1>1 DEF SInv, KeywordFresh
  <2> QED
    BY <1>1, <2>1, <2>2, <2>3, <2>4, <2>5 DEF KeywordFresh
<1>8. RankFits'
  BY <1>1 DEF RankFits, HitIds
<1>9. Responses'
  BY <1>1 DEF SInv, Responses, online
<1> QED
  BY <1>2, <1>5, <1>6, <1>7, <1>8, <1>9 DEF SInv

-----------------------------------------------------------------------------
\* Ranking: scores are in thousandths, and the order of the hits is total.

\* What a score may be.
Thousandths == 0..1000

LEMMA CappedType ==
  ASSUME NEW x \in Int, x <= 1000
  PROVE  Max({0, x}) \in Thousandths
<1>1. Max({0, x}) = IF 0 >= x THEN 0 ELSE x
  BY MaxOfTwo
<1> QED
  BY <1>1 DEF Thousandths

LEMMA FuseType ==
  ASSUME NEW v \in Thousandths, NEW k \in Thousandths
  PROVE  Fuse(v, k) \in Thousandths
<1> USE DEF Thousandths
<1>1. /\ Max({v, k}) = IF v >= k THEN v ELSE k
      /\ Min({v, k}) = IF v <= k THEN v ELSE k
  <2>1. v \in Int /\ k \in Int
    OBVIOUS
  <2> QED
    BY <2>1, MaxOfTwo, MinOfTwo
<1>2. CASE v > 0 /\ k > 0
  <2> DEFINE sum == Max({v, k}) + Min({v, k}) \div 4
  <2>1. sum \in Nat
    BY <1>1
  <2> HIDE DEF sum
  <2>2. Min({1000, sum}) = IF 1000 <= sum THEN 1000 ELSE sum
    BY <2>1, MinOfTwo
  <2>3. Fuse(v, k) = Min({1000, sum})
    BY <1>2 DEF Fuse, sum
  <2> QED
    BY <2>1, <2>2, <2>3
<1>3. CASE ~(v > 0 /\ k > 0)
  BY <1>1, <1>3 DEF Fuse
<1> QED
  BY <1>2, <1>3

LEMMA RerankType ==
  ASSUME NEW score \in Thousandths, NEW signal \in Thousandths
  PROVE  Rerank(score, signal) \in Thousandths
<1> USE DEF Thousandths
<1> DEFINE sum == score + (4 * signal) \div 10
<1>1. sum \in Nat
  OBVIOUS
<1> HIDE DEF sum
<1>2. Min({1000, sum}) = IF 1000 <= sum THEN 1000 ELSE sum
  BY <1>1, MinOfTwo
<1>3. Rerank(score, signal) = Min({1000, sum})
  BY DEF Rerank, sum
<1> QED
  BY <1>1, <1>2, <1>3

LEMMA HitIsTyped ==
  ASSUME Tables, Bounds, NEW i \in 1..Len(chunks)
  PROVE  Hit(i) \in HitType /\ Hit(i).chunk = i
<1>1. /\ Value(i).vector \in Int /\ Value(i).vector <= 1000 /\ Value(i).keyword \in Nat
      /\ Value(i).rerank \in 0..1000 /\ Value(i).coverage \in 0..1000
  BY ValueType
<1>2. VectorScore(i) \in Thousandths
  <2>1. Max({0, Value(i).vector}) \in Thousandths
    BY <1>1, CappedType
  <2>2. 0 \in Thousandths
    BY DEF Thousandths
  <2> QED
    BY <2>1, <2>2 DEF VectorScore
<1>3. KeywordScore(i) \in Thousandths
  <2> DEFINE k == Value(i).keyword
  <2>1. k \in Nat
    BY <1>1
  <2> HIDE DEF k
  <2>2. Min({1000, k}) \in Thousandths
    <3>1. Min({1000, k}) = IF 1000 <= k THEN 1000 ELSE k
      BY <2>1, MinOfTwo
    <3>2. CASE 1000 <= k
      <4>1. 1000 \in Thousandths
        BY DEF Thousandths
      <4> QED
        BY <3>1, <3>2, <4>1
    <3>3. CASE ~(1000 <= k)
      <4>1. k \in Thousandths
        BY <2>1, <3>3 DEF Thousandths
      <4> QED
        BY <3>1, <3>3, <4>1
    <3> QED
      BY <3>2, <3>3
  <2>3. 0 \in Thousandths
    BY DEF Thousandths
  <2> QED
    BY <2>2, <2>3 DEF KeywordScore, k
<1>4. Signal(i).rerank \in Thousandths /\ Signal(i).coverage \in Thousandths
  BY <1>1 DEF Signal, Thousandths
<1>5. Fuse(VectorScore(i), KeywordScore(i)) \in Thousandths
  BY <1>2, <1>3, FuseType
<1>6. Rerank(Fuse(VectorScore(i), KeywordScore(i)), Signal(i).rerank) \in Thousandths
  BY <1>4, <1>5, RerankType
<1>7. i \in Id
  BY SettingsAssumption DEF Id, Bounds, Tables
<1> DEFINE source == CASE KeywordScore(i) = 0 -> "vector"
                       [] KeywordScore(i) > 0 /\ VectorScore(i) = 0 -> "keyword"
                       [] OTHER -> "hybrid"
           score == IF Hybrid THEN Rerank(Fuse(VectorScore(i), KeywordScore(i)), Signal(i).rerank)
                    ELSE Fuse(VectorScore(i), KeywordScore(i))
<1>8. source \in {"vector", "keyword", "hybrid"} /\ score \in Thousandths
  BY <1>2, <1>3, <1>5, <1>6 DEF Thousandths
<1>9. Hit(i) = [chunk |-> i, vector |-> VectorScore(i), keyword |-> KeywordScore(i),
                rerank |-> Signal(i).rerank, coverage |-> Signal(i).coverage,
                retrieval_source |-> source, score |-> score]
  BY DEF Hit
<1> HIDE DEF source, score
<1> QED
  BY <1>2, <1>3, <1>4, <1>7, <1>8, <1>9 DEF HitType, Thousandths

\* The sort key is a sequence of five numbers; it determines the chunk.
Key(h) == <<-h.score, -h.rerank, -h.keyword, -h.vector, h.chunk>>

LEMMA KeyType ==
  ASSUME NEW h \in HitType
  PROVE  /\ Key(h) \in [1..5 -> Int]
         /\ Key(h)[1] = -h.score /\ Key(h)[5] = h.chunk
         /\ h.score \in Int
<1>1. /\ h.score \in Int /\ -h.score \in Int /\ -h.rerank \in Int
      /\ -h.keyword \in Int /\ -h.vector \in Int /\ h.chunk \in Int
  <2>1. h.score \in Int /\ -h.score \in Int
    BY DEF HitType
  <2>2. -h.rerank \in Int
    BY DEF HitType
  <2>3. -h.keyword \in Int
    BY DEF HitType
  <2>4. -h.vector \in Int
    BY DEF HitType
  <2>5. h.chunk \in Int
    BY DEF HitType, Id
  <2> QED
    BY <2>1, <2>2, <2>3, <2>4, <2>5
<1>2. \A a, b, c, d, e \in Int : <<a, b, c, d, e>> \in [1..5 -> Int]
  <2> SUFFICES ASSUME NEW a \in Int, NEW b \in Int, NEW c \in Int, NEW d \in Int,
                      NEW e \in Int
               PROVE  <<a, b, c, d, e>> \in [1..5 -> Int]
    OBVIOUS
  <2>1. <<a, b, c, d, e>> \in Seq(Int) /\ Len(<<a, b, c, d, e>>) = 5
    OBVIOUS
  <2> QED
    BY <2>1, LenProperties
<1>3. Key(h) \in [1..5 -> Int]
  BY <1>1, <1>2, Zenon DEF Key
<1> QED
  BY <1>1, <1>3 DEF Key

LEMMA HitBeforeIsLexical ==
  ASSUME NEW a, NEW b
  PROVE  HitBefore(a, b) <=> Lexical(Key(a), Key(b), 5)
BY DEF HitBefore, Lexical, Key

\* Who comes before scores no less.
LEMMA BeforeIsBetter ==
  ASSUME NEW a \in HitType, NEW b \in HitType, HitBefore(a, b)
  PROVE  a.score >= b.score
<1>1. PICK n \in 1..5 : /\ Key(a)[n] < Key(b)[n]
                        /\ \A m \in 1..(n - 1) : Key(a)[m] = Key(b)[m]
  BY HitBeforeIsLexical DEF Lexical
<1>2. Key(a)[1] <= Key(b)[1]
  <2>1. Key(a)[1] \in Int /\ Key(b)[1] \in Int
    BY KeyType
  <2>2. CASE n = 1
    BY <1>1, <2>1, <2>2
  <2>3. CASE n # 1
    <3>1. 1 \in 1..(n - 1)
      BY <2>3
    <3> QED
      BY <1>1, <2>1, <3>1
  <2> QED
    BY <2>2, <2>3
<1> QED
  BY <1>2, KeyType

HitOrder == {p \in HitType \X HitType : HitBefore(p[1], p[2])}

\* Of hits about different chunks one comes before the other.
LEMMA HitOrderIsTotal ==
  ASSUME NEW H \in SUBSET HitType, \A a, b \in H : a.chunk = b.chunk => a = b
  PROVE  TotalOrder(HitOrder, H)
<1>1. \A a, b \in H : <<a, b>> \in HitOrder <=> Lexical(Key(a), Key(b), 5)
  BY HitBeforeIsLexical DEF HitOrder
<1>2. \A a \in H : Key(a) \in [1..5 -> Int] /\ Key(a)[5] = a.chunk
  BY KeyType
<1>3. \A a, b \in H : Key(a) = Key(b) => a = b
  BY <1>2
<1>4. \A a, b, c \in H :
        /\ ~Lexical(Key(a), Key(a), 5)
        /\ Lexical(Key(a), Key(b), 5) /\ Lexical(Key(b), Key(c), 5)
             => Lexical(Key(a), Key(c), 5)
        /\ Key(a) = Key(b) \/ Lexical(Key(a), Key(b), 5) \/ Lexical(Key(b), Key(a), 5)
  BY <1>2, LexicalOrder
<1> QED
  BY <1>1, <1>3, <1>4, Zenon DEF TotalOrder

\* So ranking lists the hits, each once.
LEMMA RankedIsList ==
  ASSUME Tables, Bounds, NEW H, H \subseteq {Hit(i) : i \in 1..Len(chunks)}
  PROVE  /\ IsFiniteSet(H) /\ Cardinality(H) \in Nat
         /\ H \subseteq HitType
         /\ Ranked(H) \in [1..Cardinality(H) -> H]
         /\ \A m, n \in 1..Cardinality(H) : m < n => HitBefore(Ranked(H)[m], Ranked(H)[n])
         /\ \A m, n \in 1..Cardinality(H) : Ranked(H)[m] = Ranked(H)[n] => m = n
         /\ \A h \in H : \E n \in 1..Cardinality(H) : Ranked(H)[n] = h
<1>1. \A i \in 1..Len(chunks) : Hit(i) \in HitType /\ Hit(i).chunk = i
  BY HitIsTyped
<1>2. /\ H \subseteq HitType
      /\ \A a, b \in H : a.chunk = b.chunk => a = b
  BY <1>1
<1>3. TotalOrder(HitOrder, H)
  BY <1>2, HitOrderIsTotal
<1>4. IsFiniteSet(H)
  <2> DEFINE all == {Hit(i) : i \in 1..Len(chunks)}
             f == [i \in 1..Len(chunks) |-> Hit(i)]
  <2>1. IsFiniteSet(1..Len(chunks))
    BY FS_Interval DEF Tables
  <2>2. f \in Surjection(1..Len(chunks), all)
    BY Fun_IsSurj
  <2>3. IsFiniteSet(all)
    BY <2>1, <2>2, FS_Surjection
  <2> QED
    BY <2>3, FS_Subset
<1>5. \E s : Listing(s, HitOrder, H)
  BY <1>3, <1>4, Listed
<1>6. \A s : Listing(s, HitOrder, H) <=>
              /\ s \in [1..Cardinality(H) -> H]
              /\ \A m, n \in 1..Cardinality(H) : m < n => HitBefore(s[m], s[n])
  BY <1>2 DEF Listing, HitOrder
<1>7. /\ Ranked(H) \in [1..Cardinality(H) -> H]
      /\ \A m, n \in 1..Cardinality(H) : m < n => HitBefore(Ranked(H)[m], Ranked(H)[n])
  BY <1>5, <1>6 DEF Ranked
<1>8. Listing(Ranked(H), HitOrder, H)
  BY <1>6, <1>7
<1>9. /\ \A m, n \in 1..Cardinality(H) : Ranked(H)[m] = Ranked(H)[n] => m = n
      /\ \A h \in H : \E n \in 1..Cardinality(H) : Ranked(H)[n] = h
  <2>1. ASSUME NEW s, Listing(s, HitOrder, H)
        PROVE  /\ \A m, n \in 1..Cardinality(H) : s[m] = s[n] => m = n
               /\ \A h \in H : \E n \in 1..Cardinality(H) : s[n] = h
    BY <1>3, <1>4, <2>1, ListIsComplete
  <2> QED
    BY <1>8, <2>1
<1> QED
  BY <1>2, <1>4, <1>7, <1>9, FS_CardinalityType

Top(H, k) == SubSeq(Ranked(H), 1, Min({k, Len(Ranked(H))}))

\* The first k in the order: no more than k, no more than there are, and everything
\* that is not among them comes after.
LEMMA TopOfRanked ==
  ASSUME Tables, Bounds, NEW H, H \subseteq {Hit(i) : i \in 1..Len(chunks)}, NEW k \in Nat
  PROVE  /\ Top(H, k) \in Seq(H)
         /\ Len(Top(H, k)) = IF k <= Cardinality(H) THEN k ELSE Cardinality(H)
         /\ \A m, n \in 1..Len(Top(H, k)) : m < n => HitBefore(Top(H, k)[m], Top(H, k)[n])
         /\ \A m, n \in 1..Len(Top(H, k)) : Top(H, k)[m] = Top(H, k)[n] => m = n
         /\ \A h \in H : \/ \E n \in 1..Len(Top(H, k)) : Top(H, k)[n] = h
                         \/ \A n \in 1..Len(Top(H, k)) : HitBefore(Top(H, k)[n], h)
<1> DEFINE top == Top(H, k)
           s == Ranked(H)
           C == Cardinality(H)
           L == Min({k, Len(s)})
<1>1. /\ IsFiniteSet(H) /\ C \in Nat /\ s \in [1..C -> H]
      /\ \A m, n \in 1..C : m < n => HitBefore(s[m], s[n])
      /\ \A m, n \in 1..C : s[m] = s[n] => m = n
      /\ \A h \in H : \E n \in 1..C : s[n] = h
  BY RankedIsList
<1>2. s \in Seq(H) /\ Len(s) = C
  BY <1>1
<1> HIDE DEF s, C, top
<1>3. L = (IF k <= C THEN k ELSE C) /\ L \in Nat /\ L <= C
  BY <1>1, <1>2, MinOfTwo
<1> HIDE DEF L
<1>4. L \in Nat /\ L <= C /\ \A n \in 1..L : n \in 1..C
  BY <1>1, <1>3
<1>5. /\ top \in Seq(H) /\ Len(top) = L
      /\ \A n \in 1..L : top[n] = s[n]
  <2>1. top = SubSeq(s, 1, L)
    BY DEF top, Top, s, L
  <2>2. \A n \in 1..L : s[n] \in H
    BY <1>1, <1>4
  <2>3. /\ SubSeq(s, 1, L) \in Seq(H)
        /\ Len(SubSeq(s, 1, L)) = IF 1 <= L THEN L - 1 + 1 ELSE 0
        /\ \A n \in 1..(L - 1 + 1) : SubSeq(s, 1, L)[n] = s[1 + n - 1]
    BY <1>4, <2>2, SubSeqProperties
  <2>4. L - 1 + 1 = L /\ (IF 1 <= L THEN L ELSE 0) = L /\ \A n \in 1..L : 1 + n - 1 = n
    BY <1>4
  <2> QED
    BY <2>1, <2>3, <2>4
<1>6. /\ \A m, n \in 1..L : m < n => HitBefore(top[m], top[n])
      /\ \A m, n \in 1..L : top[m] = top[n] => m = n
  <2> SUFFICES ASSUME NEW m \in 1..L, NEW n \in 1..L
               PROVE  /\ m < n => HitBefore(top[m], top[n])
                      /\ top[m] = top[n] => m = n
    BY Zenon
  <2>1. m \in 1..C /\ n \in 1..C /\ top[m] = s[m] /\ top[n] = s[n]
    BY <1>4, <1>5
  <2> QED
    BY <1>1, <2>1, Zenon
<1>7. ASSUME NEW h \in H
      PROVE  \/ \E n \in 1..L : top[n] = h
             \/ \A n \in 1..L : HitBefore(top[n], h)
  <2>1. PICK p \in 1..C : s[p] = h
    BY <1>1
  <2>2. CASE p \in 1..L
    BY <1>5, <2>1, <2>2
  <2>3. CASE p \notin 1..L
    <3>1. \A n \in 1..L : n \in 1..C /\ n < p
      BY <1>1, <1>4, <2>3
    <3> QED
      BY <1>1, <1>5, <2>1, <3>1, Zenon
  <2> QED
    BY <2>2, <2>3
<1> QED
  BY <1>3, <1>5, <1>6, <1>7, Zenon DEF C, top

\* What is merged has been recalled.
LEMMA MergedHits ==
  ASSUME Steps, NEW H, H \subseteq Merged
  PROVE  /\ H \subseteq {Hit(i) : i \in 1..Len(chunks)}
         /\ \A h \in H : \E i \in vectorHits \cup keywordHits : h = Hit(i)
BY DEF Steps, Merged

LEMMA RankKeeps ==
  ASSUME SInv, Rank, UNCHANGED <<seen, online>>
  PROVE  SInv'
<1> DEFINE passing == {h \in Merged : Passes(h)}
<1>1. /\ pc = "rank" /\ pc' = "respond"
      /\ UNCHANGED <<stored, request, vectorHits, keywordHits, changed>>
      /\ hits' = SubSeq(Ranked(passing), 1, Min({request.top_k, Len(Ranked(passing))}))
  BY DEF Rank
<1>2. VInv' /\ Bounds' /\ SeenFits' /\ Tables /\ Bounds /\ Steps
  BY <1>1, SearchLeaves DEF SearchPlaces, SInv, VInv
<1>3. /\ passing \subseteq {Hit(i) : i \in 1..Len(chunks)}
      /\ \A h \in passing : \E i \in vectorHits \cup keywordHits : h = Hit(i)
  BY <1>2, MergedHits
<1>4. request.top_k \in Nat
  BY <1>2, LimitType DEF Steps
<1>5. Ranked(passing)' = Ranked(passing)
  <2>1. \A i : Hit(i)' = Hit(i)
    BY <1>1 DEF Hit, VectorScore, KeywordScore, Signal, Value, Hybrid, stored
  <2>2. Merged' = Merged
    BY <1>1, <2>1 DEF Merged
  <2>3. passing' = passing
    BY <2>2
  <2> HIDE DEF passing
  <2> QED
    BY <2>3
<1> HIDE DEF passing
<1>6. hits' \in Seq(passing)
  <2>1. Top(passing, request.top_k) \in Seq(passing)
    BY <1>2, <1>3, <1>4, TopOfRanked
  <2> QED
    BY <1>1, <2>1 DEF Top
<1>7. \A i \in 1..Len(chunks) : Hit(i) \in HitType /\ Hit(i).chunk = i
  BY <1>2, HitIsTyped
<1>8. passing \subseteq HitType
  BY <1>3, <1>7
<1>9. hits' \in Seq(HitType)
  BY <1>6, <1>8
<1>10. HitIds' \subseteq vectorHits \cup keywordHits
  <2>1. \A n \in 1..Len(hits') : hits'[n] \in passing
    BY <1>6, ElementOfSeq
  <2>2. \A h \in passing : h.chunk \in vectorHits \cup keywordHits
    BY <1>2, <1>3, <1>7 DEF Steps
  <2> QED
    BY <2>1, <2>2 DEF HitIds
<1>11. Steps'
  BY <1>1, <1>2, <1>9 DEF Steps, stored
<1>12. VectorFresh'
  BY <1>1 DEF SInv, VectorFresh, stored, Visible
<1>13. KeywordFresh'
  BY <1>1 DEF SInv, KeywordFresh, stored, Visible, VisibleIds, PerSourceTopK, Hybrid, Value
<1>14. RankFits'
  <2>1. Len(Top(passing, request.top_k)) <= request.top_k
    <3>1. /\ Cardinality(passing) \in Nat
          /\ Len(Top(passing, request.top_k)) =
               IF request.top_k <= Cardinality(passing) THEN request.top_k
               ELSE Cardinality(passing)
      BY <1>2, <1>3, <1>4, RankedIsList, TopOfRanked
    <3> QED
      BY <1>4, <3>1
  <2>2. hits' = Top(passing, request.top_k)
    BY <1>1 DEF Top
  <2> QED
    BY <1>1, <1>5, <1>10, <2>1, <2>2 DEF RankFits, passing
<1>15. Responses'
  BY <1>1 DEF SInv, Responses, online
<1> QED
  BY <1>2, <1>11, <1>12, <1>13, <1>14, <1>15 DEF SInv

-----------------------------------------------------------------------------
\* Responding, and going on.
LEMMA RespondKeeps ==
  ASSUME SInv, ShowHits \/ Answer \/ \E items \in Submission : Review(items)
  PROVE  SInv'
<1>1. pc = "respond" /\ pc' = "done" /\ UNCHANGED <<stored, search, seen>>
  BY DEF ShowHits, Answer, Review, Respond
<1>2. /\ UNCHANGED stored
      /\ UNCHANGED <<request, vectorHits, keywordHits, hits, changed>>
      /\ seen' = NothingSeen /\ seen' = seen
      /\ submitted = {}
  BY <1>1 DEF search, SInv, VInv, Places, SearchPlaces, Responses
<1>3. VInv' /\ Bounds' /\ SeenFits'
  <2>1. VInv'
    BY <1>1, <1>2, SearchKeeps DEF SInv, SearchPlaces
  <2> QED
    BY <1>2, <2>1, BoundsStay DEF SInv, SeenFits, stored
<1>4. Steps'
  BY <1>1, <1>2 DEF SInv, Steps, stored
<1>5. VectorFresh' /\ KeywordFresh'
  BY <1>1, <1>2 DEF SInv, VectorFresh, KeywordFresh, stored, Visible
<1>6. RankFits'
  BY <1>1, <1>2 DEF SInv, RankFits, HitIds
<1>7. Responses'
  <2>1. CASE ShowHits
    BY <1>1, <1>2, <2>1 DEF Responses, ShowHits, Respond, AllHits, NoOutcome
  <2>2. CASE Answer
    BY <1>1, <1>2, <2>2 DEF Responses, Answer, Respond, Grounded, Firsts, AllHits, NoOutcome
  <2>3. ASSUME NEW items \in Submission, Review(items)
        PROVE  Responses'
    <3>1. /\ purpose' = "review" /\ submitted' = items /\ items \subseteq Item
          /\ outcome' = [decision |-> Decision(items), citations |-> Firsts(AnswerTopK),
                         shown |-> <<>>,
                         missing |-> IF Decision(items) = "fail" THEN Missing(items) ELSE {}]
      BY <2>3 DEF Review, Respond, Submission
    <3>2. Matched' = Matched
      BY <1>2 DEF Matched, RuleText, Value, stored
    <3>3. Missing(items)' = Missing(items) /\ Decision(items)' = Decision(items)
      BY <3>2 DEF Missing, Decision, IsSufficient
    <3>4. Firsts(AnswerTopK)' = Firsts(AnswerTopK)
      BY <1>2 DEF Firsts
    <3>5. /\ Decision(submitted)' = Decision(items)
          /\ Missing(submitted)' = Missing(items)
      BY <3>1, <3>2 DEF Missing, Decision, IsSufficient
    <3> QED
      BY <1>1, <3>1, <3>4, <3>5 DEF Responses
  <2> QED
    BY <2>1, <2>2, <2>3
<1> QED
  BY <1>3, <1>4, <1>5, <1>6, <1>7 DEF SInv

LEMMA NoRequestType == NoRequest \in Request
<1> SUFFICES Min(TopK) \in TopK
  BY DEF NoRequest, Request
<1>1. TopK \in SUBSET Nat
  BY SettingsAssumption
<1>2. PICK k \in TopK : \A x \in TopK : k <= x
  BY <1>1, Smallest, SettingsAssumption
<1> QED
  BY <1>2 DEF Min

LEMMA DoneKeeps ==
  ASSUME SInv, Done
  PROVE  SInv'
<1>1. /\ pc = "done" /\ pc' = "idle" /\ request' = NoRequest
      /\ vectorHits' = {} /\ keywordHits' = {} /\ hits' = <<>> /\ changed' = {}
      /\ seen' = NothingSeen
      /\ purpose' = "none" /\ submitted' = {} /\ outcome' = NoOutcome
      /\ UNCHANGED stored
  BY DEF Done
<1>2. VInv' /\ Bounds'
  BY <1>1, SearchKeeps, BoundsStay DEF SInv, SearchPlaces
<1>3. SeenFits'
  <2>1. latest' = latest /\ chunks' = chunks /\ latest \in [Document -> Nat]
        /\ Len(chunks) \in Nat
    BY <1>1 DEF stored, SInv, VInv, Tables
  <2> QED
    BY <1>1, <2>1 DEF SeenFits, NothingSeen, NobodySeen
<1>4. Steps'
  BY <1>1, NoRequestType DEF Steps
<1>5. VectorFresh' /\ KeywordFresh' /\ RankFits' /\ Responses'
  BY <1>1 DEF VectorFresh, KeywordFresh, RankFits, HitIds, Responses
<1> QED
  BY <1>2, <1>3, <1>4, <1>5 DEF SInv

LEMMA InitSearch == Init => SInv
<1> SUFFICES ASSUME Init PROVE SInv
  OBVIOUS
<1>1. /\ chunks = <<>> /\ latest = [d \in Document |-> 0] /\ current = [d \in Document |-> 0]
      /\ pc = "idle" /\ seen = NothingSeen /\ request = NoRequest
      /\ vectorHits = {} /\ keywordHits = {} /\ hits = <<>> /\ changed = {}
      /\ purpose = "none" /\ submitted = {} /\ outcome = NoOutcome
  BY DEF Init, RetrievalInit
<1>2. Bounds
  <2>1. StoredVersions = {}
    BY <1>1, SettingsAssumption DEF StoredVersions
  <2>2. IsFiniteSet(StoredVersions)
    BY <2>1, FS_EmptySet
  <2> QED
    BY <1>1, <2>2, SettingsAssumption DEF Bounds
<1>3. SeenFits
  BY <1>1 DEF SeenFits, NothingSeen, NobodySeen
<1>4. Steps
  BY <1>1, NoRequestType DEF Steps
<1>5. VectorFresh /\ KeywordFresh /\ RankFits /\ Responses
  BY <1>1 DEF VectorFresh, KeywordFresh, RankFits, HitIds, Responses
<1> QED
  BY <1>2, <1>3, <1>4, <1>5, InitViews DEF SInv

LEMMA NextSearch == SInv /\ [Next]_vars => SInv'
<1> SUFFICES ASSUME SInv, [Next]_vars PROVE SInv'
  OBVIOUS
<1>1. CASE OtherProcess /\ UNCHANGED <<seen, online>>
  BY <1>1, OtherKeeps
<1>2. CASE SearchStep /\ UNCHANGED <<seen, online>>
  BY <1>2, VectorSearchKeeps, KeywordSearchKeeps, RankKeeps DEF SearchStep
<1>3. ASSUME NEW r \in Request, StartSearch(r), UNCHANGED <<seen, online>>
      PROVE  SInv'
  BY <1>3, StartSearchKeeps
<1>4. CASE (StartView \/ ViewStep) /\ UNCHANGED online
  BY <1>4, ViewKeeps
<1>5. CASE ShowHits \/ Answer \/ \E items \in Submission : Review(items)
  BY <1>5, RespondKeeps
<1>6. CASE Done
  BY <1>6, DoneKeeps
<1>7. CASE UNCHANGED vars
  <2>1. /\ UNCHANGED stored /\ UNCHANGED search /\ UNCHANGED online
        /\ seen' = seen /\ pc' = pc
    BY <1>7 DEF vars
  <2>2. VInv'
    BY <1>7, NextViews DEF SInv
  <2>3. Bounds' /\ SeenFits'
    BY <2>1, BoundsStay DEF SInv, SeenFits, stored
  <2>4. Steps'
    BY <2>1 DEF SInv, Steps, stored, search
  <2>5. VectorFresh' /\ KeywordFresh'
    BY <2>1 DEF SInv, VectorFresh, KeywordFresh, stored, search, Visible, VisibleIds,
       PerSourceTopK, Hybrid, Value
  <2>6. \A i : Hit(i)' = Hit(i)
    BY <2>1 DEF Hit, VectorScore, KeywordScore, Signal, Value, Hybrid, stored, search
  <2>7. Merged' = Merged
    BY <2>1, <2>6 DEF Merged, search
  <2>8. RankFits'
    BY <2>1, <2>7 DEF SInv, RankFits, HitIds, search
  <2>9. Responses'
    <3>1. Matched' = Matched
      BY <2>1 DEF Matched, RuleText, Value, stored, search
    <3>2. Missing(submitted)' = Missing(submitted) /\ Decision(submitted)' = Decision(submitted)
      BY <2>1, <3>1 DEF Missing, Decision, IsSufficient, online
    <3>3. /\ AllHits' = AllHits /\ Firsts(AnswerTopK)' = Firsts(AnswerTopK)
          /\ Grounded' = Grounded
      BY <2>1 DEF AllHits, Firsts, Grounded, search
    <3>4. /\ purpose' = purpose /\ submitted' = submitted /\ outcome' = outcome
          /\ hits' = hits
      BY <2>1 DEF online, search
    <3> QED
      BY <2>1, <3>2, <3>3, <3>4 DEF SInv, Responses
  <2> QED
    BY <2>2, <2>3, <2>4, <2>5, <2>8, <2>9 DEF SInv
<1> QED
  BY <1>1, <1>2, <1>3, <1>4, <1>5, <1>6, <1>7 DEF Next

\* At every moment what a search has recalled is as current as its snapshots allow, its
\* hits are what ranking makes of it, and a response is made of them.
THEOREM SearchInvariant == Spec => []SInv
BY InitSearch, NextSearch, PTL DEF Spec

-----------------------------------------------------------------------------
LEMMA HitsAreCurrent == SInv => HitsCurrent
<1> DEFINE byVector == vectorHits \ keywordHits
           byKeyword == keywordHits \ vectorHits
<1> SUFFICES ASSUME SInv, pc = "respond", ~request.include_history,
                    NEW i \in HitIds, NEW j \in HitIds
             PROVE  LET d == chunks[i].document
                    IN  /\ d \notin changed => /\ chunks[i].version \in {latest[d], current[d]}
                                               /\ <<d, chunks[i].version>> \notin superseded
                        /\ chunks[j].document = d /\ chunks[j].version # chunks[i].version =>
                             /\ d \in changed
                             /\ \/ i \in byVector /\ j \in byKeyword
                                \/ j \in byVector /\ i \in byKeyword
  BY DEF HitsCurrent
<1>1. i \in vectorHits \cup keywordHits /\ j \in vectorHits \cup keywordHits
  BY DEF SInv, RankFits, Steps
<1>2. \A k \in keywordHits : /\ chunks[k].version = latest[chunks[k].document]
                             /\ <<chunks[k].document, chunks[k].version>> \notin superseded
  BY DEF SInv, KeywordFresh, Visible
<1>3. \A k \in vectorHits : chunks[k].document \notin changed =>
        /\ chunks[k].version = latest[chunks[k].document]
        /\ <<chunks[k].document, chunks[k].version>> \notin superseded
  BY DEF SInv, VectorFresh, Visible
<1>4. \A k, l \in vectorHits : chunks[k].document = chunks[l].document =>
                                 chunks[k].version = chunks[l].version
  BY DEF SInv, VectorFresh
<1>5. chunks[i].document \notin changed =>
        /\ chunks[i].version = latest[chunks[i].document]
        /\ <<chunks[i].document, chunks[i].version>> \notin superseded
  BY <1>1, <1>2, <1>3
<1>6. ASSUME chunks[j].document = chunks[i].document, chunks[j].version # chunks[i].version
      PROVE  /\ chunks[i].document \in changed
             /\ \/ i \in byVector /\ j \in byKeyword
                \/ j \in byVector /\ i \in byKeyword
  <2>1. ~(i \in vectorHits /\ j \in vectorHits)
    BY <1>4, <1>6
  <2>2. ~(i \in keywordHits /\ j \in keywordHits)
    BY <1>2, <1>6
  <2>3. chunks[i].document \in changed
    BY <1>1, <1>2, <1>3, <1>6
  <2> QED
    BY <1>1, <2>1, <2>2, <2>3
<1> HIDE DEF byVector, byKeyword
<1> QED
  BY <1>5, <1>6

\* Between the statements of a search others commit; still what is found of a document is
\* text of one version unless it was touched meanwhile, and then each statement has
\* contributed one (HybridRetrievalPipeline.run, the visibility filter of both
\* statements).
THEOREM SearchesAreCurrent == Spec => []HitsCurrent
BY SearchInvariant, HitsAreCurrent, PTL

-----------------------------------------------------------------------------
\* What the search has found out about a chunk if nothing was left out.
LEMMA WorthOfHit ==
  ASSUME SInv, pc = "respond", vectorHits = VisibleIds,
         Cardinality(VisibleIds) <= PerSourceTopK, NEW i \in VisibleIds
  PROVE  /\ Hit(i).score = Worth(i)
         /\ Passes(Hit(i)) <=> Deserving(i)
<1>1. /\ i \in 1..Len(chunks) /\ Value(i).keyword \in Nat
      /\ Hybrid => keywordHits = {k \in VisibleIds : Value(k).keyword > 0}
      /\ ~Hybrid => keywordHits = {}
  BY ValueType DEF SInv, VInv, KeywordFresh, VisibleIds
<1>2. VectorScore(i) = Max({0, Value(i).vector})
  BY DEF VectorScore
<1> DEFINE keyword == Value(i).keyword
           capped == Min({1000, keyword})
<1>3. capped = IF 1000 <= keyword THEN 1000 ELSE keyword
  BY <1>1, MinOfTwo
<1>4. Hybrid => /\ KeywordScore(i) = capped
                /\ keyword > 0 <=> capped # 0
  BY <1>1, <1>3 DEF KeywordScore
<1>5. ~Hybrid => KeywordScore(i) = 0
  BY <1>1 DEF KeywordScore
<1>6. Hybrid => /\ Hit(i).rerank = Value(i).rerank /\ Hit(i).coverage = Value(i).coverage
                /\ Hit(i).keyword = capped
                /\ Hit(i).score = Rerank(Fuse(VectorScore(i), capped), Value(i).rerank)
  BY <1>4 DEF Hit, Signal
<1> HIDE DEF capped
<1>7. ~Hybrid => Hit(i).score = VectorScore(i)
  <2>1. VectorScore(i) \in 0..1000
    <3>1. Value(i).vector \in Int /\ Value(i).vector <= 1000
      BY <1>1, ValueType DEF SInv, VInv
    <3>2. Max({0, Value(i).vector}) \in Thousandths
      BY <3>1, CappedType
    <3> QED
      BY <1>2, <3>2 DEF Thousandths
  <2>2. Max({VectorScore(i), 0}) = IF VectorScore(i) >= 0 THEN VectorScore(i) ELSE 0
    <3>1. VectorScore(i) \in Int
      BY <2>1
    <3> QED
      BY <3>1, MaxOfTwo
  <2>3. Fuse(VectorScore(i), 0) = VectorScore(i)
    BY <2>1, <2>2 DEF Fuse
  <2> QED
    BY <1>5, <2>3 DEF Hit
<1>8. Hit(i).score = Worth(i)
  BY <1>2, <1>6, <1>7 DEF Worth, capped
<1>9. Hit(i).retrieval_source # "vector" <=> KeywordScore(i) # 0
  <2>1. CASE KeywordScore(i) = 0
    BY <2>1 DEF Hit
  <2>2. CASE KeywordScore(i) # 0
    BY <2>2 DEF Hit
  <2> QED
    BY <2>1, <2>2
<1>10. Passes(Hit(i)) <=> Deserving(i)
  <2>1. CASE Hybrid
    <3>1. /\ Hit(i).retrieval_source # "vector" <=> Value(i).keyword > 0
          /\ Hit(i).rerank = Value(i).rerank /\ Hit(i).coverage = Value(i).coverage
          /\ Hit(i).keyword = Min({1000, Value(i).keyword})
      BY <1>4, <1>6, <1>9, <2>1 DEF capped
    <3>2. Max({Hit(i).rerank, Hit(i).keyword})
            = Max({Value(i).rerank, Min({1000, Value(i).keyword})})
      BY <3>1
    <3> QED
      BY <1>8, <2>1, <3>1, <3>2 DEF Passes, PassesEvidenceGate, Deserving
  <2>2. CASE ~Hybrid
    <3>1. Hit(i).retrieval_source = "vector"
      BY <1>5, <1>9, <2>2
    <3> QED
      BY <1>8, <2>2, <3>1, Zenon DEF Passes, PassesEvidenceGate, Deserving
  <2> QED
    BY <2>1, <2>2
<1> QED
  BY <1>8, <1>10

LEMMA HitsAreTheBest == SInv => HitsAreBest
<1> DEFINE deserving == {i \in VisibleIds : Deserving(i)}
           passing == {h \in Merged : Passes(h)}
           top == Top(passing, request.top_k)
<1> SUFFICES ASSUME SInv, pc = "respond", vectorHits = VisibleIds,
                    Cardinality(VisibleIds) <= PerSourceTopK
             PROVE  /\ HitIds \subseteq deserving
                    /\ Len(hits) = Cardinality(HitIds)
                    /\ Len(hits) = Min({request.top_k, Cardinality(deserving)})
                    /\ \A i \in HitIds, j \in deserving \ HitIds : Worth(i) >= Worth(j)
                    /\ \A n \in 1..Len(hits), m \in 1..Len(hits) :
                         n < m => Worth(hits[n].chunk) >= Worth(hits[m].chunk)
  BY DEF HitsAreBest
<1>1. Tables /\ Bounds /\ Steps /\ hits = top /\ request.top_k \in Nat
  BY LimitType DEF SInv, VInv, Steps, RankFits, Top
<1>2. VisibleIds \subseteq 1..Len(chunks)
  BY DEF VisibleIds
<1>3. keywordHits \subseteq VisibleIds
  BY DEF SInv, KeywordFresh, VisibleIds
<1>4. \A i \in VisibleIds : /\ Hit(i) \in HitType /\ Hit(i).chunk = i
                            /\ Hit(i).score = Worth(i)
                            /\ Passes(Hit(i)) <=> Deserving(i)
  BY <1>1, <1>2, HitIsTyped, WorthOfHit
<1>5. passing = {Hit(i) : i \in deserving}
  <2>1. Merged = {Hit(i) : i \in VisibleIds}
    BY <1>3 DEF Merged
  <2> QED
    BY <1>4, <2>1
<1>6. passing \subseteq {Hit(i) : i \in 1..Len(chunks)}
  BY <1>2, <1>5
<1> HIDE DEF passing, top
<1>7. /\ top \in Seq(passing)
      /\ Len(top) = IF request.top_k <= Cardinality(passing) THEN request.top_k
                    ELSE Cardinality(passing)
      /\ \A m, n \in 1..Len(top) : m < n => HitBefore(top[m], top[n])
      /\ \A m, n \in 1..Len(top) : top[m] = top[n] => m = n
      /\ \A h \in passing : \/ \E n \in 1..Len(top) : top[n] = h
                            \/ \A n \in 1..Len(top) : HitBefore(top[n], h)
  BY <1>1, <1>6, TopOfRanked DEF top
<1>8. \A n \in 1..Len(hits) : /\ hits[n] \in passing /\ hits[n] \in HitType
                              /\ hits[n].chunk \in deserving
                              /\ hits[n] = Hit(hits[n].chunk)
                              /\ hits[n].score = Worth(hits[n].chunk)
  <2> SUFFICES ASSUME NEW n \in 1..Len(hits)
               PROVE  /\ hits[n] \in passing /\ hits[n] \in HitType
                      /\ hits[n].chunk \in deserving
                      /\ hits[n] = Hit(hits[n].chunk)
                      /\ hits[n].score = Worth(hits[n].chunk)
    OBVIOUS
  <2>1. hits[n] \in passing
    BY <1>1, <1>7, ElementOfSeq
  <2>2. PICK i \in deserving : hits[n] = Hit(i)
    BY <1>5, <2>1
  <2> QED
    BY <1>4, <2>1, <2>2
<1>9. HitIds \subseteq deserving
  BY <1>8 DEF HitIds
<1>10. Len(hits) \in Nat
  BY <1>1 DEF Steps
<1>11. Len(hits) = Cardinality(HitIds)
  <2> DEFINE f == [n \in 1..Len(hits) |-> hits[n].chunk]
  <2>1. \A m, n \in 1..Len(hits) : f[m] = f[n] => m = n
    BY <1>1, <1>7, <1>8
  <2>2. f \in [1..Len(hits) -> HitIds] /\ \A x \in HitIds : \E n \in 1..Len(hits) : f[n] = x
    BY DEF HitIds
  <2> HIDE DEF f
  <2>3. f \in Bijection(1..Len(hits), HitIds)
    BY <2>1, <2>2, Fun_IsBij
  <2> QED
    BY <1>10, <2>3, FS_CountingElements DEF ExistsBijection
<1>12. Cardinality(passing) = Cardinality(deserving) /\ Cardinality(deserving) \in Nat
  <2> DEFINE f == [i \in deserving |-> Hit(i)]
  <2>1. \A i, j \in deserving : f[i] = f[j] => i = j
    BY <1>4
  <2>2. f \in [deserving -> passing] /\ \A h \in passing : \E i \in deserving : f[i] = h
    BY <1>5
  <2>3. IsFiniteSet(deserving)
    <3>1. IsFiniteSet(1..Len(chunks))
      BY <1>1, FS_Interval DEF Tables
    <3> QED
      BY <1>2, <3>1, FS_Subset
  <2> HIDE DEF f
  <2>4. f \in Bijection(deserving, passing)
    BY <2>1, <2>2, Fun_IsBij
  <2> QED
    BY <2>3, <2>4, FS_Bijection, FS_CardinalityType DEF ExistsBijection
<1>13. Len(hits) = Min({request.top_k, Cardinality(deserving)})
  BY <1>1, <1>7, <1>12, MinOfTwo
<1>14. ASSUME NEW i \in HitIds, NEW j \in deserving \ HitIds
       PROVE  Worth(i) >= Worth(j)
  <2>1. PICK n \in 1..Len(hits) : hits[n].chunk = i
    BY DEF HitIds
  <2>2. Hit(j) \in passing /\ Hit(j) \in HitType /\ Hit(j).chunk = j /\ Hit(j).score = Worth(j)
    BY <1>4, <1>5
  <2>3. \A m \in 1..Len(hits) : hits[m] # Hit(j)
    BY <1>14, <2>2 DEF HitIds
  <2>4. HitBefore(hits[n], Hit(j))
    BY <1>1, <1>7, <2>2, <2>3
  <2>5. hits[n].score >= Hit(j).score
    BY <1>8, <2>2, <2>4, BeforeIsBetter
  <2> QED
    BY <1>8, <2>1, <2>2, <2>5
<1>15. ASSUME NEW n \in 1..Len(hits), NEW m \in 1..Len(hits), n < m
       PROVE  Worth(hits[n].chunk) >= Worth(hits[m].chunk)
  <2>1. HitBefore(hits[n], hits[m])
    BY <1>1, <1>7, <1>15
  <2>2. hits[n].score >= hits[m].score
    BY <1>8, <2>1, BeforeIsBetter
  <2> QED
    BY <1>8, <2>2
<1> QED
  BY <1>9, <1>11, <1>13, <1>14, <1>15

\* When nothing was committed between the statements and neither leaves anything out, the
\* hits are the top_k most worthy of the chunks that deserve to be found, each once, best
\* first: recalling a limited number twice, fusing, reranking, the threshold and the cut
\* lose none of them (HybridRetrievalPipeline.run).
THEOREM SearchesFindTheBest == Spec => []HitsAreBest
BY SearchInvariant, HitsAreTheBest, PTL

-----------------------------------------------------------------------------
\* The chunks that rank first.
LEMMA FirstsType ==
  ASSUME SInv, NEW k \in Nat
  PROVE  /\ Len(Firsts(k)) = (IF k <= Len(hits) THEN k ELSE Len(hits))
         /\ Len(Firsts(k)) \in Nat /\ Len(Firsts(k)) <= Len(hits)
         /\ \A n \in 1..Len(Firsts(k)) :
              /\ n \in 1..Len(hits)
              /\ Firsts(k)[n] = hits[n].chunk
              /\ Firsts(k)[n] \in vectorHits \cup keywordHits
<1> DEFINE L == Min({k, Len(hits)})
<1>1. Len(hits) \in Nat
  BY DEF SInv, Steps
<1>2. L = (IF k <= Len(hits) THEN k ELSE Len(hits)) /\ L \in Nat /\ L <= Len(hits)
  BY <1>1, MinOfTwo
<1>3. Firsts(k) = [n \in 1..L |-> hits[n].chunk]
  BY DEF Firsts
<1> HIDE DEF L
<1>4. Len(Firsts(k)) = L /\ \A n \in 1..L : Firsts(k)[n] = hits[n].chunk
  BY <1>2, <1>3
<1>5. \A n \in 1..L : n \in 1..Len(hits) /\ hits[n].chunk \in vectorHits \cup keywordHits
  BY <1>1, <1>2 DEF SInv, RankFits, HitIds
<1> QED
  BY <1>2, <1>4, <1>5

LEMMA SearchIsTyped == SInv => TypeOK
<1> SUFFICES ASSUME SInv PROVE TypeOK
  OBVIOUS
<1>1. /\ Tables /\ Places /\ DocumentsFit /\ Bounds /\ SeenFits /\ Steps
      /\ MaxVersions \in Nat
  BY SettingsAssumption DEF SInv, VInv
<1>2. RetrievalTypeOK
  <2>1. chunks \in Seq([document : Document, version : Nat, profile : Profile])
    BY <1>1 DEF Tables, Chunks
  <2>2. latest \in [Document -> 0..MaxVersions]
    BY <1>1 DEF Tables, Bounds
  <2>3. \A d \in Document : /\ current[d] \in 0..latest[d]
                            /\ <<d, current[d]>> \notin superseded
    BY <1>1 DEF Tables, Bounds
  <2>4. \A i \in 1..Len(chunks) : chunks[i].version \in 1..latest[chunks[i].document]
    BY <1>1, ChunkFields DEF Tables, Bounds
  <2> QED
    BY <1>1, <2>1, <2>2, <2>3, <2>4 DEF RetrievalTypeOK, Steps
<1>3. ViewsTypeOK
  <2>1. /\ seen.documents \in [Document -> Nat] /\ seen.versions \in [Document -> Nat]
        /\ seen.chunks \in Nat /\ seen.rows \in SUBSET Row
        /\ seen.page \in PageRequest \cup {None}
    BY <1>1, SeenFields DEF Places
  <2>2. seen.view \in {"none", "audit", "overview", "list", "detail", "missing"}
    BY <1>1 DEF Places, Seen
  <2>3. \A d \in Document : /\ seen.documents[d] \in 0..latest[d]
                            /\ seen.versions[d] \in 0..latest[d]
    BY <1>1, <2>1 DEF DocumentsFit, SeenFits, Tables
  <2>4. seen.chunks \in 0..Len(chunks)
    BY <1>1, <2>1 DEF SeenFits, Tables
  <2> QED
    BY <1>1, <2>1, <2>2, <2>3, <2>4 DEF ViewsTypeOK, SeenFits
<1>4. pc \in {"idle", "vector", "keyword", "rank", "respond", "done"} \cup ViewPlaces
  BY <1>1 DEF Places, AuditPlaces, DetailPlaces, SearchPlaces, ViewPlaces
<1>5. \A n \in 1..Len(Firsts(AnswerTopK)) : Firsts(AnswerTopK)[n] \in 1..Len(chunks)
  BY <1>1, FirstsType, ScenarioAssumption DEF Steps
<1>6. Responses
  BY DEF SInv
<1> DEFINE Fits == /\ outcome.missing \subseteq Requirement
                   /\ \A n \in 1..Len(outcome.citations) :
                        outcome.citations[n] \in 1..Len(chunks)
<1>7. CASE purpose = "none"
  <2>1. submitted = {} /\ outcome = NoOutcome
    BY <1>6, <1>7 DEF Responses
  <2>2. outcome.decision = "none" /\ Fits
    BY <2>1 DEF NoOutcome
  <2> QED
    BY <1>2, <1>3, <1>4, <1>7, <2>1, <2>2 DEF TypeOK
<1>8. CASE purpose = "search"
  <2>1. submitted = {}
        /\ outcome = [NoOutcome EXCEPT !.decision = "found", !.shown = AllHits]
    BY <1>6, <1>8 DEF Responses
  <2>2. outcome.decision = "found" /\ Fits
    BY <2>1 DEF NoOutcome
  <2> QED
    BY <1>2, <1>3, <1>4, <1>8, <2>1, <2>2 DEF TypeOK
<1>9. CASE purpose = "ask"
  <2>1. /\ submitted = {}
        /\ \/ outcome = Grounded
           \/ outcome = [NoOutcome EXCEPT !.decision = "fixed"]
           \/ outcome = [NoOutcome EXCEPT !.decision = "error"]
    BY <1>6, <1>9 DEF Responses
  <2>2. outcome.decision \in {"grounded", "fixed", "error"} /\ Fits
    BY <1>5, <2>1 DEF NoOutcome, Grounded
  <2> QED
    BY <1>2, <1>3, <1>4, <1>9, <2>1, <2>2 DEF TypeOK
<1>10. CASE purpose = "review"
  <2>1. /\ submitted \subseteq Item
        /\ outcome = [decision |-> Decision(submitted), citations |-> Firsts(AnswerTopK),
                      shown |-> <<>>,
                      missing |-> IF Decision(submitted) = "fail"
                                  THEN Missing(submitted) ELSE {}]
    BY <1>6, <1>10 DEF Responses
  <2>2. Decision(submitted) \in {"pass", "fail", "insufficient_evidence"}
    BY DEF Decision
  <2>3. Missing(submitted) \subseteq Requirement
    BY DEF Missing, Matched
  <2>4. outcome.decision \in {"pass", "fail", "insufficient_evidence"} /\ Fits
    BY <1>5, <2>1, <2>2, <2>3
  <2> QED
    BY <1>2, <1>3, <1>4, <1>10, <2>1, <2>4 DEF TypeOK
<1> QED
  BY <1>6, <1>7, <1>8, <1>9, <1>10 DEF Responses

\* The tables, the request's variables and the response are always what they should be
\* for the place that the request has reached (RetrievedPolicyChunk, DecisionResult).
THEOREM OnlineTypes == Spec => []TypeOK
BY SearchInvariant, SearchIsTyped, PTL

-----------------------------------------------------------------------------
\* What texts say that are put one after the other.

\* Two texts say what either says, and what stands across their border.
LEMMA StatedInTwo ==
  ASSUME NEW s \in Seq(Piece), NEW t \in Seq(Piece), Len(s) # 0, Len(t) # 0, NEW r
  PROVE  Stated(r, s \o t) <=>
           \/ Stated(r, s)
           \/ Stated(r, t)
           \/ /\ s[Len(s)] = [part |-> "head", keyword |-> r]
              /\ t[1] = [part |-> "tail", keyword |-> r]
<1> DEFINE whole == [part |-> "whole", keyword |-> r]
           head == [part |-> "head", keyword |-> r]
           tail == [part |-> "tail", keyword |-> r]
           u == s \o t
           S == Len(s)
           T == Len(t)
<1>1. /\ Len(u) = S + T
      /\ \A i \in 1..(S + T) : u[i] = IF i <= S THEN s[i] ELSE t[i - S]
  BY ConcatProperties, ZenonT(30)
<1>2. S \in Nat /\ T \in Nat /\ S >= 1 /\ T >= 1
  OBVIOUS
<1> HIDE DEF u, S, T, whole, head, tail
<1>3. /\ \A i \in 1..S : i \in 1..(S + T) /\ u[i] = s[i]
      /\ \A i \in 1..T : i + S \in 1..(S + T) /\ u[i + S] = t[i]
  BY <1>1, <1>2
<1>4. ASSUME NEW v, NEW L, Len(v) = L
      PROVE  Stated(r, v) <=>
               \/ \E n \in 1..L : v[n] = whole
               \/ \E n \in 1..(L - 1) : v[n] = head /\ v[n + 1] = tail
  BY <1>4 DEF Stated, whole, head, tail
<1>5. (\E n \in 1..(S + T) : u[n] = whole) <=>
        (\E n \in 1..S : s[n] = whole) \/ (\E n \in 1..T : t[n] = whole)
  <2>1. ASSUME NEW n \in 1..(S + T), u[n] = whole
        PROVE  (\E m \in 1..S : s[m] = whole) \/ (\E m \in 1..T : t[m] = whole)
    <3>1. CASE n <= S
      BY <1>1, <1>2, <2>1, <3>1
    <3>2. CASE ~(n <= S)
      <4>1. n - S \in 1..T /\ t[n - S] = whole
        BY <1>1, <1>2, <2>1, <3>2
      <4> QED
        BY <4>1
    <3> QED
      BY <3>1, <3>2
  <2> QED
    BY <1>3, <2>1
<1>6. (\E n \in 1..(S + T - 1) : u[n] = head /\ u[n + 1] = tail) <=>
        \/ \E n \in 1..(S - 1) : s[n] = head /\ s[n + 1] = tail
        \/ \E n \in 1..(T - 1) : t[n] = head /\ t[n + 1] = tail
        \/ s[S] = head /\ t[1] = tail
  <2>1. ASSUME NEW n \in 1..(S + T - 1), u[n] = head, u[n + 1] = tail
        PROVE  \/ \E m \in 1..(S - 1) : s[m] = head /\ s[m + 1] = tail
               \/ \E m \in 1..(T - 1) : t[m] = head /\ t[m + 1] = tail
               \/ s[S] = head /\ t[1] = tail
    <3>1. CASE n < S
      <4>1. n \in 1..(S - 1) /\ n \in 1..S /\ n + 1 \in 1..S
        BY <1>2, <3>1
      <4> QED
        BY <1>3, <2>1, <4>1
    <3>2. CASE n = S
      <4>1. S \in 1..S /\ 1 \in 1..T /\ n + 1 = 1 + S
        BY <1>2, <3>2
      <4> QED
        BY <1>3, <2>1, <3>2, <4>1
    <3>3. CASE n > S
      <4>1. PICK m \in 1..(T - 1) : n = m + S /\ m \in 1..T /\ m + 1 \in 1..T
                                    /\ n + 1 = m + 1 + S
        <5>1. /\ n - S \in 1..(T - 1) /\ n = n - S + S /\ n - S \in 1..T
              /\ n - S + 1 \in 1..T /\ n + 1 = n - S + 1 + S
          BY <1>2, <3>3
        <5> QED
          BY <5>1
      <4> QED
        BY <1>3, <2>1, <4>1
    <3> QED
      BY <1>2, <3>1, <3>2, <3>3
  <2>2. ASSUME NEW m \in 1..(S - 1), s[m] = head, s[m + 1] = tail
        PROVE  \E n \in 1..(S + T - 1) : u[n] = head /\ u[n + 1] = tail
    <3>1. m \in 1..(S + T - 1) /\ m \in 1..S /\ m + 1 \in 1..S
      BY <1>2
    <3> QED
      BY <1>3, <2>2, <3>1
  <2>3. ASSUME NEW m \in 1..(T - 1), t[m] = head, t[m + 1] = tail
        PROVE  \E n \in 1..(S + T - 1) : u[n] = head /\ u[n + 1] = tail
    <3>1. /\ m + S \in 1..(S + T - 1) /\ m \in 1..T /\ m + 1 \in 1..T
          /\ m + S + 1 = m + 1 + S
      BY <1>2
    <3>2. u[m + S] = head /\ u[m + S + 1] = tail
      BY <1>3, <2>3, <3>1
    <3> QED
      BY <3>1, <3>2
  <2>4. ASSUME s[S] = head, t[1] = tail
        PROVE  \E n \in 1..(S + T - 1) : u[n] = head /\ u[n + 1] = tail
    <3>1. S \in 1..(S + T - 1) /\ S \in 1..S /\ 1 \in 1..T /\ S + 1 = 1 + S
      BY <1>2
    <3>2. u[S] = head /\ u[S + 1] = tail
      BY <1>3, <2>4, <3>1
    <3> QED
      BY <3>1, <3>2
  <2> QED
    BY <2>1, <2>2, <2>3, <2>4
<1>7. Stated(r, u) <=> \/ \E n \in 1..(S + T) : u[n] = whole
                      \/ \E n \in 1..(S + T - 1) : u[n] = head /\ u[n + 1] = tail
  <2> DEFINE L == S + T
  <2>1. Len(u) = L
    BY <1>1
  <2> HIDE DEF L
  <2>2. Stated(r, u) <=> \/ \E n \in 1..L : u[n] = whole
                        \/ \E n \in 1..(L - 1) : u[n] = head /\ u[n + 1] = tail
    BY <1>4, <2>1, Zenon
  <2>3. S + T = L
    BY DEF L
  <2>4. S + T - 1 = L - 1
    BY <1>2, <2>3
  <2> QED
    BY <2>2, <2>3, <2>4
<1>8. Stated(r, s) <=> \/ \E n \in 1..S : s[n] = whole
                      \/ \E n \in 1..(S - 1) : s[n] = head /\ s[n + 1] = tail
  BY <1>4 DEF S
<1>9. Stated(r, t) <=> \/ \E n \in 1..T : t[n] = whole
                      \/ \E n \in 1..(T - 1) : t[n] = head /\ t[n + 1] = tail
  BY <1>4 DEF T
<1>10. Stated(r, u) <=> Stated(r, s) \/ Stated(r, t) \/ (s[S] = head /\ t[1] = tail)
  BY <1>5, <1>6, <1>7, <1>8, <1>9, Zenon
<1> QED
  BY <1>10 DEF S, head, tail, u

\* What all texts together say stands in one of them or across the border of two
\* neighbours.
LEMMA StatedInTexts ==
  ASSUME NEW texts \in Seq(Seq(Piece) \ {<<>>}), NEW r
  PROVE  Stated(r, FlattenSeq(texts)) <=>
           \/ \E n \in 1..Len(texts) : Stated(r, texts[n])
           \/ \E n \in 1..(Len(texts) - 1) :
                /\ Last(texts[n]) = [part |-> "head", keyword |-> r]
                /\ Head(texts[n + 1]) = [part |-> "tail", keyword |-> r]
<1> DEFINE head == [part |-> "head", keyword |-> r]
           tail == [part |-> "tail", keyword |-> r]
           N == Len(texts)
           across(n) == Last(texts[n]) = head /\ Head(texts[n + 1]) = tail
<1>1. N \in Nat /\ \A n \in 1..N : texts[n] \in Seq(Piece) /\ Len(texts[n]) # 0
  BY ElementOfSeq, EmptySeq
<1>2. CASE N = 0
  <2>1. texts = <<>>
    BY <1>2, EmptySeq
  <2>2. FlattenSeq(texts) = <<>>
    BY <2>1, FlattenEmpty
  <2>3. ~Stated(r, <<>>)
    BY DEF Stated
  <2> QED
    BY <1>2, <2>2, <2>3
<1>3. CASE N # 0
  <2>1. PICK f \in [1..N -> Seq(Piece)] : Grown(f, texts, N) /\ FlattenSeq(texts) = f[N]
    <3>1. texts \in Seq(Seq(Piece))
      OBVIOUS
    <3> QED
      BY <1>3, <3>1, FlattenGrows
  <2>2. f[1] = texts[1] /\ \A i \in 2..N : f[i] = f[i - 1] \o texts[i]
    BY <2>1 DEF Grown
  <2> DEFINE P(n) == /\ Len(f[n]) # 0
                     /\ f[n][Len(f[n])] = Last(texts[n])
                     /\ Stated(r, f[n]) <=> \/ \E m \in 1..n : Stated(r, texts[m])
                                            \/ \E m \in 1..(n - 1) : across(m)
             Good == {n \in Nat : n + 1 \in 1..N => P(n + 1)}
  <2> HIDE DEF across, N
  <2>3. P(1)
    <3>1. 1 \in 1..N /\ 1..1 = {1} /\ 1..(1 - 1) = {}
      BY <1>1, <1>3
    <3> QED
      BY <1>1, <2>2, <3>1 DEF Last
  <2>4. ASSUME NEW n \in 1..N, n + 1 \in 1..N, P(n)
        PROVE  P(n + 1)
    <3> DEFINE s == f[n]
               t == texts[n + 1]
    <3>1. /\ s \in Seq(Piece) /\ t \in Seq(Piece) /\ Len(s) # 0 /\ Len(t) # 0
          /\ f[n + 1] = s \o t
          /\ s[Len(s)] = Last(texts[n])
          /\ Stated(r, s) <=> \/ \E m \in 1..n : Stated(r, texts[m])
                              \/ \E m \in 1..(n - 1) : across(m)
      <4>1. n + 1 \in 2..N /\ n + 1 - 1 = n
        BY <1>1, <2>4
      <4>2. f[n + 1] = f[n] \o texts[n + 1]
        <5>1. \A i \in 2..N : i - 1 = n => f[i] = f[n] \o texts[i]
          BY <2>2
        <5> QED
          BY <4>1, <5>1
      <4> QED
        BY <1>1, <2>1, <2>4, <4>2
    <3> HIDE DEF P
    <3>2. across(n) <=> s[Len(s)] = head /\ t[1] = tail
      <4>1. Head(t) = t[1]
        BY <3>1
      <4>2. Last(texts[n]) = s[Len(s)] /\ Head(texts[n + 1]) = t[1]
        BY <3>1, <4>1
      <4> HIDE DEF s, t
      <4> QED
        BY <4>2, Zenon DEF across
    <3> HIDE DEF s, t, head, tail
    <3>3. /\ Len(s \o t) = Len(s) + Len(t)
          /\ \A i \in 1..(Len(s) + Len(t)) :
               (s \o t)[i] = IF i <= Len(s) THEN s[i] ELSE t[i - Len(s)]
      BY <3>1, ConcatProperties, ZenonT(30)
    <3>4. /\ Len(s \o t) # 0
          /\ (s \o t)[Len(s \o t)] = t[Len(t)]
      <4>1. Len(s) \in Nat /\ Len(t) \in Nat /\ Len(t) >= 1
        BY <3>1
      <4>2. /\ Len(s) + Len(t) \in 1..(Len(s) + Len(t)) /\ ~(Len(s) + Len(t) <= Len(s))
            /\ Len(s) + Len(t) - Len(s) = Len(t) /\ Len(s) + Len(t) # 0
        BY <4>1
      <4> QED
        BY <3>3, <4>2
    <3>5. Stated(r, s \o t) <=> Stated(r, s) \/ Stated(r, t) \/ across(n)
      BY <3>1, <3>2, StatedInTwo DEF head, tail
    <3>6. (\E m \in 1..(n + 1) : Stated(r, texts[m])) <=>
            (\E m \in 1..n : Stated(r, texts[m])) \/ Stated(r, t)
      <4>1. 1..(n + 1) = (1..n) \cup {n + 1}
        OBVIOUS
      <4> QED
        BY <4>1, Zenon DEF t
    <3>7. (\E m \in 1..(n + 1 - 1) : across(m)) <=>
            (\E m \in 1..(n - 1) : across(m)) \/ across(n)
      <4>1. 1..(n + 1 - 1) = (1..(n - 1)) \cup {n}
        OBVIOUS
      <4> QED
        BY <4>1, Zenon
    <3>8. t[Len(t)] = Last(texts[n + 1])
      BY DEF t, Last
    <3>9. Stated(r, f[n + 1]) <=> \/ \E m \in 1..(n + 1) : Stated(r, texts[m])
                                 \/ \E m \in 1..(n + 1 - 1) : across(m)
      BY <3>1, <3>5, <3>6, <3>7, Zenon
    <3>10. Len(f[n + 1]) # 0 /\ f[n + 1][Len(f[n + 1])] = Last(texts[n + 1])
      BY <3>1, <3>4, <3>8
    <3> QED
      BY <3>9, <3>10 DEF P
  <2> HIDE DEF P
  <2>5. 0 \in Good
    BY <2>3
  <2>6. ASSUME NEW n \in Nat, n \in Good PROVE n + 1 \in Good
    <3> SUFFICES ASSUME n + 1 + 1 \in 1..N PROVE P(n + 1 + 1)
      OBVIOUS
    <3>1. n + 1 \in 1..N
      BY <1>1
    <3> QED
      BY <2>4, <2>6, <3>1
  <2> HIDE DEF Good
  <2>7. \A n \in Nat : n \in Good
    BY <2>5, <2>6, SetInduction
  <2>8. P(N)
    <3>1. N - 1 \in Nat /\ N - 1 + 1 = N /\ N \in 1..N
      BY <1>1, <1>3
    <3>2. N - 1 \in Good
      BY <2>7, <3>1
    <3> QED
      BY <3>1, <3>2 DEF Good
  <2> QED
    BY <2>1, <2>8 DEF P, N, across
<1> QED
  BY <1>2, <1>3

\* The rules that are stated in the text of all hits are those that VerdictHolds finds in
\* the texts of the single hits.
LEMMA MatchedInTexts ==
  ASSUME SInv, NEW r
  PROVE  LET texts == [n \in 1..Len(hits) |-> Value(hits[n].chunk).text]
         IN  Stated(r, RuleText) <=>
               \/ \E n \in 1..Len(texts) : Stated(r, texts[n])
               \/ \E n \in 1..(Len(texts) - 1) :
                    /\ Last(texts[n]) = [part |-> "head", keyword |-> r]
                    /\ Head(texts[n + 1]) = [part |-> "tail", keyword |-> r]
<1> DEFINE texts == [n \in 1..Len(hits) |-> Value(hits[n].chunk).text]
<1>1. \A n \in 1..Len(hits) : hits[n].chunk \in 1..Len(chunks)
  BY DEF SInv, RankFits, Steps, HitIds
<1>2. \A n \in 1..Len(hits) : Value(hits[n].chunk).text \in Seq(Piece) \ {<<>>}
  BY <1>1, ValueType, ScenarioAssumption DEF SInv, VInv
<1>3. Len(hits) \in Nat
  BY DEF SInv, Steps
<1>4. texts \in Seq(Seq(Piece) \ {<<>>})
  BY <1>2, <1>3
<1>5. RuleText = FlattenSeq(texts)
  BY DEF RuleText
<1> HIDE DEF texts
<1>6. Stated(r, FlattenSeq(texts)) <=>
        \/ \E n \in 1..Len(texts) : Stated(r, texts[n])
        \/ \E n \in 1..(Len(texts) - 1) :
             /\ Last(texts[n]) = [part |-> "head", keyword |-> r]
             /\ Head(texts[n + 1]) = [part |-> "tail", keyword |-> r]
  BY <1>4, StatedInTexts
<1> QED
  BY <1>5, <1>6, Zenon DEF texts

LEMMA VerdictIsRight == SInv => VerdictHolds
<1> DEFINE texts == [n \in 1..Len(hits) |-> Value(hits[n].chunk).text]
           whole(r) == \E n \in 1..Len(texts) : Stated(r, texts[n])
           across(r) == \E n \in 1..(Len(texts) - 1) :
                          /\ Last(texts[n]) = [part |-> "head", keyword |-> r]
                          /\ Head(texts[n + 1]) = [part |-> "tail", keyword |-> r]
           found == {r \in Requirement : whole(r) \/ across(r)}
           unmet == {r \in found \cap Required :
                       \E c \in ComponentsOf[r] : \A item \in submitted : c \notin item}
<1> SUFFICES ASSUME SInv, pc = "done", purpose = "review"
             PROVE  /\ outcome.decision \in {"pass", "fail"} =>
                         submitted # {} /\ Cardinality(found) >= MinMatch
                    /\ outcome.decision = "pass" => unmet = {}
                    /\ outcome.decision = "fail" => unmet # {} /\ outcome.missing = unmet
  BY Zenon DEF VerdictHolds
<1>1. \A r : Stated(r, RuleText) <=> whole(r) \/ across(r)
  BY MatchedInTexts
<1> HIDE DEF texts, whole, across
<1>2. Matched = found
  BY <1>1 DEF Matched
<1> HIDE DEF found
<1>3. Missing(submitted) = unmet
  BY <1>2 DEF Missing, Covered
<1> HIDE DEF unmet
<1>4. /\ outcome.decision = Decision(submitted)
      /\ outcome.missing = IF Decision(submitted) = "fail" THEN Missing(submitted) ELSE {}
  BY DEF SInv, Responses
<1>5. /\ Decision(submitted) \in {"pass", "fail"} => submitted # {} /\ IsSufficient
      /\ Decision(submitted) = "pass" => Missing(submitted) = {}
      /\ Decision(submitted) = "fail" => Missing(submitted) # {}
  BY DEF Decision
<1> QED
  BY <1>2, <1>3, <1>4, <1>5 DEF IsSufficient

\* A verdict rests on rules that stand in the texts that were found, in one of them or
\* across the border of two; a pass has every component that they require, and a fail
\* names exactly those requirements that are not met (RuleDrivenChecklistDecisionService).
THEOREM VerdictsHold == Spec => []VerdictHolds
BY SearchInvariant, VerdictIsRight, PTL

-----------------------------------------------------------------------------
\* What is found is what the request may see.
LEMMA HitsAreVisible ==
  ASSUME SInv, NEW n \in 1..Len(hits)
  PROVE  request.document_id \in {None, chunks[hits[n].chunk].document}
<1>1. hits[n].chunk \in vectorHits \cup keywordHits
  BY DEF SInv, RankFits, HitIds
<1> QED
  BY <1>1 DEF SInv, VectorFresh, KeywordFresh, Visible

\* Without a hit no rule is found.
LEMMA VerdictHasHits ==
  ASSUME SInv, IsSufficient
  PROVE  hits # <<>>
<1> SUFFICES ASSUME hits = <<>> PROVE FALSE
  OBVIOUS
<1>1. Matched = {}
  <2>1. Len(hits) = 0 /\ Len([n \in 1..Len(hits) |-> Value(hits[n].chunk).text]) = 0
    OBVIOUS
  <2>2. \A r : ~Stated(r, RuleText)
    BY <2>1, MatchedInTexts
  <2> QED
    BY <2>2 DEF Matched
<1>2. Cardinality(Matched) = 0
  BY <1>1, FS_EmptySet
<1> QED
  BY <1>2, ScenarioAssumption DEF IsSufficient

LEMMA SourcesAreTold == SInv => ToldWithSources
<1> SUFFICES ASSUME SInv, pc = "done", purpose # "none"
             PROVE  /\ outcome.decision \in {"grounded", "pass", "fail"} =>
                         /\ outcome.citations # <<>>
                         /\ \A n \in 1..Len(outcome.citations) :
                              /\ outcome.citations[n] = hits[n].chunk
                              /\ request.document_id \in {None, chunks[hits[n].chunk].document}
                    /\ outcome.decision \in {"fixed", "error"} =>
                         outcome.citations = <<>> /\ outcome.shown = <<>>
                    /\ outcome.decision \in {"found", "grounded"} =>
                         Len(outcome.shown) = Len(hits)
                    /\ purpose = "review" /\ request.top_k <= AnswerTopK =>
                         Len(outcome.citations) = Len(hits)
  BY DEF ToldWithSources
<1> DEFINE firsts == Firsts(AnswerTopK)
<1>1. Len(hits) \in Nat /\ AnswerTopK \in Nat /\ AnswerTopK >= 1 /\ hits \in Seq(HitType)
  BY ScenarioAssumption DEF SInv, Steps
<1>2. /\ Len(firsts) = (IF AnswerTopK <= Len(hits) THEN AnswerTopK ELSE Len(hits))
      /\ \A n \in 1..Len(firsts) : n \in 1..Len(hits) /\ firsts[n] = hits[n].chunk
  BY <1>1, FirstsType
<1>3. hits # <<>> => firsts # <<>>
  <2>1. hits # <<>> => Len(hits) # 0
    BY <1>1, EmptySeq
  <2> QED
    BY <1>1, <1>2, <2>1
<1> HIDE DEF firsts
<1>4. \A n \in 1..Len(firsts) :
        request.document_id \in {None, chunks[hits[n].chunk].document}
  BY <1>2, HitsAreVisible
<1>5. Len(AllHits) = Len(hits)
  BY <1>1 DEF AllHits
<1>6. CASE purpose = "search"
  BY <1>5, <1>6 DEF SInv, Responses, NoOutcome
<1>7. CASE purpose = "ask"
  BY <1>2, <1>3, <1>4, <1>5, <1>7 DEF SInv, Responses, NoOutcome, Grounded, firsts
<1>8. CASE purpose = "review"
  <2>1. /\ outcome.decision = Decision(submitted) /\ outcome.citations = firsts
    BY <1>8 DEF SInv, Responses, firsts
  <2>2. /\ Decision(submitted) \in {"pass", "fail", "insufficient_evidence"}
        /\ Decision(submitted) \in {"pass", "fail"} => IsSufficient
    BY DEF Decision
  <2>3. request.top_k <= AnswerTopK => Len(firsts) = Len(hits)
    <3>1. request.top_k \in Nat
      BY LimitType DEF SInv, Steps
    <3>2. Len(hits) # 0 => Len(hits) <= request.top_k
      BY <1>1 DEF SInv, RankFits
    <3> QED
      BY <1>1, <1>2, <3>1, <3>2
  <2> QED
    BY <1>2, <1>3, <1>4, <1>8, <2>1, <2>2, <2>3, VerdictHasHits
<1> QED
  BY <1>6, <1>7, <1>8 DEF SInv, Responses

\* Whoever is told something can look it up: answers and verdicts cite the chunks that
\* rank first, all of them chunks that the request may see, and without evidence no
\* source is shown (RagApplicationFacade, RuleDrivenChecklistDecisionService).
THEOREM ToldSources == Spec => []ToldWithSources
BY SearchInvariant, SourcesAreTold, PTL
=============================================================================
