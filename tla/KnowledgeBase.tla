---------------------------- MODULE KnowledgeBase ----------------------------
(***************************************************************************)
(* The knowledge base as its server processes use it: the tables of policy  *)
(* documents and their versions, and the requests that write them (ingest,  *)
(* retry, publish).  Each request is one database transaction run by one    *)
(* server process through an ORM session; the statements of requests in     *)
(* different processes interleave under READ COMMITTED isolation.           *)
(*                                                                         *)
(* A handler never yields between its statements, so one process runs one   *)
(* request at a time: Worker is the set of processes, and a singleton       *)
(* Worker is the single-process deployment.                                 *)
(***************************************************************************)
EXTENDS Naturals, Sequences

CONSTANTS Worker,     \* server processes that share the database
          DocId,      \* keys of kb_policy_document
          VersionId,  \* keys of kb_policy_version
          Policy,     \* (policy_name, policy_category) pairs
          Label,      \* version labels that clients give
          File,       \* file contents: what file_hash tells apart
          MaxSuffix,  \* bound on the label suffix tried
          None        \* SQL NULL, and "no such row"

ASSUME NoneIsFresh == /\ None \notin DocId
                      /\ None \notin VersionId
                      /\ None \notin Policy
                      /\ None \notin Label
                      /\ None \notin File
ASSUME MaxSuffixNat == MaxSuffix \in Nat

VARIABLES
  document,  \* committed rows of kb_policy_document
  version,   \* committed rows of kb_policy_version
  pc,        \* the statement a worker's request executes next
  sess       \* its ORM session: the objects as loaded and the rows to write

tables == <<document, version>>
vars == <<document, version, pc, sess>>

-----------------------------------------------------------------------------
(* Rows.  A row is absent when its policy (document) or doc (version) is    *)
(* None.  dept says whether responsible_department is filled in.            *)

VersionStatus == {"draft", "active", "superseded"}

DocumentRow == [policy : Policy \cup {None}, dept : BOOLEAN,
                current : VersionId \cup {None}, latest : VersionId \cup {None},
                status : {"draft", "active"}]

\* A stored label is one that a client gave, and the suffixes it has got since.
StoredLabel == (Label \cup {None}) \X Seq(Nat)
Plain(b) == <<b, <<>>>>

VersionRow == [doc : DocId \cup {None}, seq : Nat,
               label : StoredLabel, file : File \cup {None},
               prev : VersionId \cup {None}, status : VersionStatus]

NewDocument(p, dep) == [policy |-> p, dept |-> dep, current |-> None,
                        latest |-> None, status |-> "draft"]
NoVersion == [doc |-> None, seq |-> 0, label |-> Plain(None), file |-> None,
              prev |-> None, status |-> "draft"]

Documents == {d \in DocId : document[d].policy # None}
VersionsOf(d) == {v \in VersionId : version[v].doc = d}

(* A session: the document object (row as loaded or created), whether this  *)
(* transaction created it or must fill in its department, and either the    *)
(* version being published with the statuses loaded, or the one being       *)
(* ingested with the values computed for it.                                *)
Session == [doc : DocId \cup {None}, row : DocumentRow, created : BOOLEAN,
            fill : BOOLEAN, ver : VersionId \cup {None},
            loaded : VersionStatus, prior : VersionStatus,
            base : StoredLabel, file : File \cup {None},
            seq : Nat, suffix : Nat]

NewSession == [doc |-> None, row |-> NewDocument(None, FALSE), created |-> FALSE,
               fill |-> FALSE, ver |-> None, loaded |-> "draft",
               prior |-> "draft", base |-> Plain(None), file |-> None,
               seq |-> 0, suffix |-> 0]

IngestPC == {"loadTarget", "maxSeq", "labels", "fill", "insert", "commit"}
PublishPC == {"loadDocument", "loadPrevious", "publish"}

Init == /\ document = [d \in DocId |-> NewDocument(None, FALSE)]
        /\ version = [v \in VersionId |-> NoVersion]
        /\ pc = [w \in Worker |-> "idle"]
        /\ sess = [w \in Worker |-> NewSession]

-----------------------------------------------------------------------------
(* Locks and uncommitted rows.                                              *)

\* The label as it is, or "label-k"; 1 stands for no suffix.
WithSuffix(l, k) == IF k = 1 THEN l ELSE <<l[1], Append(l[2], k)>>

\* Faulty variant: the row names the published version as its predecessor.
DraftRowCurrent(w) ==
  [doc |-> sess[w].doc, seq |-> sess[w].seq,
   label |-> WithSuffix(sess[w].base, sess[w].suffix), file |-> sess[w].file,
   prev |-> sess[w].row.current, status |-> "draft"]

\* The version row an ingest writes: next_seq, the label made unique, and the
\* previous version as the session's document object has it.
DraftRow(w) ==
  [doc |-> sess[w].doc, seq |-> sess[w].seq,
   label |-> WithSuffix(sess[w].base, sess[w].suffix), file |-> sess[w].file,
   prev |-> sess[w].row.latest, status |-> "draft"]

\* Faulty variant: no constraint on the number.
ConflictNoSeq(r, s) == r.doc = s.doc /\ (r.label = s.label \/ r.file = s.file)

\* The UNIQUE constraints (policy_id, version_seq / version_label / file_hash).
Conflict(r, s) == /\ r.doc = s.doc
                  /\ r.seq = s.seq \/ r.label = s.label \/ r.file = s.file

\* w has flushed the UPDATE of its document's department and not yet ended.
HoldsRow(w, d) == /\ pc[w] \in {"insert", "commit"}
                  /\ sess[w].fill
                  /\ sess[w].doc = d
RowFree(w) == \A u \in Worker \ {w} : ~HoldsRow(u, sess[w].doc)

\* w's version row is inserted and uncommitted.
Inserted(w) == pc[w] = "commit"

\* Keys no row has, committed or not.
FreshVersions == {v \in VersionId :
                    /\ version[v].doc = None
                    /\ \A w \in Worker : pc[w] \in IngestPC => sess[w].ver # v}
FreshDocuments == {d \in DocId :
                     /\ document[d].policy = None
                     /\ \A w \in Worker : sess[w].created => sess[w].doc # d}

\* session.rollback() or the end of the connection: nothing was written.
Rollback(w) == /\ pc' = [pc EXCEPT ![w] = "idle"]
               /\ sess' = [sess EXCEPT ![w] = NewSession]
               /\ UNCHANGED tables

-----------------------------------------------------------------------------
(* Ingest.  The file has been parsed, split and embedded before the first   *)
(* statement.  The key of the new version is drawn when the request starts: *)
(* nobody sees it before the commit.                                        *)

StartIngest(w, d, r, new, fil, b, f, next) ==
  /\ pc[w] = "idle"
  /\ \E v \in FreshVersions :
       sess' = [sess EXCEPT ![w] =
                  [NewSession EXCEPT !.doc = d, !.row = r, !.created = new,
                                     !.fill = fil, !.ver = v, !.base = b,
                                     !.file = f]]
  /\ pc' = [pc EXCEPT ![w] = next]
  /\ UNCHANGED tables

\* target_document_id is given and the document exists (otherwise ValueError).
IngestTarget(w, d, b, f) ==
  /\ d \in Documents
  /\ StartIngest(w, d, document[d], FALSE, FALSE, Plain(b), f, "maxSeq")

\* get_retry_source reads the label and path of the latest version; the file
\* is whatever that path holds by now.  Only values are kept, so the ingest
\* that follows the pipeline loads the document again.
RetryIngest(w, d, f) ==
  /\ d \in Documents
  /\ document[d].latest # None
  /\ StartIngest(w, d, NewDocument(None, FALSE), FALSE, FALSE,
                 version[document[d].latest].label, f, "loadTarget")

LoadTarget(w) ==
  /\ pc[w] = "loadTarget"
  /\ sess' = [sess EXCEPT ![w].row = document[sess[w].doc]]
  /\ pc' = [pc EXCEPT ![w] = "maxSeq"]
  /\ UNCHANGED tables

\* No target: the first document found with the policy's name and category.
\* An empty department is filled in from the request.
IngestExisting(w, p, dep, b, f) ==
  \E d \in DocId :
    /\ document[d].policy = p
    /\ StartIngest(w, d, document[d], FALSE, dep /\ ~document[d].dept,
                   Plain(b), f, "maxSeq")

\* Faulty variant: the document is created without looking for one.
IngestNewAlways(w, p, dep, b, f) ==
  \E d \in FreshDocuments :
    StartIngest(w, d, NewDocument(p, dep), TRUE, FALSE, Plain(b), f, "maxSeq")

\* None found: a new document is inserted (flushed, uncommitted).
IngestNew(w, p, dep, b, f) ==
  /\ \A d \in DocId : document[d].policy # p
  /\ \E d \in FreshDocuments :
       StartIngest(w, d, NewDocument(p, dep), TRUE, FALSE, Plain(b), f, "maxSeq")

\* Faulty variant: the WHERE policy_id is missing.
MaxSeqAnywhere(d) ==
  LET all == {version[v].seq : v \in VersionId}
  IN  CHOOSE n \in all : \A m \in all : m <= n

\* max(version_seq) or 0, over the document's committed versions.
MaxSeq(d) == IF VersionsOf(d) = {} THEN 0
             ELSE LET top == CHOOSE v \in VersionsOf(d) :
                               \A u \in VersionsOf(d) : version[u].seq <= version[v].seq
                  IN  version[top].seq

ReadMaxSeq(w) ==
  /\ pc[w] = "maxSeq"
  /\ sess' = [sess EXCEPT ![w].seq = MaxSeq(sess[w].doc) + 1]
  /\ pc' = [pc EXCEPT ![w] = "labels"]
  /\ UNCHANGED tables

\* The first free suffix: none, then -2, -3, ...  A retry starts from a stored
\* label, which may have one already.
ReadLabels(w) ==
  /\ pc[w] = "labels"
  /\ LET taken(k) == \E v \in VersionsOf(sess[w].doc) :
                       version[v].label = WithSuffix(sess[w].base, k)
     IN  \E k \in 1..MaxSuffix :
           /\ ~taken(k)
           /\ \A j \in 1..(k - 1) : taken(j)
           /\ sess' = [sess EXCEPT ![w].suffix = k]
  /\ pc' = [pc EXCEPT ![w] = IF sess[w].fill THEN "fill" ELSE "insert"]
  /\ UNCHANGED tables

\* The flush writes the changed document before the new version.
FillDepartment(w) ==
  /\ pc[w] = "fill"
  /\ RowFree(w)
  /\ pc' = [pc EXCEPT ![w] = "insert"]
  /\ UNCHANGED <<document, version, sess>>

\* INSERT of the version, then of its blocks, sections and chunks.  It waits
\* for an uncommitted row that conflicts.
InsertVersion(w) ==
  /\ pc[w] = "insert"
  /\ \A v \in VersionId : ~Conflict(DraftRow(w), version[v])
  /\ \A u \in Worker \ {w} : Inserted(u) => ~Conflict(DraftRow(w), DraftRow(u))
  /\ pc' = [pc EXCEPT ![w] = "commit"]
  /\ UNCHANGED <<document, version, sess>>

\* Faulty variant: the error is swallowed and the insert tried again.
InsertRetried(w) ==
  /\ pc[w] = "insert"
  /\ \E v \in VersionId : Conflict(DraftRow(w), version[v])
  /\ UNCHANGED vars

\* IntegrityError: a committed version already has the number, label or file.
InsertRejected(w) ==
  /\ pc[w] = "insert"
  /\ \E v \in VersionId : Conflict(DraftRow(w), version[v])
  /\ Rollback(w)

\* Faulty variant: the whole row is written back as it was loaded.
CommitIngestWhole(w) ==
  /\ pc[w] = "commit"
  /\ RowFree(w)
  /\ document' = [document EXCEPT ![sess[w].doc] =
                    [sess[w].row EXCEPT !.latest = sess[w].ver,
                                        !.dept = @ \/ sess[w].fill]]
  /\ version' = [version EXCEPT ![sess[w].ver] = DraftRow(w)]
  /\ pc' = [pc EXCEPT ![w] = "idle"]
  /\ sess' = [sess EXCEPT ![w] = NewSession]

\* document.latest_version_id = version.id, flushed and committed.  Columns
\* the session did not change keep what other transactions wrote.
CommitIngest(w) ==
  /\ pc[w] = "commit"
  /\ RowFree(w)
  /\ LET d == sess[w].doc
         old == IF sess[w].created THEN sess[w].row ELSE document[d]
     IN  document' = [document EXCEPT ![d] =
                        [old EXCEPT !.latest = sess[w].ver,
                                    !.dept = @ \/ sess[w].fill]]
  /\ version' = [version EXCEPT ![sess[w].ver] = DraftRow(w)]
  /\ pc' = [pc EXCEPT ![w] = "idle"]
  /\ sess' = [sess EXCEPT ![w] = NewSession]

-----------------------------------------------------------------------------
(* Publication.                                                             *)

\* SELECT the version by id and policy_id; none is a ValueError.
LoadVersion(w, d, v) ==
  /\ pc[w] = "idle"
  /\ v \in VersionsOf(d)
  /\ sess' = [sess EXCEPT ![w] = [NewSession EXCEPT !.doc = d, !.ver = v,
                                                    !.loaded = version[v].status]]
  /\ pc' = [pc EXCEPT ![w] = "loadDocument"]
  /\ UNCHANGED tables

\* The current version is to be superseded unless it is the one published.
Supersedes(w) == sess[w].row.current \notin {None, sess[w].ver}

LoadDocument(w) ==
  /\ pc[w] = "loadDocument"
  /\ sess' = [sess EXCEPT ![w].row = document[sess[w].doc]]
  /\ pc' = [pc EXCEPT ![w] = IF document[sess[w].doc].current \in {None, sess[w].ver}
                             THEN "publish" ELSE "loadPrevious"]
  /\ UNCHANGED tables

LoadPrevious(w) ==
  /\ pc[w] = "loadPrevious"
  /\ sess' = [sess EXCEPT ![w].prior = version[sess[w].row.current].status]
  /\ pc' = [pc EXCEPT ![w] = "publish"]
  /\ UNCHANGED tables

\* The ORM writes an attribute only if it differs from what was loaded.
WritesDocument(w) == sess[w].row.current # sess[w].ver \/ sess[w].row.status # "active"

\* Faulty variant: the previous version keeps its status.
NewStatusKeep(w, v) ==
  IF v = sess[w].ver THEN "active" ELSE version[v].status

NewStatus(w, v) ==
  IF v = sess[w].ver /\ sess[w].loaded # "active" THEN "active"
  ELSE IF Supersedes(w) /\ v = sess[w].row.current /\ sess[w].prior # "superseded"
       THEN "superseded"
       ELSE version[v].status

CommitPublish(w) ==
  /\ pc[w] = "publish"
  /\ WritesDocument(w) => RowFree(w)
  /\ document' = IF WritesDocument(w)
                 THEN [document EXCEPT ![sess[w].doc] =
                         [@ EXCEPT !.current = sess[w].ver, !.status = "active"]]
                 ELSE document
  /\ version' = [v \in VersionId |-> [version[v] EXCEPT !.status = NewStatus(w, v)]]
  /\ pc' = [pc EXCEPT ![w] = "idle"]
  /\ sess' = [sess EXCEPT ![w] = NewSession]

-----------------------------------------------------------------------------
(* Failures.                                                                *)

\* w waits for a lock that u holds.
WaitsFor(w, u) ==
  /\ u # w
  /\ \/ pc[w] \in {"fill", "commit"} /\ HoldsRow(u, sess[w].doc)
     \/ pc[w] = "publish" /\ WritesDocument(w) /\ HoldsRow(u, sess[w].doc)
     \/ pc[w] = "insert" /\ Inserted(u) /\ Conflict(DraftRow(w), DraftRow(u))

\* The database breaks a cycle of waits by aborting one of the transactions.
DeadlockVictim(w) ==
  /\ \E u \in Worker : WaitsFor(w, u) /\ WaitsFor(u, w)
  /\ Rollback(w)

\* An exception in any statement, or the process or its connection dies.
Fail(w) == /\ pc[w] # "idle"
           /\ Rollback(w)

-----------------------------------------------------------------------------
Start(w) ==
  \/ \E d \in DocId, b \in Label, f \in File : IngestTarget(w, d, b, f)
  \/ \E d \in DocId, f \in File : RetryIngest(w, d, f)
  \/ \E p \in Policy, dep \in BOOLEAN, b \in Label, f \in File :
       IngestExisting(w, p, dep, b, f) \/ IngestNew(w, p, dep, b, f)
  \/ \E d \in DocId, v \in VersionId : LoadVersion(w, d, v)

Continue(w) ==
  \/ LoadTarget(w) \/ ReadMaxSeq(w) \/ ReadLabels(w) \/ FillDepartment(w)
  \/ InsertVersion(w) \/ InsertRejected(w) \/ CommitIngest(w)
  \/ LoadDocument(w) \/ LoadPrevious(w) \/ CommitPublish(w)
  \/ DeadlockVictim(w)

Next == \E w \in Worker : Start(w) \/ Continue(w) \/ Fail(w)

Spec == Init /\ [][Next]_vars

\* A started request keeps running.  The database queues the waiters of a
\* lock, so a waiter that is free to proceed again and again does proceed.
Waiting(w) == FillDepartment(w) \/ InsertVersion(w) \/ CommitIngest(w)
                \/ CommitPublish(w)
Fairness == \A w \in Worker : WF_vars(Continue(w)) /\ SF_vars(Waiting(w))
FairSpec == Spec /\ Fairness

-----------------------------------------------------------------------------
(* Properties.                                                              *)

\* The tables and the sessions hold values of their columns' types.
TypeOK == /\ document \in [DocId -> DocumentRow]
          /\ version \in [VersionId -> VersionRow]
          /\ pc \in [Worker -> {"idle"} \cup IngestPC \cup PublishPC]
          /\ sess \in [Worker -> Session]

\* latest_version_id names the document's version with the highest number,
\* also when ingests of the same document overlap: a commit that comes late
\* never points a document back at an older version.
LatestIsNewest ==
  \A d \in Documents :
    LET l == document[d].latest
    IN  /\ l \in VersionsOf(d)
        /\ \A v \in VersionsOf(d) \ {l} : version[v].seq < version[l].seq

\* version_seq numbers a document's generations 1, 2, 3, ... without a gap or
\* a repetition, whatever ingests fail or overlap.
NumberedByGeneration ==
  \A d \in Documents : \A v \in VersionsOf(d) :
    /\ \A n \in 1..version[v].seq : \E u \in VersionsOf(d) : version[u].seq = n
    /\ \A u \in VersionsOf(d) : version[u].seq = version[v].seq => u = v

\* previous_version_id leads to an older version of the same document, and
\* only the first version has none (revision_type "initial").
ChainGoesBack ==
  \A d \in Documents : \A v \in VersionsOf(d) :
    /\ version[v].prev = None <=> version[v].seq = 1
    /\ version[v].prev # None =>
         /\ version[v].prev \in VersionsOf(d)
         /\ version[version[v].prev].seq < version[v].seq

\* The version chain visits every generation: a version's predecessor is the
\* one numbered just before it.
ChainComplete(d) ==
  \A v \in VersionsOf(d) :
    version[v].prev # None => version[version[v].prev].seq + 1 = version[v].seq

\* A document with a current version is active, and that version is the one
\* and only version with status "active".
CurrentIsActive(d) ==
  /\ document[d].status = "active" <=> document[d].current # None
  /\ {v \in VersionsOf(d) : version[v].status = "active"}
       = {document[d].current} \ {None}
PublishedIsActive == \A d \in Documents : CurrentIsActive(d)

\* latest_version_id only ever moves to the next generation of its document.
LatestAdvances ==
  [][\A d \in Documents :
       document'[d].latest # document[d].latest =>
         version'[document'[d].latest].seq = version[document[d].latest].seq + 1]_vars

\* The interleaved requests implement the atomic catalog: a document's history
\* lists its versions by number.
History(d) == [n \in 1..MaxSeq(d) |->
                 CHOOSE v \in VersionsOf(d) : version[v].seq = n]
Catalog == INSTANCE VersionCatalog WITH
             history <- [d \in DocId |-> History(d)],
             newest <- [d \in DocId |-> document[d].latest],
             published <- [d \in DocId |-> document[d].current]
ImplementsCatalog == Catalog!Spec

\* Every request ends, although requests wait for each other's locks.
RequestsFinish == \A w \in Worker : pc[w] # "idle" ~> pc[w] = "idle"
-----------------------------------------------------------------------------
(* The inductive invariant.                                                 *)

\* Every version belongs to a stored document (the foreign key), is numbered
\* from 1, and together they are numbered, chained and pointed at as promised.
TablesOK == /\ \A v \in VersionId : version[v].doc # None =>
                 version[v].doc \in Documents /\ version[v].seq >= 1
            /\ \A d \in DocId \ Documents : document[d].current = None
            /\ LatestIsNewest
            /\ NumberedByGeneration
            /\ ChainGoesBack

\* An ingest writes an unused key; a document it creates is not stored yet.
IngestOK(w) ==
  /\ sess[w].ver \in VersionId
  /\ version[sess[w].ver].doc = None
  /\ sess[w].doc \in DocId
  /\ sess[w].created => /\ document[sess[w].doc].policy = None
                        /\ sess[w].row.policy # None
                        /\ sess[w].row.latest = None
                        /\ sess[w].row.current = None
                        /\ pc[w] # "loadTarget"
  /\ ~sess[w].created => /\ sess[w].doc \in Documents
                         /\ pc[w] # "loadTarget" =>
                              sess[w].row.latest \in VersionsOf(sess[w].doc)

\* The number it took is 1, or one more than the number of a stored version;
\* it is above the number of the previous version.
NumberOK(w) ==
  /\ sess[w].seq >= 1
  /\ sess[w].seq # 1 => \E v \in VersionsOf(sess[w].doc) :
                          version[v].seq + 1 = sess[w].seq
  /\ ~sess[w].created => version[sess[w].row.latest].seq < sess[w].seq

SessionOK(w) ==
  /\ pc[w] \in IngestPC => IngestOK(w)
  /\ pc[w] \notin IngestPC => ~sess[w].created
  /\ pc[w] \in {"labels", "fill", "insert", "commit"} => NumberOK(w)
  /\ pc[w] = "commit" => \A v \in VersionsOf(sess[w].doc) :
                            version[v].seq # sess[w].seq
  /\ pc[w] \in PublishPC => /\ sess[w].doc \in Documents
                             /\ sess[w].ver \in VersionsOf(sess[w].doc)
  /\ pc[w] = "loadPrevious" => sess[w].row.current # None

\* Two requests write different keys, and of two inserted rows of a document
\* the numbers differ: the second insert waited for the first.
Apart(w, u) ==
  /\ pc[w] \in IngestPC /\ pc[u] \in IngestPC => sess[w].ver # sess[u].ver
  /\ sess[w].created /\ sess[u].created => sess[w].doc # sess[u].doc
  /\ pc[w] = "commit" /\ pc[u] = "commit" /\ sess[w].doc = sess[u].doc =>
       sess[w].seq # sess[u].seq

IInv == /\ TypeOK
        /\ TablesOK
        /\ \A w \in Worker : SessionOK(w)
        /\ \A w, u \in Worker : w # u => Apart(w, u)
=============================================================================
