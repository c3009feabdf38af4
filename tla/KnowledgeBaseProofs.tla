------------------------ MODULE KnowledgeBaseProofs -------------------------
(***************************************************************************)
(* Proofs that the safety properties of KnowledgeBase hold, and that it     *)
(* implements VersionCatalog, for any number of server processes, documents, *)
(* versions, labels and files; then that an overlap of two requests, as     *)
(* KnowledgeBaseOverlap notes it, is necessary for each anomaly.            *)
(***************************************************************************)
EXTENDS KnowledgeBaseOverlap, Sequences, SequenceTheorems, TLAPS

\* A client's label is a stored label, and so is one with a suffix appended.
LEMMA LabelTypes ==
  /\ \A b \in Label \cup {None} : Plain(b) \in StoredLabel
  /\ \A l \in StoredLabel, k \in Nat : WithSuffix(l, k) \in StoredLabel
<1>1. \A b \in Label \cup {None} : Plain(b) \in StoredLabel
  <2>1. << >> \in Seq(Nat)
    OBVIOUS
  <2>2. \A t \in Seq(Nat), b \in Label \cup {None} :
          <<b, t>> \in (Label \cup {None}) \X Seq(Nat)
    OBVIOUS
  <2> QED
    BY <2>1, <2>2, Zenon DEF Plain, StoredLabel
<1>2. ASSUME NEW l \in StoredLabel, NEW k \in Nat PROVE WithSuffix(l, k) \in StoredLabel
  <2>1. l[1] \in Label \cup {None} /\ l[2] \in Seq(Nat)
    BY DEF StoredLabel
  <2>2. Append(l[2], k) \in Seq(Nat)
    BY <2>1
  <2> QED
    BY <2>1, <2>2 DEF WithSuffix, StoredLabel
<1> QED
  BY <1>1, <1>2

LEMMA NewSessionType == NewSession \in Session
BY LabelTypes DEF Session, NewSession, NewDocument, DocumentRow, VersionStatus

\* The tables and sessions are empty to begin with.
LEMMA InitInvariant == Init => IInv
<1> SUFFICES ASSUME Init PROVE IInv
  OBVIOUS
<1>1. TypeOK
  BY NoneIsFresh, LabelTypes, NewSessionType DEF Init, TypeOK, NewDocument, NoVersion,
     DocumentRow, VersionRow, VersionStatus
<1>2. /\ \A d \in DocId : d \notin Documents /\ VersionsOf(d) = {}
      /\ \A v \in VersionId : version[v].doc = None
      /\ \A d \in DocId : document[d].current = None
  BY NoneIsFresh DEF Init, Documents, VersionsOf, NewDocument, NoVersion
<1>3. TablesOK
  BY <1>2 DEF TablesOK, LatestIsNewest, NumberedByGeneration, ChainGoesBack, Documents
<1>4. \A w \in Worker : SessionOK(w)
  BY DEF Init, SessionOK, IngestPC, PublishPC, NewSession
<1>5. \A w, u \in Worker : w # u => Apart(w, u)
  BY DEF Init, Apart, IngestPC, NewSession
<1> QED
  BY <1>1, <1>3, <1>4, <1>5 DEF IInv

-----------------------------------------------------------------------------
(* Steps that leave the tables alone.                                       *)

\* A step of w that writes no table keeps the invariant if w's own session is
\* in order afterwards and apart from the others.
LEMMA QuietStep ==
  ASSUME IInv, NEW w \in Worker, UNCHANGED tables, TypeOK', SessionOK(w)',
         \A u \in Worker \ {w} : pc'[u] = pc[u] /\ sess'[u] = sess[u],
         \A u \in Worker \ {w} : Apart(w, u)' /\ Apart(u, w)'
  PROVE  IInv'
<1>1. document' = document /\ version' = version
  BY DEF tables
<1>2. TablesOK'
  BY <1>1 DEF IInv, TablesOK, LatestIsNewest, NumberedByGeneration, ChainGoesBack,
     Documents, VersionsOf
<1>3. ASSUME NEW u \in Worker \ {w} PROVE SessionOK(u)'
  <2>1. SessionOK(u) /\ pc'[u] = pc[u] /\ sess'[u] = sess[u]
    BY <1>3 DEF IInv
  <2> QED
    BY <1>1, <2>1 DEF SessionOK, IngestOK, NumberOK, Documents, VersionsOf
<1>4. ASSUME NEW u \in Worker \ {w}, NEW t \in Worker \ {w}, u # t PROVE Apart(u, t)'
  <2>1. /\ Apart(u, t) /\ pc'[u] = pc[u] /\ sess'[u] = sess[u]
        /\ pc'[t] = pc[t] /\ sess'[t] = sess[t]
    BY <1>4 DEF IInv
  <2> QED
    BY <2>1 DEF Apart
<1>5. \A u \in Worker : SessionOK(u)'
  BY <1>3
<1>6. \A u, t \in Worker : u # t => Apart(u, t)'
  BY <1>4
<1> QED
  BY <1>2, <1>5, <1>6 DEF IInv

\* A request that ends without writing keeps the invariant.
LEMMA RollbackStep == ASSUME IInv, NEW w \in Worker, Rollback(w) PROVE IInv'
<1>1. /\ pc'[w] = "idle" /\ sess'[w] = NewSession
      /\ \A u \in Worker \ {w} : pc'[u] = pc[u] /\ sess'[u] = sess[u]
      /\ UNCHANGED tables
  BY DEF IInv, TypeOK, Rollback
<1>2. TypeOK'
  BY <1>1, NewSessionType DEF IInv, TypeOK, Rollback, tables
<1>3. SessionOK(w)'
  BY <1>1 DEF SessionOK, IngestPC, PublishPC, NewSession
<1>4. \A u \in Worker \ {w} : Apart(w, u)' /\ Apart(u, w)'
  BY <1>1 DEF Apart, IngestPC, NewSession
<1> QED
  BY <1>1, <1>2, <1>3, <1>4, QuietStep

\* The start of an ingest: r is the document object the session holds.
LEMMA StartIngestStep ==
  ASSUME IInv, NEW w \in Worker, NEW d \in DocId, NEW r \in DocumentRow,
         NEW new \in BOOLEAN, NEW fil \in BOOLEAN, NEW b \in StoredLabel,
         NEW f \in File, NEW next \in {"loadTarget", "maxSeq"},
         StartIngest(w, d, r, new, fil, b, f, next),
         new => /\ document[d].policy = None /\ r.policy # None
                /\ r.latest = None /\ r.current = None /\ next = "maxSeq"
                /\ \A u \in Worker : sess[u].created => sess[u].doc # d,
         ~new => /\ d \in Documents
                 /\ next = "maxSeq" => r.latest \in VersionsOf(d)
  PROVE  IInv'
<1>1. PICK v \in FreshVersions :
        sess' = [sess EXCEPT ![w] =
                   [NewSession EXCEPT !.doc = d, !.row = r, !.created = new,
                                      !.fill = fil, !.ver = v, !.base = b,
                                      !.file = f]]
  BY DEF StartIngest
<1>2. /\ pc' = [pc EXCEPT ![w] = next] /\ pc[w] = "idle" /\ UNCHANGED tables
      /\ document' = document /\ version' = version
  BY DEF StartIngest, tables
<1>3. /\ pc'[w] = next
      /\ sess'[w] = [NewSession EXCEPT !.doc = d, !.row = r, !.created = new,
                                      !.fill = fil, !.ver = v, !.base = b,
                                      !.file = f]
      /\ \A u \in Worker \ {w} : pc'[u] = pc[u] /\ sess'[u] = sess[u]
  BY <1>1, <1>2 DEF IInv, TypeOK
<1>4. v \in VersionId /\ version[v].doc = None
      /\ \A u \in Worker : pc[u] \in IngestPC => sess[u].ver # v
  BY DEF FreshVersions
<1>5. sess'[w] \in Session
  BY <1>3, <1>4, NewSessionType DEF Session
<1>6. TypeOK'
  BY <1>1, <1>2, <1>3, <1>5 DEF IInv, TypeOK, IngestPC
<1>7. SessionOK(w)'
  <2>1. /\ sess'[w].ver = v /\ sess'[w].doc = d /\ sess'[w].created = new
        /\ sess'[w].row = r
    BY <1>3, NewSessionType DEF Session
  <2>2. IngestOK(w)'
    BY <2>1, <1>2, <1>3, <1>4 DEF IngestOK, Documents, VersionsOf
  <2> QED
    BY <2>2, <1>3 DEF SessionOK, IngestPC, PublishPC
<1>8. ASSUME NEW u \in Worker \ {w} PROVE Apart(w, u)' /\ Apart(u, w)'
  <2>1. /\ sess'[w].ver = v /\ sess'[w].doc = d /\ sess'[w].created = new
        /\ sess'[u] = sess[u] /\ pc'[u] = pc[u]
    BY <1>3, NewSessionType DEF Session
  <2> QED
    BY <2>1, <1>3, <1>4 DEF Apart
<1> QED
  BY <1>2, <1>3, <1>6, <1>7, <1>8, QuietStep

\* A stored document's row and latest version are what a session may rely on.
LEMMA StoredDocument ==
  ASSUME IInv, NEW d \in Documents
  PROVE  /\ d \in DocId /\ document[d] \in DocumentRow
         /\ document[d].latest \in VersionsOf(d)
         /\ document[d].latest \in VersionId
BY DEF IInv, TypeOK, TablesOK, LatestIsNewest, Documents, VersionsOf

LEMMA StartStep == ASSUME IInv, NEW w \in Worker, Start(w) PROVE IInv'
<1>1. ASSUME NEW d \in DocId, NEW b \in Label, NEW f \in File, IngestTarget(w, d, b, f)
      PROVE  IInv'
  BY <1>1, LabelTypes, StoredDocument, StartIngestStep DEF IngestTarget
<1>2. ASSUME NEW d \in DocId, NEW f \in File, RetryIngest(w, d, f) PROVE IInv'
  <2>1. d \in Documents /\ document[d].latest \in VersionId
    BY <1>2, StoredDocument DEF RetryIngest
  <2>2. version[document[d].latest].label \in StoredLabel
    BY <2>1 DEF IInv, TypeOK, VersionRow
  <2>3. NewDocument(None, FALSE) \in DocumentRow
    BY DEF NewDocument, DocumentRow
  <2> QED
    BY <1>2, <2>1, <2>2, <2>3, StartIngestStep DEF RetryIngest
<1>3. ASSUME NEW p \in Policy, NEW dep \in BOOLEAN, NEW b \in Label, NEW f \in File,
             IngestExisting(w, p, dep, b, f)
      PROVE  IInv'
  <2>1. PICK d \in DocId :
          /\ document[d].policy = p
          /\ StartIngest(w, d, document[d], FALSE, dep /\ ~document[d].dept, Plain(b), f,
                         "maxSeq")
    BY <1>3 DEF IngestExisting
  <2>2. d \in Documents
    BY <2>1, NoneIsFresh DEF Documents
  <2>3. (dep /\ ~document[d].dept) \in BOOLEAN
    OBVIOUS
  <2> QED
    BY <2>1, <2>2, <2>3, LabelTypes, StoredDocument, StartIngestStep
<1>4. ASSUME NEW p \in Policy, NEW dep \in BOOLEAN, NEW b \in Label, NEW f \in File,
             IngestNew(w, p, dep, b, f)
      PROVE  IInv'
  <2>1. PICK d \in FreshDocuments :
          StartIngest(w, d, NewDocument(p, dep), TRUE, FALSE, Plain(b), f, "maxSeq")
    BY <1>4 DEF IngestNew
  <2>2. /\ NewDocument(p, dep) \in DocumentRow
        /\ NewDocument(p, dep).policy # None /\ NewDocument(p, dep).latest = None
        /\ NewDocument(p, dep).current = None
    BY NoneIsFresh DEF NewDocument, DocumentRow
  <2>3. /\ d \in DocId /\ document[d].policy = None
        /\ \A u \in Worker : sess[u].created => sess[u].doc # d
    BY DEF FreshDocuments
  <2> QED
    BY <2>1, <2>2, <2>3, LabelTypes, StartIngestStep
<1>5. ASSUME NEW d \in DocId, NEW v \in VersionId, LoadVersion(w, d, v) PROVE IInv'
  <2>1. /\ pc'[w] = "loadDocument" /\ UNCHANGED tables
        /\ version' = version /\ document' = document
        /\ sess'[w] = [NewSession EXCEPT !.doc = d, !.ver = v, !.loaded = version[v].status]
        /\ \A u \in Worker \ {w} : pc'[u] = pc[u] /\ sess'[u] = sess[u]
    BY <1>5 DEF LoadVersion, IInv, TypeOK, tables
  <2>2. version[v].status \in VersionStatus /\ v \in VersionsOf(d)
    BY <1>5 DEF LoadVersion, IInv, TypeOK, VersionRow
  <2>3. sess'[w] \in Session
    BY <2>1, <2>2, NewSessionType DEF Session
  <2>4. TypeOK'
    BY <1>5, <2>1, <2>3 DEF LoadVersion, IInv, TypeOK, PublishPC
  <2>5. /\ sess'[w].doc = d /\ sess'[w].ver = v /\ ~sess'[w].created
    <3>1. ~NewSession.created
      BY DEF NewSession
    <3> QED
      BY <3>1, <2>1, NewSessionType DEF Session
  <2>6. d \in Documents
    BY <2>2, NoneIsFresh DEF IInv, TablesOK, VersionsOf
  <2>7. SessionOK(w)'
    BY <2>1, <2>2, <2>5, <2>6 DEF SessionOK, IngestPC, PublishPC, Documents, VersionsOf
  <2>8. \A u \in Worker \ {w} : Apart(w, u)' /\ Apart(u, w)'
    BY <2>1, <2>5 DEF Apart, IngestPC
  <2> QED
    BY <2>1, <2>4, <2>7, <2>8, QuietStep
<1> QED
  BY <1>1, <1>2, <1>3, <1>4, <1>5 DEF Start

\* A step of w that only changes its session and its place in the request.
LEMMA SessionStep ==
  ASSUME IInv, NEW w \in Worker, NEW s \in Session,
         NEW next \in {"idle"} \cup IngestPC \cup PublishPC,
         pc' = [pc EXCEPT ![w] = next], sess' = [sess EXCEPT ![w] = s],
         UNCHANGED tables, SessionOK(w)',
         \A u \in Worker \ {w} : Apart(w, u)' /\ Apart(u, w)'
  PROVE  IInv'
<1>1. TypeOK'
  BY DEF IInv, TypeOK, tables
<1>2. \A u \in Worker \ {w} : pc'[u] = pc[u] /\ sess'[u] = sess[u]
  BY DEF IInv, TypeOK
<1> QED
  BY <1>1, <1>2, QuietStep

LEMMA LoadTargetStep == ASSUME IInv, NEW w \in Worker, LoadTarget(w) PROVE IInv'
<1>1. /\ sess[w] \in Session /\ IngestOK(w) /\ pc[w] = "loadTarget"
      /\ ~sess[w].created /\ sess[w].doc \in Documents
  BY DEF IInv, TypeOK, LoadTarget, SessionOK, IngestOK, IngestPC
<1> DEFINE s == [sess[w] EXCEPT !.row = document[sess[w].doc]]
<1>2. s \in Session
  BY <1>1, StoredDocument DEF Session
<1>3. /\ pc' = [pc EXCEPT ![w] = "maxSeq"] /\ sess' = [sess EXCEPT ![w] = s]
      /\ UNCHANGED tables /\ version' = version /\ document' = document
  BY DEF LoadTarget, tables
<1>4. /\ pc'[w] = "maxSeq" /\ sess'[w] = s
      /\ \A u \in Worker \ {w} : pc'[u] = pc[u] /\ sess'[u] = sess[u]
  BY <1>3 DEF IInv, TypeOK
<1>5. /\ s.ver = sess[w].ver /\ s.doc = sess[w].doc /\ s.created = sess[w].created
      /\ s.row = document[sess[w].doc]
  BY <1>1 DEF Session
<1>6. SessionOK(w)'
  <2>1. document[sess[w].doc].latest \in VersionsOf(sess[w].doc)
    BY <1>1, StoredDocument
  <2> HIDE DEF s
  <2>2. IngestOK(w)'
    BY <1>1, <1>3, <1>4, <1>5, <2>1 DEF IngestOK, Documents, VersionsOf
  <2> QED
    BY <1>1, <1>4, <1>5, <2>2 DEF SessionOK, IngestPC, PublishPC
<1>7. ASSUME NEW u \in Worker \ {w} PROVE Apart(w, u)' /\ Apart(u, w)'
  <2>1. Apart(w, u) /\ Apart(u, w)
    BY DEF IInv
  <2> QED
    BY <2>1, <1>1, <1>4, <1>5 DEF Apart, IngestPC
<1> QED
  BY <1>2, <1>3, <1>6, <1>7, SessionStep DEF IngestPC

\* The highest number of a stored document is its latest version's; a document
\* that is not stored has no versions.
LEMMA MaxSeqIsLatest ==
  ASSUME IInv, NEW d \in DocId
  PROVE  /\ d \in Documents => MaxSeq(d) = version[document[d].latest].seq
         /\ d \notin Documents => VersionsOf(d) = {} /\ MaxSeq(d) = 0
<1>1. CASE d \in Documents
  <2> DEFINE l == document[d].latest
  <2>1. l \in VersionsOf(d) /\ \A v \in VersionsOf(d) \ {l} : version[v].seq < version[l].seq
    BY <1>1 DEF IInv, TablesOK, LatestIsNewest
  <2>2. \A v \in VersionsOf(d) : version[v].seq \in Nat
    BY DEF IInv, TypeOK, VersionRow, VersionsOf
  <2> DEFINE top == CHOOSE v \in VersionsOf(d) :
                      \A u \in VersionsOf(d) : version[u].seq <= version[v].seq
  <2>3. \E v \in VersionsOf(d) : \A u \in VersionsOf(d) : version[u].seq <= version[v].seq
    BY <2>1, <2>2
  <2>4. top \in VersionsOf(d) /\ version[l].seq <= version[top].seq
    BY <2>1, <2>3
  <2>5. top = l
    BY <2>1, <2>2, <2>4
  <2>6. MaxSeq(d) = version[top].seq
    BY <2>1 DEF MaxSeq
  <2> QED
    BY <1>1, <2>5, <2>6
<1>2. CASE d \notin Documents
  BY <1>2, NoneIsFresh DEF IInv, TablesOK, VersionsOf, MaxSeq
<1> QED
  BY <1>1, <1>2

LEMMA ReadMaxSeqStep == ASSUME IInv, NEW w \in Worker, ReadMaxSeq(w) PROVE IInv'
<1>1. /\ sess[w] \in Session /\ pc[w] = "maxSeq" /\ IngestOK(w) /\ sess[w].doc \in DocId
  BY DEF IInv, TypeOK, ReadMaxSeq, SessionOK, IngestOK, IngestPC
<1> DEFINE d == sess[w].doc
           s == [sess[w] EXCEPT !.seq = MaxSeq(d) + 1]
<1>2. MaxSeq(d) \in Nat
  BY <1>1, MaxSeqIsLatest, StoredDocument DEF IInv, TypeOK, VersionRow
<1>3. s \in Session
  BY <1>1, <1>2 DEF Session
<1>4. /\ pc' = [pc EXCEPT ![w] = "labels"] /\ sess' = [sess EXCEPT ![w] = s]
      /\ UNCHANGED tables /\ version' = version /\ document' = document
  BY DEF ReadMaxSeq, tables
<1>5. /\ pc'[w] = "labels" /\ sess'[w] = s
      /\ \A u \in Worker \ {w} : pc'[u] = pc[u] /\ sess'[u] = sess[u]
  BY <1>4 DEF IInv, TypeOK
<1>6. /\ s.ver = sess[w].ver /\ s.doc = d /\ s.created = sess[w].created
      /\ s.row = sess[w].row /\ s.seq = MaxSeq(d) + 1
  BY <1>1 DEF Session
<1>7. NumberOK(w)'
  <2>1. CASE sess[w].created
    <3>1. d \notin Documents
      BY <1>1, <2>1 DEF IngestOK, Documents
    <3> QED
      BY <2>1, <3>1, <1>1, <1>5, <1>6, MaxSeqIsLatest DEF NumberOK
  <2>2. CASE ~sess[w].created
    <3>1. d \in Documents /\ sess[w].row.latest \in VersionsOf(d)
      BY <1>1, <2>2 DEF IngestOK
    <3> DEFINE l == document[d].latest
    <3>2. MaxSeq(d) = version[l].seq /\ l \in VersionsOf(d)
      BY <1>1, <3>1, MaxSeqIsLatest, StoredDocument
    <3>3. \A v \in VersionsOf(d) : version[v].seq \in Nat /\ version[v].seq <= version[l].seq
      BY <3>1 DEF IInv, TypeOK, VersionRow, VersionsOf, TablesOK, LatestIsNewest
    <3> HIDE DEF s, d, l
    <3> QED
      BY <1>2, <1>4, <1>5, <1>6, <2>2, <3>1, <3>2, <3>3 DEF NumberOK, VersionsOf
  <2> QED
    BY <2>1, <2>2
<1>8. SessionOK(w)'
  <2>1. IngestOK(w)'
    BY <1>1, <1>4, <1>5, <1>6 DEF IngestOK, Documents, VersionsOf
  <2> QED
    BY <1>5, <1>7, <2>1 DEF SessionOK, IngestPC, PublishPC
<1>9. ASSUME NEW u \in Worker \ {w} PROVE Apart(w, u)' /\ Apart(u, w)'
  <2>1. Apart(w, u) /\ Apart(u, w)
    BY DEF IInv
  <2> QED
    BY <2>1, <1>1, <1>5, <1>6 DEF Apart, IngestPC
<1> QED
  BY <1>3, <1>4, <1>8, <1>9, SessionStep DEF IngestPC

\* An ingest that has its number goes on with the same document, key and number.
LEMMA NumberedStep ==
  ASSUME IInv, NEW w \in Worker, NEW s \in Session,
         pc[w] \in {"labels", "fill", "insert"},
         NEW next \in {"labels", "fill", "insert", "commit"},
         pc' = [pc EXCEPT ![w] = next], sess' = [sess EXCEPT ![w] = s],
         UNCHANGED tables,
         s.ver = sess[w].ver, s.doc = sess[w].doc, s.created = sess[w].created,
         s.row = sess[w].row, s.seq = sess[w].seq,
         next = "commit" =>
           /\ \A v \in VersionsOf(s.doc) : version[v].seq # s.seq
           /\ \A u \in Worker \ {w} : pc[u] = "commit" /\ sess[u].doc = s.doc =>
                sess[u].seq # s.seq
  PROVE  IInv'
<1>1. /\ pc'[w] = next /\ sess'[w] = s
      /\ \A u \in Worker \ {w} : pc'[u] = pc[u] /\ sess'[u] = sess[u]
      /\ version' = version /\ document' = document
  BY DEF IInv, TypeOK, tables
<1>2. IngestOK(w) /\ NumberOK(w)
  BY DEF IInv, SessionOK, IngestPC
<1>3. IngestOK(w)' /\ NumberOK(w)'
  BY <1>1, <1>2 DEF IngestOK, NumberOK, Documents, VersionsOf
<1>4. SessionOK(w)'
  BY <1>1, <1>3 DEF SessionOK, IngestPC, PublishPC, VersionsOf
<1>5. ASSUME NEW u \in Worker \ {w} PROVE Apart(w, u)' /\ Apart(u, w)'
  <2>1. Apart(w, u) /\ Apart(u, w)
    BY DEF IInv
  <2> QED
    BY <2>1, <1>1 DEF Apart, IngestPC
<1> QED
  BY <1>4, <1>5, SessionStep DEF IngestPC

LEMMA ReadLabelsStep == ASSUME IInv, NEW w \in Worker, ReadLabels(w) PROVE IInv'
<1>1. PICK k \in 1..MaxSuffix : sess' = [sess EXCEPT ![w].suffix = k]
  BY DEF ReadLabels
<1> DEFINE s == [sess[w] EXCEPT !.suffix = k]
           next == IF sess[w].fill THEN "fill" ELSE "insert"
<1>2. sess[w] \in Session /\ k \in Nat
  BY MaxSuffixNat DEF IInv, TypeOK
<1>3. /\ s \in Session /\ s.ver = sess[w].ver /\ s.doc = sess[w].doc
      /\ s.created = sess[w].created /\ s.row = sess[w].row /\ s.seq = sess[w].seq
  BY <1>2 DEF Session
<1>4. /\ pc[w] = "labels" /\ pc' = [pc EXCEPT ![w] = next] /\ UNCHANGED tables
      /\ sess' = [sess EXCEPT ![w] = s] /\ next \in {"fill", "insert"}
  BY <1>1 DEF ReadLabels
<1> HIDE DEF s, next
<1> QED
  BY <1>3, <1>4, NumberedStep

LEMMA FillDepartmentStep == ASSUME IInv, NEW w \in Worker, FillDepartment(w) PROVE IInv'
<1>1. /\ sess[w] \in Session /\ sess' = [sess EXCEPT ![w] = sess[w]]
      /\ pc[w] = "fill" /\ pc' = [pc EXCEPT ![w] = "insert"] /\ UNCHANGED tables
  BY DEF IInv, TypeOK, FillDepartment, tables
<1> QED
  BY <1>1, NumberedStep

\* The unique constraint on (policy_id, version_seq) keeps the number free of
\* the committed rows and of the rows other requests have inserted.
LEMMA InsertVersionStep == ASSUME IInv, NEW w \in Worker, InsertVersion(w) PROVE IInv'
<1>1. /\ sess[w] \in Session /\ sess' = [sess EXCEPT ![w] = sess[w]]
      /\ pc[w] = "insert" /\ pc' = [pc EXCEPT ![w] = "commit"] /\ UNCHANGED tables
  BY DEF IInv, TypeOK, InsertVersion, tables
<1>2. ASSUME NEW v \in VersionsOf(sess[w].doc) PROVE version[v].seq # sess[w].seq
  BY DEF InsertVersion, Conflict, DraftRow, VersionsOf
<1>3. ASSUME NEW u \in Worker \ {w}, pc[u] = "commit", sess[u].doc = sess[w].doc
      PROVE  sess[u].seq # sess[w].seq
  BY <1>3 DEF InsertVersion, Inserted, Conflict, DraftRow
<1> QED
  BY <1>1, <1>2, <1>3, NumberedStep

LEMMA LoadDocumentStep == ASSUME IInv, NEW w \in Worker, LoadDocument(w) PROVE IInv'
<1>1. /\ sess[w] \in Session /\ pc[w] = "loadDocument" /\ ~sess[w].created
      /\ sess[w].doc \in Documents /\ sess[w].ver \in VersionsOf(sess[w].doc)
  BY DEF IInv, TypeOK, LoadDocument, SessionOK, PublishPC, IngestPC
<1> DEFINE d == sess[w].doc
           s == [sess[w] EXCEPT !.row = document[d]]
           next == IF document[d].current \in {None, sess[w].ver} THEN "publish"
                   ELSE "loadPrevious"
<1>2. /\ s \in Session /\ s.ver = sess[w].ver /\ s.doc = d /\ ~s.created
      /\ s.row = document[d]
  BY <1>1, StoredDocument DEF Session
<1>3. /\ pc' = [pc EXCEPT ![w] = next] /\ sess' = [sess EXCEPT ![w] = s]
      /\ UNCHANGED tables /\ version' = version /\ document' = document
      /\ next \in {"publish", "loadPrevious"}
      /\ next = "loadPrevious" => document[d].current # None
  BY DEF LoadDocument, tables
<1> HIDE DEF s, next
<1>4. /\ pc'[w] = next /\ sess'[w] = s
      /\ \A u \in Worker \ {w} : pc'[u] = pc[u] /\ sess'[u] = sess[u]
  BY <1>3 DEF IInv, TypeOK
<1>5. SessionOK(w)'
  BY <1>1, <1>2, <1>3, <1>4 DEF SessionOK, IngestPC, PublishPC, Documents, VersionsOf
<1>6. \A u \in Worker \ {w} : Apart(w, u)' /\ Apart(u, w)'
  BY <1>2, <1>3, <1>4 DEF Apart, IngestPC
<1> QED
  BY <1>2, <1>3, <1>5, <1>6, SessionStep DEF PublishPC

LEMMA LoadPreviousStep == ASSUME IInv, NEW w \in Worker, LoadPrevious(w) PROVE IInv'
<1>1. /\ sess[w] \in Session /\ pc[w] = "loadPrevious" /\ ~sess[w].created
      /\ sess[w].doc \in Documents /\ sess[w].ver \in VersionsOf(sess[w].doc)
      /\ sess[w].row.current # None
  BY DEF IInv, TypeOK, LoadPrevious, SessionOK, PublishPC, IngestPC
<1> DEFINE s == [sess[w] EXCEPT !.prior = version[sess[w].row.current].status]
<1>2. sess[w].row.current \in VersionId
  BY <1>1 DEF Session, DocumentRow
<1>3. version[sess[w].row.current].status \in VersionStatus
  BY <1>2 DEF IInv, TypeOK, VersionRow
<1>4. /\ s \in Session /\ s.ver = sess[w].ver /\ s.doc = sess[w].doc
      /\ s.created = sess[w].created
  BY <1>1, <1>3 DEF Session
<1>5. /\ pc' = [pc EXCEPT ![w] = "publish"] /\ sess' = [sess EXCEPT ![w] = s]
      /\ UNCHANGED tables /\ version' = version /\ document' = document
  BY DEF LoadPrevious, tables
<1> HIDE DEF s
<1>6. /\ pc'[w] = "publish" /\ sess'[w] = s
      /\ \A u \in Worker \ {w} : pc'[u] = pc[u] /\ sess'[u] = sess[u]
  BY <1>5 DEF IInv, TypeOK
<1>7. SessionOK(w)'
  BY <1>1, <1>4, <1>5, <1>6 DEF SessionOK, IngestPC, PublishPC, Documents, VersionsOf
<1>8. \A u \in Worker \ {w} : Apart(w, u)' /\ Apart(u, w)'
  BY <1>1, <1>4, <1>6 DEF Apart, IngestPC
<1> QED
  BY <1>4, <1>5, <1>7, <1>8, SessionStep DEF PublishPC

-----------------------------------------------------------------------------
(* Steps that write the tables.                                             *)

\* A publication writes statuses, and the document's current version.
LEMMA PublishFrame ==
  ASSUME IInv, NEW w \in Worker, CommitPublish(w)
  PROVE  /\ TypeOK'
         /\ \A v \in VersionId : /\ version'[v].doc = version[v].doc
                                 /\ version'[v].seq = version[v].seq
                                 /\ version'[v].prev = version[v].prev
         /\ \A d \in DocId : /\ document'[d].policy = document[d].policy
                             /\ document'[d].latest = document[d].latest
         /\ \A d \in DocId \ Documents : document'[d] = document[d]
         /\ pc'[w] = "idle" /\ sess'[w] = NewSession
         /\ \A u \in Worker \ {w} : pc'[u] = pc[u] /\ sess'[u] = sess[u]
<1>1. /\ sess[w] \in Session /\ sess[w].doc \in DocId /\ sess[w].ver \in VersionId
      /\ document[sess[w].doc] \in DocumentRow
  BY DEF IInv, TypeOK, CommitPublish, SessionOK, PublishPC, Documents, VersionsOf
<1>2. ASSUME NEW v \in VersionId
      PROVE  /\ version[v] \in VersionRow /\ NewStatus(w, v) \in VersionStatus
             /\ version'[v] = [version[v] EXCEPT !.status = NewStatus(w, v)]
  <2>1. version[v] \in VersionRow
    BY DEF IInv, TypeOK
  <2>2. NewStatus(w, v) \in VersionStatus
    BY <2>1 DEF NewStatus, VersionRow, VersionStatus
  <2> QED
    BY <2>1, <2>2 DEF CommitPublish
<1>3. version' \in [VersionId -> VersionRow]
  <2>1. version' = [v \in VersionId |-> [version[v] EXCEPT !.status = NewStatus(w, v)]]
    BY DEF CommitPublish
  <2>2. ASSUME NEW v \in VersionId
        PROVE  [version[v] EXCEPT !.status = NewStatus(w, v)] \in VersionRow
    BY <1>2 DEF VersionRow
  <2> QED
    BY <2>1, <2>2
<1> DEFINE d == sess[w].doc
           new == [document[d] EXCEPT !.current = sess[w].ver, !.status = "active"]
<1>4. /\ new \in DocumentRow /\ new.policy = document[d].policy
      /\ new.latest = document[d].latest
  BY <1>1 DEF DocumentRow
<1>5. document' = document \/ document' = [document EXCEPT ![d] = new]
  BY <1>1 DEF CommitPublish, IInv, TypeOK
<1>6. /\ document' \in [DocId -> DocumentRow]
      /\ \A e \in DocId : /\ document'[e].policy = document[e].policy
                          /\ document'[e].latest = document[e].latest
      /\ \A e \in DocId \ Documents : document'[e] = document[e]
  <2>1. d \in Documents
    BY DEF CommitPublish, IInv, SessionOK, PublishPC
  <2> HIDE DEF new
  <2> QED
    BY <1>1, <1>4, <1>5, <2>1 DEF IInv, TypeOK
<1>7. /\ pc' = [pc EXCEPT ![w] = "idle"] /\ sess' = [sess EXCEPT ![w] = NewSession]
  BY DEF CommitPublish
<1>8. TypeOK'
  BY <1>3, <1>6, <1>7, NewSessionType DEF IInv, TypeOK
<1>9. ASSUME NEW v \in VersionId
      PROVE  /\ version'[v].doc = version[v].doc /\ version'[v].seq = version[v].seq
             /\ version'[v].prev = version[v].prev
  BY <1>2 DEF VersionRow
<1> QED
  BY <1>6, <1>7, <1>8, <1>9 DEF IInv, TypeOK

LEMMA CommitPublishStep == ASSUME IInv, NEW w \in Worker, CommitPublish(w) PROVE IInv'
<1>1. /\ TypeOK'
      /\ \A v \in VersionId : /\ version'[v].doc = version[v].doc
                              /\ version'[v].seq = version[v].seq
                              /\ version'[v].prev = version[v].prev
      /\ \A d \in DocId : /\ document'[d].policy = document[d].policy
                          /\ document'[d].latest = document[d].latest
      /\ \A d \in DocId \ Documents : document'[d] = document[d]
      /\ pc'[w] = "idle" /\ sess'[w] = NewSession
      /\ \A u \in Worker \ {w} : pc'[u] = pc[u] /\ sess'[u] = sess[u]
  BY PublishFrame
<1>2. Documents' = Documents /\ \A d : VersionsOf(d)' = VersionsOf(d)
  BY <1>1 DEF Documents, VersionsOf
<1>3. TablesOK'
  <2>1. \A d \in Documents : d \in DocId
    BY DEF Documents
  <2>2. \A d : \A v \in VersionsOf(d) : v \in VersionId
    BY DEF VersionsOf
  <2>3. \A v \in VersionId : version'[v].doc # None =>
          version'[v].doc \in Documents' /\ version'[v].seq >= 1
    BY <1>1, <1>2 DEF IInv, TablesOK
  <2>7. \A d \in DocId \ Documents' : document'[d].current = None
    BY <1>1, <1>2 DEF IInv, TablesOK
  <2>4. LatestIsNewest'
    BY <1>1, <1>2, <2>1, <2>2 DEF IInv, TablesOK, LatestIsNewest
  <2>5. NumberedByGeneration'
    BY <1>1, <1>2, <2>1, <2>2 DEF IInv, TablesOK, NumberedByGeneration
  <2>6. ChainGoesBack'
    BY <1>1, <1>2, <2>1, <2>2 DEF IInv, TablesOK, ChainGoesBack
  <2> QED
    BY <2>3, <2>4, <2>5, <2>6, <2>7 DEF TablesOK
<1>4. ASSUME NEW u \in Worker PROVE SessionOK(u)'
  <2>1. CASE u = w
    BY <1>1, <2>1 DEF SessionOK, IngestPC, PublishPC, NewSession
  <2>2. CASE u # w
    <3>1. SessionOK(u) /\ pc'[u] = pc[u] /\ sess'[u] = sess[u]
      BY <1>1, <2>2 DEF IInv
    <3>2. IngestOK(u) => IngestOK(u)'
      BY <1>1, <1>2, <3>1 DEF IngestOK
    <3>3. IngestOK(u) /\ NumberOK(u) /\ pc[u] # "loadTarget" => NumberOK(u)'
      <4>1. \A v \in VersionsOf(sess[u].doc) : v \in VersionId
        BY DEF VersionsOf
      <4> QED
        BY <1>1, <1>2, <3>1, <4>1 DEF IngestOK, NumberOK
    <3>4. \A v \in VersionsOf(sess[u].doc) : v \in VersionId
      BY DEF VersionsOf
    <3> QED
      BY <1>1, <1>2, <3>1, <3>2, <3>3, <3>4 DEF SessionOK, IngestPC
  <2> QED
    BY <2>1, <2>2
<1>5. ASSUME NEW u \in Worker, NEW t \in Worker, u # t PROVE Apart(u, t)'
  <2>1. CASE u = w \/ t = w
    BY <1>1, <2>1, <1>5 DEF Apart, IngestPC, NewSession
  <2>2. CASE u # w /\ t # w
    <3>1. Apart(u, t)
      BY <1>5 DEF IInv
    <3> QED
      BY <3>1, <2>2, <1>1 DEF Apart
  <2> QED
    BY <2>1, <2>2
<1> QED
  BY <1>1, <1>3, <1>4, <1>5 DEF IInv

\* The number an insert went through with is the next generation's: were a
\* version numbered that high already stored, the contiguous numbering would
\* hold one with the very same number, and the insert would have failed.
LEMMA NextGeneration ==
  ASSUME IInv, NEW w \in Worker, pc[w] = "commit"
  PROVE  LET d == sess[w].doc
             n == sess[w].seq
         IN  /\ \A v \in VersionsOf(d) : version[v].seq < n
             /\ d \in Documents => n = version[document[d].latest].seq + 1
             /\ d \notin Documents => n = 1 /\ VersionsOf(d) = {}
             /\ d \in Documents <=> ~sess[w].created
<1> DEFINE d == sess[w].doc
           n == sess[w].seq
<1>1. /\ IngestOK(w) /\ NumberOK(w) /\ d \in DocId
      /\ \A v \in VersionsOf(d) : version[v].seq # n
  BY DEF IInv, SessionOK, IngestPC, IngestOK
<1>2. n \in Nat /\ n >= 1
  BY <1>1 DEF IInv, TypeOK, Session, NumberOK
<1>3. \A v \in VersionsOf(d) : version[v].seq \in Nat /\ version[v].seq >= 1
  BY <1>1, NoneIsFresh DEF IInv, TypeOK, VersionRow, TablesOK, VersionsOf
<1>4. d \in Documents <=> ~sess[w].created
  BY <1>1 DEF IngestOK, Documents
<1>5. CASE d \notin Documents
  <2>1. VersionsOf(d) = {}
    BY <1>1, <1>5, MaxSeqIsLatest
  <2> QED
    BY <1>1, <1>2, <1>4, <1>5, <2>1 DEF NumberOK
<1>6. CASE d \in Documents
  <2>1. ASSUME NEW v \in VersionsOf(d), version[v].seq >= n PROVE FALSE
    <3>1. n \in 1..version[v].seq
      BY <1>2, <1>3, <2>1
    <3>2. \E u \in VersionsOf(d) : version[u].seq = n
      BY <1>6, <3>1 DEF IInv, TablesOK, NumberedByGeneration
    <3> QED
      BY <1>1, <3>2
  <2>2. \A v \in VersionsOf(d) : version[v].seq < n
    BY <1>2, <1>3, <2>1
  <2> DEFINE l == document[d].latest
  <2>3. l \in VersionsOf(d) /\ \A v \in VersionsOf(d) \ {l} : version[v].seq < version[l].seq
    BY <1>6 DEF IInv, TablesOK, LatestIsNewest
  <2>4. PICK v \in VersionsOf(d) : version[v].seq + 1 = n
    BY <1>1, <1>2, <1>3, <2>2, <2>3 DEF NumberOK
  <2>5. version[v].seq <= version[l].seq
    BY <1>3, <2>3
  <2>6. version[l].seq < n
    BY <2>2, <2>3
  <2>7. n = version[l].seq + 1
    BY <1>2, <1>3, <2>3, <2>4, <2>5, <2>6
  <2> QED
    BY <1>4, <1>6, <2>2, <2>7
<1> QED
  BY <1>5, <1>6

\* What a committed ingest writes: one new version, and its document's row.
LEMMA IngestFrame ==
  ASSUME IInv, NEW w \in Worker, CommitIngest(w),
         NEW d, d = sess[w].doc, NEW n, n = sess[w].ver
  PROVE  /\ TypeOK'
         /\ d \in DocId /\ n \in VersionId /\ version[n].doc = None
         /\ version'[n].doc = d /\ version'[n].seq = sess[w].seq
         /\ version'[n].prev = sess[w].row.latest
         /\ \A v \in VersionId \ {n} : version'[v] = version[v]
         /\ document'[d].latest = n /\ document'[d].policy # None
         /\ \A e \in DocId \ {d} : document'[e] = document[e]
         /\ Documents' = Documents \cup {d}
         /\ VersionsOf(d)' = VersionsOf(d) \cup {n}
         /\ \A e \in DocId \ {d} : VersionsOf(e)' = VersionsOf(e)
         /\ pc'[w] = "idle" /\ sess'[w] = NewSession
         /\ \A u \in Worker \ {w} : pc'[u] = pc[u] /\ sess'[u] = sess[u]
<1> DEFINE old == IF sess[w].created THEN sess[w].row ELSE document[d]
           new == [old EXCEPT !.latest = n, !.dept = @ \/ sess[w].fill]
<1>1. /\ sess[w] \in Session /\ IngestOK(w) /\ pc[w] = "commit"
  BY DEF IInv, TypeOK, CommitIngest, SessionOK, IngestPC
<1>2. d \in DocId /\ n \in VersionId /\ version[n].doc = None
  BY <1>1 DEF IngestOK
<1>3. old \in DocumentRow /\ old.policy # None
  BY <1>1, <1>2 DEF IngestOK, IInv, TypeOK, Session, Documents
<1>4. new \in DocumentRow /\ new.latest = n /\ new.policy # None
  <2> HIDE DEF old
  <2> QED
    BY <1>1, <1>2, <1>3 DEF DocumentRow, Session
<1>5. /\ document' = [document EXCEPT ![d] = new]
      /\ version' = [version EXCEPT ![n] = DraftRow(w)]
      /\ pc' = [pc EXCEPT ![w] = "idle"] /\ sess' = [sess EXCEPT ![w] = NewSession]
  BY DEF CommitIngest
<1>6. /\ DraftRow(w) \in VersionRow /\ DraftRow(w).doc = d
      /\ DraftRow(w).seq = sess[w].seq /\ DraftRow(w).prev = sess[w].row.latest
  <2>1. WithSuffix(sess[w].base, sess[w].suffix) \in StoredLabel
    BY <1>1, LabelTypes DEF Session
  <2> QED
    BY <1>1, <2>1 DEF DraftRow, VersionRow, VersionStatus, Session, DocumentRow
<1> HIDE DEF new
<1>7. TypeOK'
  BY <1>2, <1>4, <1>5, <1>6, NewSessionType DEF IInv, TypeOK
<1>8. /\ version'[n] = DraftRow(w) /\ \A v \in VersionId \ {n} : version'[v] = version[v]
      /\ document'[d] = new /\ \A e \in DocId \ {d} : document'[e] = document[e]
  BY <1>2, <1>5 DEF IInv, TypeOK
<1>9. /\ pc'[w] = "idle" /\ sess'[w] = NewSession
      /\ \A u \in Worker \ {w} : pc'[u] = pc[u] /\ sess'[u] = sess[u]
  BY <1>5 DEF IInv, TypeOK
<1>10. Documents' = Documents \cup {d}
  BY <1>2, <1>4, <1>8 DEF Documents
<1>11. /\ VersionsOf(d)' = VersionsOf(d) \cup {n}
       /\ \A e \in DocId \ {d} : VersionsOf(e)' = VersionsOf(e)
  BY <1>2, <1>6, <1>8, NoneIsFresh DEF VersionsOf
<1> QED
  BY <1>2, <1>4, <1>6, <1>7, <1>8, <1>9, <1>10, <1>11

LEMMA CommitIngestStep == ASSUME IInv, NEW w \in Worker, CommitIngest(w) PROVE IInv'
<1>0. PICK d, n, q : d = sess[w].doc /\ n = sess[w].ver /\ q = sess[w].seq
  OBVIOUS
<1>1. pc[w] = "commit" /\ IngestOK(w) /\ NumberOK(w) /\ q \in Nat /\ q >= 1
  BY <1>0 DEF CommitIngest, IInv, TypeOK, Session, SessionOK, NumberOK, IngestPC
<1>2. /\ TypeOK'
      /\ d \in DocId /\ n \in VersionId /\ version[n].doc = None
      /\ version'[n].doc = d /\ version'[n].seq = q
      /\ version'[n].prev = sess[w].row.latest
      /\ \A v \in VersionId \ {n} : version'[v] = version[v]
      /\ document'[d].latest = n /\ document'[d].policy # None
      /\ \A e \in DocId \ {d} : document'[e] = document[e]
      /\ Documents' = Documents \cup {d}
      /\ VersionsOf(d)' = VersionsOf(d) \cup {n}
      /\ \A e \in DocId \ {d} : VersionsOf(e)' = VersionsOf(e)
      /\ pc'[w] = "idle" /\ sess'[w] = NewSession
      /\ \A u \in Worker \ {w} : pc'[u] = pc[u] /\ sess'[u] = sess[u]
  BY <1>0, IngestFrame
<1>3. /\ \A v \in VersionsOf(d) : version[v].seq < q
      /\ d \in Documents => q = version[document[d].latest].seq + 1
      /\ d \notin Documents => q = 1 /\ VersionsOf(d) = {}
      /\ d \in Documents <=> ~sess[w].created
  BY <1>0, <1>1, NextGeneration
<1>4. /\ \A e \in DocId : \A v \in VersionsOf(e) :
           v \in VersionId /\ v # n /\ version'[v] = version[v] /\ version[v].doc = e
           /\ version[v].seq \in Nat /\ version[v].seq >= 1
      /\ \A e \in Documents : e \in DocId
  BY <1>2, NoneIsFresh DEF VersionsOf, IInv, TypeOK, VersionRow, TablesOK, Documents
<1>5. TablesOK'
  <2>1. \A v \in VersionId : version'[v].doc # None =>
          version'[v].doc \in Documents' /\ version'[v].seq >= 1
    BY <1>1, <1>2 DEF IInv, TablesOK
  <2>5. \A e \in DocId \ Documents' : document'[e].current = None
    BY <1>2 DEF IInv, TablesOK
  <2>2. LatestIsNewest'
    <3>1. ASSUME NEW e \in Documents', e # d
          PROVE  /\ document'[e].latest \in VersionsOf(e)'
                 /\ \A v \in VersionsOf(e)' \ {document'[e].latest} :
                      version'[v].seq < version'[document'[e].latest].seq
      <4>1. e \in Documents /\ VersionsOf(e)' = VersionsOf(e) /\ document'[e] = document[e]
            /\ e \in DocId
        BY <1>2, <1>4, <3>1
      <4> QED
        BY <1>4, <4>1 DEF IInv, TablesOK, LatestIsNewest
    <3>2. /\ document'[d].latest \in VersionsOf(d)'
          /\ \A v \in VersionsOf(d)' \ {document'[d].latest} :
               version'[v].seq < version'[document'[d].latest].seq
      BY <1>2, <1>3, <1>4
    <3> QED
      BY <3>1, <3>2 DEF LatestIsNewest
  <2>3. NumberedByGeneration'
    <3>1. ASSUME NEW e \in Documents, NEW v \in VersionsOf(e)
          PROVE  /\ \A k \in 1..version'[v].seq : \E u \in VersionsOf(e) : version'[u].seq = k
                 /\ \A u \in VersionsOf(e) : version'[u].seq = version'[v].seq => u = v
      <4>1. /\ \A k \in 1..version[v].seq : \E u \in VersionsOf(e) : version[u].seq = k
            /\ \A u \in VersionsOf(e) : version[u].seq = version[v].seq => u = v
        BY DEF IInv, TablesOK, NumberedByGeneration
      <4> QED
        BY <4>1, <1>4
    <3>2. ASSUME NEW k \in 1..q PROVE \E u \in VersionsOf(d)' : version'[u].seq = k
      <4>1. CASE k = q
        BY <1>2, <4>1
      <4>2. CASE k # q
        <5>1. PICK v \in VersionsOf(d) : version[v].seq + 1 = q
          BY <1>0, <1>1, <4>2 DEF NumberOK
        <5>2. d \in Documents
          BY <1>3, <5>1
        <5>3. k \in 1..version[v].seq
          BY <1>1, <1>2, <1>4, <4>2, <5>1
        <5>4. version'[v].seq = version[v].seq
          BY <1>2, <1>4, <5>1
        <5> QED
          BY <1>2, <3>1, <5>1, <5>2, <5>3, <5>4
      <4> QED
        BY <4>1, <4>2
    <3>3. \A u \in VersionsOf(d) : version'[u].seq # q
      BY <1>1, <1>2, <1>3, <1>4
    <3>4. ASSUME NEW e \in Documents', NEW v \in VersionsOf(e)'
          PROVE  /\ \A k \in 1..version'[v].seq : \E u \in VersionsOf(e)' : version'[u].seq = k
                 /\ \A u \in VersionsOf(e)' : version'[u].seq = version'[v].seq => u = v
      <4>1. CASE e # d
        BY <1>2, <1>4, <3>1, <4>1
      <4>2. CASE e = d /\ v # n
        <5>1. v \in VersionsOf(d) /\ d \in Documents
          BY <1>2, <1>3, <4>2
        <5> QED
          BY <1>2, <3>1, <3>3, <4>2, <5>1
      <4>3. CASE e = d /\ v = n
        BY <1>2, <3>2, <3>3, <4>3
      <4> QED
        BY <4>1, <4>2, <4>3
    <3> QED
      BY <3>4 DEF NumberedByGeneration
  <2>4. ChainGoesBack'
    <3>1. ASSUME NEW e \in Documents, NEW v \in VersionsOf(e)
          PROVE  /\ version'[v].prev = None <=> version'[v].seq = 1
                 /\ version'[v].prev # None =>
                      /\ version'[v].prev \in VersionsOf(e)
                      /\ version'[version'[v].prev].seq < version'[v].seq
      BY <1>4 DEF IInv, TablesOK, ChainGoesBack
    <3>2. /\ version'[n].prev = None <=> q = 1
          /\ version'[n].prev # None => /\ version'[n].prev \in VersionsOf(d)
                                        /\ version'[version'[n].prev].seq < q
      <4>1. CASE sess[w].created
        BY <1>0, <1>1, <1>2, <1>3, <4>1 DEF IngestOK
      <4>2. CASE ~sess[w].created
        <5>1. sess[w].row.latest \in VersionsOf(d) /\ version[sess[w].row.latest].seq < q
          BY <1>0, <1>1, <4>2 DEF IngestOK, NumberOK
        <5> QED
          BY <1>0, <1>1, <1>2, <1>4, <5>1, NoneIsFresh
      <4> QED
        BY <4>1, <4>2
    <3>3. ASSUME NEW e \in Documents', NEW v \in VersionsOf(e)'
          PROVE  /\ version'[v].prev = None <=> version'[v].seq = 1
                 /\ version'[v].prev # None =>
                      /\ version'[v].prev \in VersionsOf(e)'
                      /\ version'[version'[v].prev].seq < version'[v].seq
      <4>1. CASE e \in Documents /\ v \in VersionsOf(e)
        BY <1>2, <1>4, <3>1, <4>1
      <4>2. CASE e = d /\ v = n
        BY <1>2, <3>2, <4>2
      <4> QED
        BY <1>2, <1>3, <1>4, <4>1, <4>2
    <3> QED
      BY <3>3 DEF ChainGoesBack
  <2> QED
    BY <2>1, <2>2, <2>3, <2>4, <2>5 DEF TablesOK
<1>6. ASSUME NEW u \in Worker PROVE SessionOK(u)'
  <2>1. CASE u = w
    BY <1>2, <2>1 DEF SessionOK, IngestPC, PublishPC, NewSession
  <2>2. CASE u # w
    <3>0. PICK e : e = sess[u].doc
      OBVIOUS
    <3>1. /\ SessionOK(u) /\ Apart(w, u) /\ pc'[u] = pc[u] /\ sess'[u] = sess[u]
          /\ sess[u] \in Session
      BY <1>2, <2>2 DEF IInv, TypeOK
    <3>2. CASE pc[u] \in IngestPC
      <4>1. IngestOK(u) /\ sess[u].ver # n /\ e \in DocId
        BY <1>0, <1>1, <3>0, <3>1, <3>2 DEF SessionOK, Apart, IngestPC, IngestOK
      <4>2. sess[u].created => e # d
        BY <1>0, <1>2, <1>3, <3>0, <3>1, <4>1 DEF IngestOK, Apart, Documents
      <4>3. VersionsOf(e) \subseteq VersionsOf(e)'
        BY <1>2, <4>1
      <4>4. ~sess[u].created =>
              /\ e \in Documents'
              /\ pc'[u] # "loadTarget" => sess'[u].row.latest \in VersionsOf(e)'
        BY <1>2, <3>0, <3>1, <4>1, <4>3 DEF IngestOK
      <4>5. IngestOK(u)'
        BY <1>2, <3>0, <3>1, <4>1, <4>2, <4>4 DEF IngestOK
      <4>6. ASSUME NumberOK(u), pc[u] # "loadTarget" PROVE NumberOK(u)'
        <5>1. \A v \in VersionsOf(e) : version'[v] = version[v]
          BY <1>4, <4>1
        <5>2. ~sess[u].created => sess[u].row.latest \in VersionsOf(e)
          BY <3>0, <4>1, <4>6 DEF IngestOK
        <5>3. sess[u].seq # 1 =>
                \E v \in VersionsOf(e)' : version'[v].seq + 1 = sess[u].seq
          BY <3>0, <4>3, <4>6, <5>1 DEF NumberOK
        <5> QED
          BY <3>0, <3>1, <4>6, <5>1, <5>2, <5>3 DEF NumberOK
      <4>7. ASSUME pc[u] = "commit", NEW v \in VersionsOf(e)'
            PROVE  version'[v].seq # sess[u].seq
        <5>1. CASE v \in VersionsOf(e)
          BY <1>4, <3>0, <3>1, <4>1, <4>7, <5>1 DEF SessionOK
        <5>2. CASE v \notin VersionsOf(e)
          <6>1. v = n /\ e = d
            BY <1>2, <4>1, <4>7, <5>2
          <6> QED
            BY <1>0, <1>1, <1>2, <3>0, <3>1, <4>7, <6>1 DEF Apart
        <5> QED
          BY <5>1, <5>2
      <4> QED
        BY <3>0, <3>1, <3>2, <4>5, <4>6, <4>7 DEF SessionOK, IngestPC, PublishPC
    <3>3. CASE pc[u] \notin IngestPC
      <4>1. pc[u] \in PublishPC => e \in Documents /\ e \in DocId /\ sess[u].ver \in VersionsOf(e)
        BY <3>0, <3>1 DEF SessionOK, Documents
      <4>2. pc[u] \in PublishPC => e \in Documents' /\ sess[u].ver \in VersionsOf(e)'
        BY <1>2, <4>1
      <4> QED
        BY <3>0, <3>1, <3>3, <4>2 DEF SessionOK, IngestPC, PublishPC
    <3> QED
      BY <3>2, <3>3
  <2> QED
    BY <2>1, <2>2
<1>7. ASSUME NEW u \in Worker, NEW t \in Worker, u # t PROVE Apart(u, t)'
  <2>1. CASE u = w \/ t = w
    BY <1>2, <2>1, <1>7 DEF Apart, IngestPC, NewSession
  <2>2. CASE u # w /\ t # w
    <3>1. Apart(u, t)
      BY <1>7 DEF IInv
    <3> QED
      BY <3>1, <2>2, <1>2 DEF Apart
  <2> QED
    BY <2>1, <2>2
<1> QED
  BY <1>2, <1>5, <1>6, <1>7 DEF IInv

-----------------------------------------------------------------------------
(* The invariant and what follows from it.                                  *)

LEMMA NextInvariant == IInv /\ [Next]_vars => IInv'
<1> SUFFICES ASSUME IInv, [Next]_vars PROVE IInv'
  OBVIOUS
<1>1. ASSUME NEW w \in Worker, Start(w) PROVE IInv'
  BY <1>1, StartStep
<1>2. ASSUME NEW w \in Worker, Continue(w) PROVE IInv'
  <2>1. CASE LoadTarget(w)
    BY <2>1, LoadTargetStep
  <2>2. CASE ReadMaxSeq(w)
    BY <2>2, ReadMaxSeqStep
  <2>3. CASE ReadLabels(w)
    BY <2>3, ReadLabelsStep
  <2>4. CASE FillDepartment(w)
    BY <2>4, FillDepartmentStep
  <2>5. CASE InsertVersion(w)
    BY <2>5, InsertVersionStep
  <2>6. CASE InsertRejected(w)
    BY <2>6, RollbackStep DEF InsertRejected
  <2>7. CASE CommitIngest(w)
    BY <2>7, CommitIngestStep
  <2>8. CASE LoadDocument(w)
    BY <2>8, LoadDocumentStep
  <2>9. CASE LoadPrevious(w)
    BY <2>9, LoadPreviousStep
  <2>10. CASE CommitPublish(w)
    BY <2>10, CommitPublishStep
  <2>11. CASE DeadlockVictim(w)
    BY <2>11, RollbackStep DEF DeadlockVictim
  <2> QED
    BY <1>2, <2>1, <2>2, <2>3, <2>4, <2>5, <2>6, <2>7, <2>8, <2>9, <2>10, <2>11
    DEF Continue
<1>3. ASSUME NEW w \in Worker, Fail(w) PROVE IInv'
  BY <1>3, RollbackStep DEF Fail
<1>4. CASE UNCHANGED vars
  BY <1>4 DEF vars, IInv, TypeOK, TablesOK, LatestIsNewest, NumberedByGeneration,
     ChainGoesBack, SessionOK, IngestOK, NumberOK, Apart, Documents, VersionsOf
<1> QED
  BY <1>1, <1>2, <1>3, <1>4 DEF Next

\* The inductive invariant holds in every state the processes can reach.
THEOREM Invariant == Spec => []IInv
BY InitInvariant, NextInvariant, PTL DEF Spec

\* Rows and sessions stay within their columns' types.
THEOREM TypeCorrect == Spec => []TypeOK
<1>1. IInv => TypeOK
  BY DEF IInv
<1> QED
  BY <1>1, Invariant, PTL

\* latest_version_id is the version with the highest number, however many
\* processes ingest into the document at once.
THEOREM LatestCorrect == Spec => []LatestIsNewest
<1>1. IInv => LatestIsNewest
  BY DEF IInv, TablesOK
<1> QED
  BY <1>1, Invariant, PTL

\* version_seq is 1, 2, 3, ... without gaps or repetitions, although each
\* number is computed from an unlocked read.
THEOREM NumbersCorrect == Spec => []NumberedByGeneration
<1>1. IInv => NumberedByGeneration
  BY DEF IInv, TablesOK
<1> QED
  BY <1>1, Invariant, PTL

\* previous_version_id always leads to an older version of the same document.
THEOREM ChainCorrect == Spec => []ChainGoesBack
<1>1. IInv => ChainGoesBack
  BY DEF IInv, TablesOK
<1> QED
  BY <1>1, Invariant, PTL

\* Of all steps only the commit of an ingest writes latest_version_id or adds a
\* version, and only the commit of a publication writes current_version_id.
LEMMA TableWriters ==
  ASSUME IInv, [Next]_vars
  PROVE  \/ document' = document /\ version' = version
         \/ \E w \in Worker : CommitIngest(w) \/ CommitPublish(w)
<1>1. ASSUME NEW w \in Worker, Start(w) PROVE UNCHANGED tables
  BY <1>1 DEF Start, IngestTarget, RetryIngest, IngestExisting, IngestNew,
     LoadVersion, StartIngest
<1>2. ASSUME NEW w \in Worker, Continue(w), ~CommitIngest(w), ~CommitPublish(w)
      PROVE  UNCHANGED tables
  BY <1>2 DEF Continue, LoadTarget, ReadMaxSeq, ReadLabels, FillDepartment,
     InsertVersion, InsertRejected, LoadDocument, LoadPrevious, DeadlockVictim,
     Rollback, tables
<1>3. ASSUME NEW w \in Worker, Fail(w) PROVE UNCHANGED tables
  BY <1>3 DEF Fail, Rollback
<1> QED
  BY <1>1, <1>2, <1>3 DEF Next, tables, vars

\* latest_version_id moves only to the next generation.
THEOREM LatestForward == Spec => LatestAdvances
<1> DEFINE Advance == \A d \in Documents :
       document'[d].latest # document[d].latest =>
         version'[document'[d].latest].seq = version[document[d].latest].seq + 1
<1>1. ASSUME IInv, [Next]_vars PROVE [Advance]_vars
  <2>1. CASE document' = document /\ version' = version
    BY <2>1
  <2>2. ASSUME NEW w \in Worker, CommitIngest(w) PROVE Advance
    <3>1. PICK d, n : d = sess[w].doc /\ n = sess[w].ver
      OBVIOUS
    <3>2. /\ document'[d].latest = n /\ version'[n].seq = sess[w].seq
          /\ \A e \in DocId \ {d} : document'[e] = document[e]
      BY <1>1, <2>2, <3>1, IngestFrame
    <3>3. pc[w] = "commit"
      BY <2>2 DEF CommitIngest
    <3>4. d \in Documents => sess[w].seq = version[document[d].latest].seq + 1
      BY <1>1, <3>1, <3>3, NextGeneration
    <3> QED
      BY <3>2, <3>4 DEF Documents
  <2>3. ASSUME NEW w \in Worker, CommitPublish(w) PROVE Advance
    BY <1>1, <2>3, PublishFrame DEF Documents
  <2> QED
    BY <1>1, <2>1, <2>2, <2>3, TableWriters
<1>2. IInv /\ [Next]_vars => [Advance]_vars
  BY <1>1
<1> QED
  BY <1>2, Invariant, PTL DEF Spec, LatestAdvances
-----------------------------------------------------------------------------
(* KnowledgeBase implements VersionCatalog: the interleaved requests amount *)
(* to atomic recordings and publications of versions.                       *)

\* The history of d lists each of its versions at its number.
HistoryOK(d) ==
  /\ MaxSeq(d) \in Nat
  /\ History(d) \in Seq(VersionId) /\ Len(History(d)) = MaxSeq(d)
  /\ \A v \in VersionsOf(d) : /\ version[v].seq \in 1..MaxSeq(d)
                              /\ History(d)[version[v].seq] = v
  /\ \A k \in 1..MaxSeq(d) : /\ History(d)[k] \in VersionsOf(d)
                             /\ version[History(d)[k]].seq = k

LEMMA HistoryLists == IInv => \A d \in DocId : HistoryOK(d)
<1> SUFFICES ASSUME IInv, NEW d \in DocId PROVE HistoryOK(d)
  OBVIOUS
<1>1. CASE d \in Documents
  <2>1. PICK l \in VersionsOf(d) :
          /\ l = document[d].latest /\ MaxSeq(d) = version[l].seq
          /\ \A v \in VersionsOf(d) \ {l} : version[v].seq < version[l].seq
    BY <1>1, MaxSeqIsLatest DEF IInv, TablesOK, LatestIsNewest
  <2>2. \A v \in VersionsOf(d) : /\ version[v].seq \in Nat /\ version[v].seq >= 1
                                 /\ v \in VersionId
    BY NoneIsFresh DEF IInv, TypeOK, VersionRow, TablesOK, VersionsOf
  <2>3. \A v \in VersionsOf(d) : version[v].seq \in 1..MaxSeq(d)
    BY <2>1, <2>2
  <2>4. /\ \A k \in 1..MaxSeq(d) : \E u \in VersionsOf(d) : version[u].seq = k
        /\ \A u, v \in VersionsOf(d) : version[u].seq = version[v].seq => u = v
    BY <1>1, <2>1 DEF IInv, TablesOK, NumberedByGeneration
  <2>5. ASSUME NEW k \in 1..MaxSeq(d)
        PROVE  History(d)[k] \in VersionsOf(d) /\ version[History(d)[k]].seq = k
    BY <2>4 DEF History
  <2>6. History(d) = [k \in 1..MaxSeq(d) |-> History(d)[k]]
    BY DEF History
  <2>7. MaxSeq(d) \in Nat
    BY <2>1, <2>2
  <2>8. History(d) \in Seq(VersionId) /\ Len(History(d)) = MaxSeq(d)
    BY <2>2, <2>5, <2>6, <2>7
  <2> QED
    BY <2>3, <2>4, <2>5, <2>7, <2>8 DEF HistoryOK
<1>2. CASE d \notin Documents
  <2>1. VersionsOf(d) = {} /\ MaxSeq(d) = 0
    BY <1>2, MaxSeqIsLatest
  <2>2. History(d) = [k \in 1..0 |-> CHOOSE v \in VersionsOf(d) : version[v].seq = k]
    BY <2>1 DEF History
  <2>3. History(d) \in Seq(VersionId) /\ Len(History(d)) = 0
    BY <2>2
  <2> QED
    BY <2>1, <2>3 DEF HistoryOK
<1> QED
  BY <1>1, <1>2

LEMMA HistoryListsNext == IInv' => \A d \in DocId : HistoryOK(d)'
<1>1. (IInv => \A d \in DocId : HistoryOK(d))'
  BY HistoryLists, PTL
<1> QED
  BY <1>1

\* A history changes only when the document's versions or their numbers do.
LEMMA SameHistory ==
  ASSUME NEW d, HistoryOK(d), HistoryOK(d)', VersionsOf(d)' = VersionsOf(d),
         \A v \in VersionsOf(d) : version'[v].seq = version[v].seq
  PROVE  History(d)' = History(d)
<1>1. /\ MaxSeq(d) \in Nat /\ MaxSeq(d)' \in Nat
      /\ History(d) \in Seq(VersionId) /\ History(d)' \in Seq(VersionId)
      /\ Len(History(d)) = MaxSeq(d) /\ Len(History(d)') = MaxSeq(d)'
  BY DEF HistoryOK
<1>2. ASSUME NEW k \in 1..MaxSeq(d) PROVE k \in 1..MaxSeq(d)' /\ History(d)'[k] = History(d)[k]
  BY DEF HistoryOK
<1>3. ASSUME NEW k \in 1..MaxSeq(d)' PROVE k \in 1..MaxSeq(d)
  BY DEF HistoryOK
<1>4. MaxSeq(d)' = MaxSeq(d)
  <2>1. MaxSeq(d) # 0 => MaxSeq(d) \in 1..MaxSeq(d)'
    BY <1>1, <1>2
  <2>2. MaxSeq(d)' # 0 => MaxSeq(d)' \in 1..MaxSeq(d)
    BY <1>1, <1>3
  <2> QED
    BY <1>1, <2>1, <2>2
<1> QED
  BY <1>1, <1>2, <1>4, SeqEqual

\* What a committed ingest appends, and what it leaves alone.
LEMMA IngestAppends ==
  ASSUME IInv, IInv', NEW w \in Worker, CommitIngest(w),
         NEW d, d = sess[w].doc, NEW n, n = sess[w].ver
  PROVE  /\ History(d)' = Append(History(d), n)
         /\ \A e \in DocId \ {d} : History(e)' = History(e)
<1>1. pc[w] = "commit"
  BY DEF CommitIngest
<1>2. /\ d \in DocId /\ n \in VersionId /\ version[n].doc = None
      /\ version'[n].seq = sess[w].seq
      /\ \A v \in VersionId \ {n} : version'[v] = version[v]
      /\ VersionsOf(d)' = VersionsOf(d) \cup {n}
      /\ \A e \in DocId \ {d} : VersionsOf(e)' = VersionsOf(e)
  BY IngestFrame
<1>3. \A e \in DocId : \A v \in VersionsOf(e) : v # n /\ version'[v] = version[v]
  BY <1>2, NoneIsFresh DEF VersionsOf
<1>4. \A e \in DocId : HistoryOK(e) /\ HistoryOK(e)'
  BY HistoryLists, HistoryListsNext
<1>5. version'[n].seq = MaxSeq(d) + 1
  BY <1>1, <1>2, NextGeneration, MaxSeqIsLatest
<1>6. HistoryOK(d) /\ HistoryOK(d)'
  BY <1>2, <1>4
<1>7. MaxSeq(d) \in Nat /\ MaxSeq(d)' \in Nat
  BY <1>6 DEF HistoryOK
<1>8. MaxSeq(d)' = MaxSeq(d) + 1
  <2>1. MaxSeq(d) + 1 \in 1..MaxSeq(d)'
    BY <1>2, <1>5, <1>6 DEF HistoryOK
  <2>2. \A v \in VersionsOf(d)' : version'[v].seq \in 1..(MaxSeq(d) + 1)
    BY <1>2, <1>3, <1>5, <1>6, <1>7 DEF HistoryOK
  <2>3. \E v \in VersionsOf(d)' : version'[v].seq = MaxSeq(d)'
    BY <1>6, <1>7, <2>1 DEF HistoryOK
  <2> QED
    BY <1>7, <2>1, <2>2, <2>3
<1>9. History(d)' = Append(History(d), n)
  <2>1. /\ History(d) \in Seq(VersionId) /\ History(d)' \in Seq(VersionId)
        /\ Len(History(d)) = MaxSeq(d) /\ Len(History(d)') = MaxSeq(d) + 1
    BY <1>6, <1>8 DEF HistoryOK
  <2>2. ASSUME NEW k \in 1..MaxSeq(d) PROVE History(d)'[k] = History(d)[k]
    BY <1>2, <1>3, <1>6 DEF HistoryOK
  <2>3. History(d)'[MaxSeq(d) + 1] = n
    BY <1>2, <1>5, <1>6 DEF HistoryOK
  <2> DEFINE h == History(d)
             a == Append(h, n)
  <2>4. /\ a \in Seq(VersionId) /\ Len(a) = Len(h) + 1
        /\ \A k \in 1..Len(h) : a[k] = h[k]
        /\ a[Len(h) + 1] = n
    BY <1>2, <2>1, AppendProperties
  <2> HIDE DEF h, a
  <2>5. Len(h') = Len(a) /\ h' \in Seq(VersionId)
    BY <2>1, <2>4 DEF h
  <2>6. \A k \in 1..Len(h') : h'[k] = a[k]
    BY <1>7, <2>1, <2>2, <2>3, <2>4 DEF h
  <2>7. h' = a
    BY <2>4, <2>5, <2>6, SeqEqual
  <2> QED
    BY <2>7 DEF h, a
<1>10. ASSUME NEW e \in DocId \ {d} PROVE History(e)' = History(e)
  BY <1>2, <1>3, <1>4, SameHistory
<1> QED
  BY <1>9, <1>10

\* What a publication does to the catalog: it names a version of the document's
\* history, or finds that its document already names it and writes nothing.
LEMMA PublishPublishes ==
  ASSUME IInv, IInv', NEW w \in Worker, CommitPublish(w),
         NEW d, d = sess[w].doc, NEW v, v = sess[w].ver
  PROVE  /\ d \in DocId /\ v \in VersionId
         /\ \E k \in 1..Len(History(d)) : History(d)[k] = v
         /\ \A e \in DocId : /\ History(e)' = History(e)
                             /\ document'[e].latest = document[e].latest
         /\ \/ document' = document
            \/ \A e \in DocId : document'[e].current =
                                  IF e = d THEN v ELSE document[e].current
<1>1. d \in DocId /\ v \in VersionId /\ v \in VersionsOf(d)
  BY DEF CommitPublish, IInv, SessionOK, PublishPC, Documents, VersionsOf
<1>2. HistoryOK(d)
  BY <1>1, HistoryLists
<1>3. \E k \in 1..Len(History(d)) : History(d)[k] = v
  BY <1>1, <1>2 DEF HistoryOK
<1>4. ASSUME NEW e \in DocId
      PROVE  History(e)' = History(e) /\ document'[e].latest = document[e].latest
  <2>1. VersionsOf(e)' = VersionsOf(e) /\ \A u \in VersionsOf(e) : version'[u].seq = version[u].seq
    BY PublishFrame DEF VersionsOf
  <2> QED
    BY <2>1, HistoryLists, HistoryListsNext, SameHistory, PublishFrame
<1>5. \/ document' = document
      \/ \A e \in DocId : document'[e].current =
                            IF e = d THEN v ELSE document[e].current
  <2>1. document[d] \in DocumentRow
    BY <1>1 DEF IInv, TypeOK
  <2> DEFINE new == [document[d] EXCEPT !.current = v, !.status = "active"]
  <2>2. new.current = v
    BY <2>1 DEF DocumentRow
  <2>3. document' = document \/ document' = [document EXCEPT ![d] = new]
    BY DEF CommitPublish
  <2> HIDE DEF new
  <2> QED
    BY <1>1, <2>2, <2>3 DEF IInv, TypeOK
<1> QED
  BY <1>1, <1>3, <1>4, <1>5

\* An ingest does not touch current_version_id; a new document has none.
LEMMA IngestKeepsCurrent ==
  ASSUME IInv, NEW w \in Worker, CommitIngest(w), NEW d, d = sess[w].doc
  PROVE  document'[d].current = document[d].current
<1>1. /\ sess[w] \in Session /\ IngestOK(w) /\ d \in DocId
  BY DEF CommitIngest, IInv, TypeOK, SessionOK, IngestPC, IngestOK
<1> DEFINE old == IF sess[w].created THEN sess[w].row ELSE document[d]
           new == [old EXCEPT !.latest = sess[w].ver, !.dept = @ \/ sess[w].fill]
<1>2. old \in DocumentRow /\ old.current = document[d].current
  BY <1>1 DEF IInv, TypeOK, TablesOK, IngestOK, Session, Documents
<1>3. new.current = old.current
  <2> HIDE DEF old
  <2> QED
    BY <1>2 DEF DocumentRow
<1>4. document' = [document EXCEPT ![d] = new]
  BY DEF CommitIngest
<1> HIDE DEF new
<1> QED
  BY <1>1, <1>2, <1>3, <1>4 DEF IInv, TypeOK

\* A version that is not stored is in no history.
LEMMA Unrecorded ==
  ASSUME IInv, NEW n \in VersionId, version[n].doc = None
  PROVE  ~Catalog!Recorded(n)
<1>1. ASSUME NEW e \in DocId, NEW k \in 1..Len(History(e)), History(e)[k] = n
      PROVE  FALSE
  <2>1. HistoryOK(e)
    BY HistoryLists
  <2>2. n \in VersionsOf(e)
    BY <1>1, <2>1 DEF HistoryOK
  <2> QED
    BY <2>2, NoneIsFresh DEF VersionsOf
<1> QED
  BY <1>1 DEF Catalog!Recorded

\* The requests of any number of processes, interleaved statement by statement,
\* implement the catalog in which recording and publishing are atomic.
THEOREM CatalogImplemented == Spec => ImplementsCatalog
<1>1. ASSUME Init PROVE Catalog!Init
  <2>1. ASSUME NEW d \in DocId PROVE History(d) = <<>>
    <3>1. IInv /\ VersionsOf(d) = {}
      BY <1>1, InitInvariant, NoneIsFresh DEF Init, VersionsOf, NoVersion
    <3>2. HistoryOK(d) /\ MaxSeq(d) = 0
      BY <3>1, HistoryLists DEF MaxSeq
    <3> QED
      BY <3>2 DEF HistoryOK
  <2>2. \A d \in DocId : document[d].latest = None /\ document[d].current = None
    BY <1>1 DEF Init, NewDocument
  <2> QED
    BY <2>1, <2>2 DEF Catalog!Init
<1>2. ASSUME IInv, [Next]_vars PROVE [Catalog!Next]_(Catalog!catalog)
  <2>0. IInv'
    BY <1>2, NextInvariant
  <2>1. CASE document' = document /\ version' = version
    BY <2>1 DEF Catalog!catalog, History, MaxSeq, VersionsOf
  <2>2. ASSUME NEW w \in Worker, CommitIngest(w) PROVE Catalog!Next
    <3>1. PICK d, n : d = sess[w].doc /\ n = sess[w].ver
      OBVIOUS
    <3>2. /\ History(d)' = Append(History(d), n)
          /\ \A e \in DocId \ {d} : History(e)' = History(e)
      BY <1>2, <2>0, <2>2, <3>1, IngestAppends
    <3>3. /\ d \in DocId /\ n \in VersionId /\ version[n].doc = None
          /\ document'[d].latest = n
          /\ \A e \in DocId \ {d} : document'[e] = document[e]
      BY <1>2, <2>2, <3>1, IngestFrame
    <3>4. ~Catalog!Recorded(n)
      BY <1>2, <3>3, Unrecorded
    <3>5. document'[d].current = document[d].current
      BY <1>2, <2>2, <3>1, <3>3, IngestKeepsCurrent
    <3>6. Catalog!Record(d, n)
      BY <3>2, <3>3, <3>4, <3>5 DEF Catalog!Record
    <3> QED
      BY <3>3, <3>6 DEF Catalog!Next
  <2>3. ASSUME NEW w \in Worker, CommitPublish(w) PROVE [Catalog!Next]_(Catalog!catalog)
    <3>1. PICK d, v : d = sess[w].doc /\ v = sess[w].ver
      OBVIOUS
    <3>2. /\ d \in DocId /\ v \in VersionId
          /\ \E k \in 1..Len(History(d)) : History(d)[k] = v
          /\ \A e \in DocId : /\ History(e)' = History(e)
                              /\ document'[e].latest = document[e].latest
          /\ \/ document' = document
             \/ \A e \in DocId : document'[e].current =
                                   IF e = d THEN v ELSE document[e].current
      BY <1>2, <2>0, <2>3, <3>1, PublishPublishes
    <3>3. CASE document' = document
      BY <3>2, <3>3 DEF Catalog!catalog
    <3>4. CASE \A e \in DocId : document'[e].current =
                                  IF e = d THEN v ELSE document[e].current
      <4>1. Catalog!Publish(d, v)
        BY <3>2, <3>4 DEF Catalog!Publish
      <4> QED
        BY <3>2, <4>1 DEF Catalog!Next
    <3> QED
      BY <3>2, <3>3, <3>4
  <2> QED
    BY <1>2, <2>1, <2>2, <2>3, TableWriters
<1>3. IInv /\ [Next]_vars => [Catalog!Next]_(Catalog!catalog)
  BY <1>2
<1> QED
  BY <1>1, <1>3, Invariant, PTL DEF Spec, ImplementsCatalog, Catalog!Spec

-----------------------------------------------------------------------------
\* What holds of documents whose requests did not overlap.

\* A session's own part of the invariant.
OwnOK(w) == RowOK(w) /\ PublishFresh(w) /\ CreateFresh(w) /\ IngestFresh(w)

\* Each step notes who meets, and forgets no meeting.
LEMMA Noted ==
  ASSUME MeetingsNoted, Note
  PROVE  /\ MeetingsNoted'
         /\ met.publish \subseteq met'.publish
         /\ met.ingest \subseteq met'.ingest
         /\ met.create \subseteq met'.create
<1>1. /\ met'.publish = met.publish \cup {d \in DocId : PublishersMeet(d)'}
      /\ met'.ingest = met.ingest \cup {d \in DocId : IngestersMeet(d)'}
      /\ met'.create = met.create \cup {p \in Policy : CreatorsMeet(p)'}
  BY DEF Note
<1>2. met' \in Meetings
  BY <1>1 DEF Note, MeetingsNoted, Meetings
<1> QED
  BY <1>1, <1>2 DEF MeetingsNoted

\* A step of w that writes no table keeps the invariant if w's session is in
\* order afterwards.
LEMMA QuietOverlap ==
  ASSUME OInv, Note, NEW w \in Worker, UNCHANGED tables, OwnOK(w)',
         \A u \in Worker \ {w} : pc'[u] = pc[u] /\ sess'[u] = sess[u]
  PROVE  OInv'
<1>1. /\ MeetingsNoted' /\ met.publish \subseteq met'.publish
      /\ met.ingest \subseteq met'.ingest /\ met.create \subseteq met'.create
  BY Noted DEF OInv
<1>2. document' = document /\ version' = version
  BY DEF tables
<1>3. ASSUME NEW u \in Worker \ {w} PROVE OwnOK(u)'
  <2>1. OwnOK(u) /\ pc'[u] = pc[u] /\ sess'[u] = sess[u]
    BY DEF OInv, OwnOK
  <2>2. RowOK(u)'
    BY <1>2, <2>1 DEF OwnOK, RowOK, VersionsOf
  <2>3. PublishFresh(u)'
    BY <1>1, <1>2, <2>1 DEF OwnOK, PublishFresh, Supersedes
  <2>4. CreateFresh(u)'
    BY <1>1, <1>2, <2>1 DEF OwnOK, CreateFresh, Documents
  <2>5. IngestFresh(u)'
    BY <1>1, <1>2, <2>1 DEF OwnOK, IngestFresh
  <2> QED
    BY <2>2, <2>3, <2>4, <2>5 DEF OwnOK
<1>4. \A u \in Worker : OwnOK(u)'
  BY <1>3
<1>5. ActiveUnlessRaced'
  BY <1>1, <1>2 DEF OInv, ActiveUnlessRaced, CurrentIsActive, Documents, VersionsOf
<1>6. OneDocumentUnlessRaced'
  BY <1>1, <1>2 DEF OInv, OneDocumentUnlessRaced, Documents
<1>7. ChainUnlessRaced'
  BY <1>1, <1>2 DEF OInv, ChainUnlessRaced, ChainComplete, Documents, VersionsOf
<1>8. (\A d \in Documents : document[d].current \in VersionsOf(d) \cup {None})'
  BY <1>2 DEF OInv, Documents, VersionsOf
<1> QED
  BY <1>1, <1>4, <1>5, <1>6, <1>7, <1>8 DEF OInv, OwnOK

\* A request that has ended claims nothing.
LEMMA IdleOwn ==
  ASSUME NEW w \in Worker, pc'[w] = "idle"
  PROVE  OwnOK(w)'
BY DEF OwnOK, RowOK, PublishFresh, CreateFresh, IngestFresh, IngestPC, PublishPC

LEMMA RollbackOverlap ==
  ASSUME IInv, OInv, Note, NEW w \in Worker, Rollback(w) PROVE OInv'
<1>1. /\ pc'[w] = "idle" /\ UNCHANGED tables
      /\ \A u \in Worker \ {w} : pc'[u] = pc[u] /\ sess'[u] = sess[u]
  BY DEF Rollback, IInv, TypeOK
<1> QED
  BY <1>1, IdleOwn, QuietOverlap

-----------------------------------------------------------------------------
(* The start of a request.                                                  *)

LEMMA StartIngestOverlap ==
  ASSUME IInv, OInv, Note, NEW w \in Worker, NEW d \in DocId, NEW r \in DocumentRow,
         NEW new \in BOOLEAN, NEW fil \in BOOLEAN, NEW b \in StoredLabel,
         NEW f \in File, NEW next \in {"loadTarget", "maxSeq"},
         StartIngest(w, d, r, new, fil, b, f, next),
         new => /\ r.status = "draft"
                /\ \A e \in DocId : document[e].policy # r.policy,
         ~new /\ next = "maxSeq" => r = document[d]
  PROVE  OInv'
<1>1. PICK v \in FreshVersions :
        sess' = [sess EXCEPT ![w] =
                   [NewSession EXCEPT !.doc = d, !.row = r, !.created = new,
                                      !.fill = fil, !.ver = v, !.base = b,
                                      !.file = f]]
  BY DEF StartIngest
<1>2. /\ pc' = [pc EXCEPT ![w] = next] /\ UNCHANGED tables
      /\ document' = document /\ version' = version
  BY DEF StartIngest, tables
<1>3. /\ pc'[w] = next
      /\ sess'[w] = [NewSession EXCEPT !.doc = d, !.row = r, !.created = new,
                                      !.fill = fil, !.ver = v, !.base = b,
                                      !.file = f]
      /\ \A u \in Worker \ {w} : pc'[u] = pc[u] /\ sess'[u] = sess[u]
  BY <1>1, <1>2 DEF IInv, TypeOK
<1>4. /\ sess'[w].doc = d /\ sess'[w].row = r /\ sess'[w].created = new
  BY <1>3, NewSessionType DEF Session
<1>5. RowOK(w)' /\ PublishFresh(w)'
  BY <1>3, <1>4 DEF RowOK, PublishFresh, PublishPC
<1>6. CreateFresh(w)'
  BY <1>2, <1>4 DEF CreateFresh, Documents
<1>7. IngestFresh(w)'
  BY <1>2, <1>3, <1>4 DEF IngestFresh
<1> QED
  BY <1>2, <1>3, <1>5, <1>6, <1>7, QuietOverlap DEF OwnOK

LEMMA StartOverlap ==
  ASSUME IInv, OInv, Note, NEW w \in Worker, Start(w) PROVE OInv'
<1>1. ASSUME NEW d \in DocId, NEW b \in Label, NEW f \in File, IngestTarget(w, d, b, f)
      PROVE  OInv'
  BY <1>1, LabelTypes, StoredDocument, StartIngestOverlap DEF IngestTarget
<1>2. ASSUME NEW d \in DocId, NEW f \in File, RetryIngest(w, d, f) PROVE OInv'
  <2>1. d \in Documents /\ document[d].latest \in VersionId
    BY <1>2, StoredDocument DEF RetryIngest
  <2>2. version[document[d].latest].label \in StoredLabel
    BY <2>1 DEF IInv, TypeOK, VersionRow
  <2>3. NewDocument(None, FALSE) \in DocumentRow
    BY DEF NewDocument, DocumentRow
  <2> QED
    BY <1>2, <2>1, <2>2, <2>3, StartIngestOverlap DEF RetryIngest
<1>3. ASSUME NEW p \in Policy, NEW dep \in BOOLEAN, NEW b \in Label, NEW f \in File,
             IngestExisting(w, p, dep, b, f)
      PROVE  OInv'
  <2>1. PICK d \in DocId :
          /\ document[d].policy = p
          /\ StartIngest(w, d, document[d], FALSE, dep /\ ~document[d].dept, Plain(b), f,
                         "maxSeq")
    BY <1>3 DEF IngestExisting
  <2>2. d \in Documents
    BY <2>1, NoneIsFresh DEF Documents
  <2>3. (dep /\ ~document[d].dept) \in BOOLEAN
    OBVIOUS
  <2> QED
    BY <2>1, <2>2, <2>3, LabelTypes, StoredDocument, StartIngestOverlap
<1>4. ASSUME NEW p \in Policy, NEW dep \in BOOLEAN, NEW b \in Label, NEW f \in File,
             IngestNew(w, p, dep, b, f)
      PROVE  OInv'
  <2>1. PICK d \in FreshDocuments :
          StartIngest(w, d, NewDocument(p, dep), TRUE, FALSE, Plain(b), f, "maxSeq")
    BY <1>4 DEF IngestNew
  <2>2. /\ NewDocument(p, dep) \in DocumentRow /\ NewDocument(p, dep).policy = p
        /\ NewDocument(p, dep).status = "draft"
    BY DEF NewDocument, DocumentRow
  <2>3. d \in DocId /\ \A e \in DocId : document[e].policy # p
    BY <1>4 DEF FreshDocuments, IngestNew
  <2> QED
    BY <2>1, <2>2, <2>3, LabelTypes, StartIngestOverlap
<1>5. ASSUME NEW d \in DocId, NEW v \in VersionId, LoadVersion(w, d, v) PROVE OInv'
  <2>1. /\ pc'[w] = "loadDocument" /\ UNCHANGED tables
        /\ version' = version /\ document' = document
        /\ sess'[w] = [NewSession EXCEPT !.doc = d, !.ver = v, !.loaded = version[v].status]
        /\ \A u \in Worker \ {w} : pc'[u] = pc[u] /\ sess'[u] = sess[u]
    BY <1>5 DEF LoadVersion, IInv, TypeOK, tables
  <2>2. sess'[w].ver = v /\ sess'[w].loaded = version[v].status
    BY <2>1, NewSessionType DEF Session
  <2>3. OwnOK(w)'
    BY <2>1, <2>2 DEF OwnOK, RowOK, PublishFresh, CreateFresh, IngestFresh, IngestPC
  <2> QED
    BY <2>1, <2>3, QuietOverlap
<1> QED
  BY <1>1, <1>2, <1>3, <1>4, <1>5 DEF Start

-----------------------------------------------------------------------------
(* The statements that only read.                                           *)

LEMMA LoadTargetOverlap ==
  ASSUME IInv, OInv, Note, NEW w \in Worker, LoadTarget(w) PROVE OInv'
<1>1. /\ pc[w] = "loadTarget" /\ pc'[w] = "maxSeq" /\ UNCHANGED tables
      /\ document' = document
      /\ sess'[w] = [sess[w] EXCEPT !.row = document[sess[w].doc]]
      /\ \A u \in Worker \ {w} : pc'[u] = pc[u] /\ sess'[u] = sess[u]
  BY DEF LoadTarget, IInv, TypeOK, tables
<1>2. /\ sess[w] \in Session /\ ~sess[w].created
  BY <1>1 DEF IInv, TypeOK, SessionOK, IngestOK, IngestPC
<1>3. /\ sess'[w].doc = sess[w].doc /\ ~sess'[w].created
      /\ sess'[w].row = document[sess[w].doc]
  BY <1>1, <1>2 DEF Session
<1>4. OwnOK(w)'
  BY <1>1, <1>3 DEF OwnOK, RowOK, PublishFresh, CreateFresh, IngestFresh, PublishPC
<1> QED
  BY <1>1, <1>4, QuietOverlap

\* The later statements of an ingest keep the document object they have.
LEMMA IngestOnOverlap ==
  ASSUME IInv, OInv, Note, NEW w \in Worker, UNCHANGED tables,
         pc[w] \in IngestPC \ {"loadTarget"}, pc'[w] \in IngestPC \ {"loadTarget"},
         sess'[w].doc = sess[w].doc, sess'[w].created = sess[w].created,
         sess'[w].row = sess[w].row,
         \A u \in Worker \ {w} : pc'[u] = pc[u] /\ sess'[u] = sess[u]
  PROVE  OInv'
<1>1. /\ document' = document /\ version' = version
      /\ met.ingest \subseteq met'.ingest /\ met.create \subseteq met'.create
  BY Noted DEF tables, OInv
<1>2. RowOK(w) /\ CreateFresh(w) /\ IngestFresh(w)
  BY DEF OInv
<1>3. RowOK(w)' /\ PublishFresh(w)'
  BY <1>1, <1>2 DEF RowOK, PublishFresh, IngestPC, PublishPC
<1>4. CreateFresh(w)'
  BY <1>1, <1>2 DEF CreateFresh, Documents
<1>5. IngestFresh(w)'
  BY <1>1, <1>2 DEF IngestFresh
<1> QED
  BY <1>3, <1>4, <1>5, QuietOverlap DEF OwnOK

LEMMA ReadMaxSeqOverlap ==
  ASSUME IInv, OInv, Note, NEW w \in Worker, ReadMaxSeq(w) PROVE OInv'
<1>1. /\ pc[w] = "maxSeq" /\ pc'[w] = "labels" /\ UNCHANGED tables
      /\ sess'[w] = [sess[w] EXCEPT !.seq = MaxSeq(sess[w].doc) + 1]
      /\ \A u \in Worker \ {w} : pc'[u] = pc[u] /\ sess'[u] = sess[u]
      /\ sess[w] \in Session
  BY DEF ReadMaxSeq, IInv, TypeOK
<1>2. /\ sess'[w].doc = sess[w].doc /\ sess'[w].created = sess[w].created
      /\ sess'[w].row = sess[w].row
  BY <1>1 DEF Session
<1> QED
  BY <1>1, <1>2, IngestOnOverlap DEF IngestPC

LEMMA ReadLabelsOverlap ==
  ASSUME IInv, OInv, Note, NEW w \in Worker, ReadLabels(w) PROVE OInv'
<1>1. PICK k \in 1..MaxSuffix : sess' = [sess EXCEPT ![w].suffix = k]
  BY DEF ReadLabels
<1>2. /\ pc[w] = "labels" /\ pc'[w] \in {"fill", "insert"} /\ UNCHANGED tables
      /\ sess'[w] = [sess[w] EXCEPT !.suffix = k]
      /\ \A u \in Worker \ {w} : pc'[u] = pc[u] /\ sess'[u] = sess[u]
      /\ sess[w] \in Session
  BY <1>1 DEF ReadLabels, IInv, TypeOK
<1>3. /\ sess'[w].doc = sess[w].doc /\ sess'[w].created = sess[w].created
      /\ sess'[w].row = sess[w].row
  BY <1>2 DEF Session
<1> QED
  BY <1>2, <1>3, IngestOnOverlap DEF IngestPC

LEMMA InsertOverlap ==
  ASSUME IInv, OInv, Note, NEW w \in Worker, FillDepartment(w) \/ InsertVersion(w)
  PROVE  OInv'
<1>1. /\ pc[w] \in {"fill", "insert"} /\ pc'[w] \in {"insert", "commit"}
      /\ UNCHANGED tables /\ sess' = sess
      /\ \A u \in Worker \ {w} : pc'[u] = pc[u]
  BY DEF FillDepartment, InsertVersion, IInv, TypeOK, tables
<1> QED
  BY <1>1, IngestOnOverlap DEF IngestPC

LEMMA LoadDocumentOverlap ==
  ASSUME IInv, OInv, Note, NEW w \in Worker, LoadDocument(w) PROVE OInv'
<1> DEFINE d == sess[w].doc
<1>1. /\ pc[w] = "loadDocument" /\ UNCHANGED tables
      /\ document' = document /\ version' = version
      /\ pc'[w] = IF document[d].current \in {None, sess[w].ver} THEN "publish"
                  ELSE "loadPrevious"
      /\ sess'[w] = [sess[w] EXCEPT !.row = document[d]]
      /\ \A u \in Worker \ {w} : pc'[u] = pc[u] /\ sess'[u] = sess[u]
  BY DEF LoadDocument, IInv, TypeOK, tables
<1>2. /\ sess[w] \in Session /\ d \in Documents /\ PublishFresh(w)
      /\ met.publish \subseteq met'.publish
  BY <1>1, Noted DEF IInv, TypeOK, SessionOK, PublishPC, OInv
<1>3. /\ sess'[w].doc = d /\ sess'[w].row = document[d] /\ sess'[w].ver = sess[w].ver
      /\ sess'[w].loaded = sess[w].loaded
  BY <1>1, <1>2 DEF Session
<1>4. RowOK(w)'
  BY <1>1, <1>2, <1>3 DEF RowOK, OInv, IngestPC, VersionsOf
<1>5. PublishFresh(w)'
  BY <1>1, <1>2, <1>3 DEF PublishFresh, PublishPC, Supersedes
<1>6. CreateFresh(w)' /\ IngestFresh(w)'
  BY <1>1 DEF CreateFresh, IngestFresh, IngestPC
<1> QED
  BY <1>1, <1>4, <1>5, <1>6, QuietOverlap DEF OwnOK

LEMMA LoadPreviousOverlap ==
  ASSUME IInv, OInv, Note, NEW w \in Worker, LoadPrevious(w) PROVE OInv'
<1>1. /\ pc[w] = "loadPrevious" /\ pc'[w] = "publish" /\ UNCHANGED tables
      /\ document' = document /\ version' = version
      /\ sess'[w] = [sess[w] EXCEPT !.prior = version[sess[w].row.current].status]
      /\ \A u \in Worker \ {w} : pc'[u] = pc[u] /\ sess'[u] = sess[u]
  BY DEF LoadPrevious, IInv, TypeOK, tables
<1>2. /\ sess[w] \in Session /\ PublishFresh(w) /\ RowOK(w)
      /\ met.publish \subseteq met'.publish
  BY <1>1, Noted DEF IInv, TypeOK, OInv
<1>3. /\ sess'[w].doc = sess[w].doc /\ sess'[w].row = sess[w].row
      /\ sess'[w].ver = sess[w].ver /\ sess'[w].loaded = sess[w].loaded
      /\ sess'[w].prior = version[sess[w].row.current].status
  BY <1>1, <1>2 DEF Session
<1>4. RowOK(w)'
  BY <1>1, <1>2, <1>3 DEF RowOK, IngestPC, VersionsOf
<1>5. PublishFresh(w)'
  BY <1>1, <1>2, <1>3 DEF PublishFresh, PublishPC, Supersedes
<1>6. CreateFresh(w)' /\ IngestFresh(w)'
  BY <1>1 DEF CreateFresh, IngestFresh, IngestPC
<1> QED
  BY <1>1, <1>4, <1>5, <1>6, QuietOverlap DEF OwnOK

-----------------------------------------------------------------------------
(* The commit of a publication.                                             *)

\* It writes the current version of its document, and statuses only of the
\* document's own versions.
LEMMA PublishWrites ==
  ASSUME IInv, OInv, NEW w \in Worker, CommitPublish(w), NEW d, d = sess[w].doc
  PROVE  /\ d \in Documents /\ sess[w].ver \in VersionsOf(d)
         /\ \A e \in Documents : VersionsOf(e)' = VersionsOf(e)
         /\ \A e \in Documents \ {d} :
              /\ document'[e] = document[e]
              /\ \A v \in VersionsOf(e) : version'[v] = version[v]
         /\ \A v \in VersionId : version'[v].status = NewStatus(w, v)
         /\ document'[d].current \in {document[d].current, sess[w].ver}
         /\ WritesDocument(w) => /\ document'[d].current = sess[w].ver
                                 /\ document'[d].status = "active"
         /\ ~WritesDocument(w) => document'[d] = document[d]
<1>1. /\ d \in Documents /\ sess[w].ver \in VersionsOf(d) /\ pc[w] = "publish"
      /\ sess[w].row.current \in VersionsOf(d) \cup {None}
  BY DEF CommitPublish, IInv, SessionOK, PublishPC, OInv, RowOK
<1>2. \A v \in VersionId : version'[v] = [version[v] EXCEPT !.status = NewStatus(w, v)]
  BY DEF CommitPublish
<1>3. \A v \in VersionId : version[v] \in VersionRow
  BY DEF IInv, TypeOK
<1>4. \A v \in VersionId : version'[v].status = NewStatus(w, v)
  BY <1>2, <1>3 DEF VersionRow
<1>5. \A e \in Documents : VersionsOf(e)' = VersionsOf(e)
  BY PublishFrame DEF VersionsOf
<1>6. ASSUME NEW e \in Documents \ {d}
      PROVE  /\ document'[e] = document[e]
             /\ \A v \in VersionsOf(e) : version'[v] = version[v]
  <2>1. document'[e] = document[e]
    BY <1>6 DEF CommitPublish, IInv, TypeOK, Documents
  <2>2. ASSUME NEW v \in VersionsOf(e) PROVE version'[v] = version[v]
    <3>1. v \in VersionId /\ v # sess[w].ver /\ (Supersedes(w) => v # sess[w].row.current)
      BY <1>1, <1>6 DEF VersionsOf, Supersedes
    <3>2. NewStatus(w, v) = version[v].status
      BY <3>1 DEF NewStatus
    <3> QED
      BY <1>2, <1>3, <3>1, <3>2 DEF VersionRow
  <2> QED
    BY <2>1, <2>2
<1>7. /\ document[d] \in DocumentRow /\ d \in DocId
  BY <1>1 DEF IInv, TypeOK, Documents
<1>8. WritesDocument(w) =>
        document'[d] = [document[d] EXCEPT !.current = sess[w].ver, !.status = "active"]
  BY <1>7 DEF CommitPublish, IInv, TypeOK
<1>9. WritesDocument(w) => /\ document'[d].current = sess[w].ver
                           /\ document'[d].status = "active"
  BY <1>7, <1>8 DEF DocumentRow
<1>10. ~WritesDocument(w) => document'[d] = document[d]
  BY DEF CommitPublish
<1> QED
  BY <1>1, <1>4, <1>5, <1>6, <1>9, <1>10

\* A publication that met no other makes its version the one active version.
LEMMA PublishActive ==
  ASSUME IInv, OInv, NEW w \in Worker, CommitPublish(w), NEW d, d = sess[w].doc,
         d \notin met.publish
  PROVE  CurrentIsActive(d)'
<1>1. /\ d \in Documents /\ sess[w].ver \in VersionsOf(d)
      /\ VersionsOf(d)' = VersionsOf(d)
      /\ \A v \in VersionId : version'[v].status = NewStatus(w, v)
      /\ WritesDocument(w) => /\ document'[d].current = sess[w].ver
                              /\ document'[d].status = "active"
      /\ ~WritesDocument(w) => document'[d] = document[d]
  BY PublishWrites
<1>2. /\ sess[w].row.current = document[d].current
      /\ sess[w].row.status = document[d].status
      /\ sess[w].loaded = version[sess[w].ver].status
      /\ Supersedes(w) => sess[w].prior = version[sess[w].row.current].status
  BY DEF CommitPublish, OInv, PublishFresh, PublishPC
<1>3. CurrentIsActive(d)
  BY <1>1 DEF OInv, ActiveUnlessRaced
<1>4. document'[d].current = sess[w].ver /\ document'[d].status = "active"
  BY <1>1, <1>2 DEF WritesDocument
<1>5. ASSUME NEW v \in VersionsOf(d)
      PROVE  version'[v].status = "active" <=> v = sess[w].ver
  <2>1. v \in VersionId /\ version'[v].status = NewStatus(w, v)
    BY <1>1 DEF VersionsOf
  <2>2. CASE v = sess[w].ver
    BY <1>2, <2>1, <2>2 DEF NewStatus, Supersedes
  <2>3. CASE v # sess[w].ver /\ v = document[d].current
    <3>1. Supersedes(w) /\ version[v].status = "active"
      BY <1>2, <1>3, <2>1, <2>3, NoneIsFresh DEF Supersedes, CurrentIsActive
    <3> QED
      BY <1>2, <2>1, <2>3, <3>1 DEF NewStatus
  <2>4. CASE v # sess[w].ver /\ v # document[d].current
    <3>1. version[v].status # "active"
      BY <1>3, <2>4 DEF CurrentIsActive
    <3> QED
      BY <1>2, <2>1, <2>4, <3>1 DEF NewStatus
  <2> QED
    BY <2>2, <2>3, <2>4
<1>6. sess[w].ver # None
  BY <1>1, NoneIsFresh DEF VersionsOf
<1> QED
  BY <1>1, <1>4, <1>5, <1>6 DEF CurrentIsActive

LEMMA CommitPublishOverlap ==
  ASSUME IInv, OInv, Note, NEW w \in Worker, CommitPublish(w) PROVE OInv'
<1>0. PICK d : d = sess[w].doc
  OBVIOUS
<1>1. /\ d \in Documents /\ sess[w].ver \in VersionsOf(d)
      /\ \A e \in Documents : VersionsOf(e)' = VersionsOf(e)
      /\ \A e \in Documents \ {d} :
           /\ document'[e] = document[e]
           /\ \A v \in VersionsOf(e) : version'[v] = version[v]
      /\ document'[d].current \in {document[d].current, sess[w].ver}
  BY <1>0, PublishWrites
<1>2. /\ \A v \in VersionId : /\ version'[v].seq = version[v].seq
                              /\ version'[v].prev = version[v].prev
      /\ \A e \in DocId : /\ document'[e].policy = document[e].policy
                          /\ document'[e].latest = document[e].latest
      /\ pc'[w] = "idle"
      /\ \A u \in Worker \ {w} : pc'[u] = pc[u] /\ sess'[u] = sess[u]
  BY PublishFrame
<1>3. Documents' = Documents /\ \A e \in Documents : e \in DocId
  BY <1>2 DEF Documents
<1>4. /\ MeetingsNoted' /\ met.publish \subseteq met'.publish
      /\ met.ingest \subseteq met'.ingest /\ met.create \subseteq met'.create
  BY Noted DEF OInv
<1>5. \A e \in Documents' : document'[e].current \in VersionsOf(e)' \cup {None}
  BY <1>1, <1>3 DEF OInv
<1>6. ASSUME NEW u \in Worker \ {w} PROVE OwnOK(u)'
  <2>1. OwnOK(u) /\ pc'[u] = pc[u] /\ sess'[u] = sess[u] /\ SessionOK(u)
    BY <1>2 DEF OInv, OwnOK, IInv
  <2>2. pc[u] \in PublishPC => /\ sess[u].doc \in Documents
                               /\ sess[u].ver \in VersionsOf(sess[u].doc)
    BY <2>1 DEF SessionOK
  <2>3. RowOK(u)'
    BY <1>1, <2>1, <2>2 DEF OwnOK, RowOK, PublishPC
  <2>4. PublishFresh(u)'
    <3>1. SUFFICES ASSUME pc[u] \in PublishPC, sess[u].doc \notin met'.publish
                   PROVE  PublishFresh(u)'
      BY <2>1 DEF PublishFresh
    <3>2. sess[u].doc \notin met.publish
      BY <1>4, <3>1
    <3>3. sess[u].doc # d
      <4>1. pc[w] \in PublishPC /\ d \in DocId
        BY <1>1, <1>3 DEF CommitPublish, PublishPC
      <4>2. sess[u].doc = d => PublishersMeet(d)
        BY <1>0, <3>1, <4>1 DEF PublishersMeet, Publishes
      <4> QED
        BY <3>2, <4>1, <4>2 DEF OInv, MeetingsNoted
    <3>4. /\ document'[sess[u].doc] = document[sess[u].doc]
          /\ \A v \in VersionsOf(sess[u].doc) : version'[v] = version[v]
      BY <1>1, <2>2, <3>1, <3>3
    <3>5. pc[u] = "publish" /\ Supersedes(u) =>
            sess[u].row.current \in VersionsOf(sess[u].doc)
      BY <2>1 DEF OwnOK, RowOK, Supersedes
    <3> QED
      BY <2>1, <2>2, <3>1, <3>2, <3>4, <3>5 DEF OwnOK, PublishFresh, Supersedes
  <2>5. CreateFresh(u)'
    BY <1>2, <1>3, <1>4, <2>1 DEF OwnOK, CreateFresh
  <2>6. IngestFresh(u)'
    <3>1. pc[u] \in IngestPC => sess[u].doc \in DocId
      BY <2>1 DEF SessionOK, IngestOK
    <3> QED
      BY <1>2, <1>4, <2>1, <3>1 DEF OwnOK, IngestFresh
  <2> QED
    BY <2>3, <2>4, <2>5, <2>6 DEF OwnOK
<1>7. OwnOK(w)'
  BY <1>2, IdleOwn
<1>8. ActiveUnlessRaced'
  <2>1. ASSUME NEW e \in Documents, e \notin met'.publish PROVE CurrentIsActive(e)'
    <3>1. e \notin met.publish /\ CurrentIsActive(e)
      BY <1>4, <2>1 DEF OInv, ActiveUnlessRaced
    <3>2. CASE e = d
      BY <1>0, <3>1, <3>2, PublishActive
    <3>3. CASE e # d
      BY <1>1, <2>1, <3>1, <3>3 DEF CurrentIsActive
    <3> QED
      BY <3>2, <3>3
  <2> QED
    BY <1>3, <2>1 DEF ActiveUnlessRaced
<1>9. OneDocumentUnlessRaced'
  BY <1>2, <1>3, <1>4 DEF OInv, OneDocumentUnlessRaced
<1>10. ChainUnlessRaced'
  <2>1. ASSUME NEW e \in Documents, e \notin met'.ingest PROVE ChainComplete(e)'
    <3>1. ChainComplete(e)
      BY <1>4, <2>1 DEF OInv, ChainUnlessRaced
    <3>2. ASSUME NEW v \in VersionsOf(e), version[v].prev # None
          PROVE  v \in VersionId /\ version[v].prev \in VersionId
      BY <3>2 DEF IInv, TablesOK, ChainGoesBack, VersionsOf
    <3> QED
      BY <1>1, <1>2, <3>1, <3>2 DEF ChainComplete, VersionsOf
  <2> QED
    BY <1>3, <2>1 DEF ChainUnlessRaced
<1>11. \A u \in Worker : OwnOK(u)'
  BY <1>6, <1>7
<1> QED
  BY <1>4, <1>5, <1>8, <1>9, <1>10, <1>11 DEF OInv, OwnOK

-----------------------------------------------------------------------------
(* The commit of an ingest.                                                 *)

\* The new version is a draft; its document keeps its current version and its
\* status, or is a new one that has none.
LEMMA IngestRow ==
  ASSUME IInv, OInv, NEW w \in Worker, CommitIngest(w), NEW d, d = sess[w].doc
  PROVE  /\ version'[sess[w].ver].status = "draft"
         /\ ~sess[w].created => /\ document'[d].policy = document[d].policy
                                /\ document'[d].current = document[d].current
                                /\ document'[d].status = document[d].status
         /\ sess[w].created => /\ document'[d].policy = sess[w].row.policy
                               /\ document'[d].current = None
                               /\ document'[d].status = "draft"
<1> DEFINE old == IF sess[w].created THEN sess[w].row ELSE document[d]
<1>1. /\ sess[w] \in Session /\ IngestOK(w) /\ RowOK(w) /\ pc[w] = "commit"
  BY DEF IInv, TypeOK, CommitIngest, SessionOK, IngestPC, OInv
<1>2. d \in DocId /\ sess[w].ver \in VersionId
  BY <1>1 DEF IngestOK
<1>3. old \in DocumentRow
  BY <1>1, <1>2 DEF IInv, TypeOK, Session
<1>4. /\ document'[d] = [old EXCEPT !.latest = sess[w].ver, !.dept = @ \/ sess[w].fill]
      /\ version'[sess[w].ver] = DraftRow(w)
  BY <1>2 DEF CommitIngest, IInv, TypeOK
<1>5. sess[w].created => old.current = None /\ old.status = "draft"
  BY <1>1 DEF IngestOK, RowOK, IngestPC
<1> HIDE DEF old
<1>6. /\ document'[d].policy = old.policy /\ document'[d].current = old.current
      /\ document'[d].status = old.status
  BY <1>3, <1>4 DEF DocumentRow
<1>7. version'[sess[w].ver].status = "draft"
  BY <1>4 DEF DraftRow
<1> QED
  BY <1>5, <1>6, <1>7 DEF old

LEMMA CommitIngestOverlap ==
  ASSUME IInv, OInv, Note, NEW w \in Worker, CommitIngest(w) PROVE OInv'
<1>0. PICK d, n, q : d = sess[w].doc /\ n = sess[w].ver /\ q = sess[w].seq
  OBVIOUS
<1>1. /\ d \in DocId /\ n \in VersionId /\ version[n].doc = None
      /\ version'[n].seq = q /\ version'[n].prev = sess[w].row.latest
      /\ \A v \in VersionId \ {n} : version'[v] = version[v]
      /\ document'[d].latest = n
      /\ \A e \in DocId \ {d} : document'[e] = document[e]
      /\ Documents' = Documents \cup {d}
      /\ VersionsOf(d)' = VersionsOf(d) \cup {n}
      /\ \A e \in DocId \ {d} : VersionsOf(e)' = VersionsOf(e)
      /\ pc'[w] = "idle"
      /\ \A u \in Worker \ {w} : pc'[u] = pc[u] /\ sess'[u] = sess[u]
  BY <1>0, IngestFrame
<1>2. /\ version'[n].status = "draft"
      /\ ~sess[w].created => /\ document'[d].policy = document[d].policy
                             /\ document'[d].current = document[d].current
                             /\ document'[d].status = document[d].status
      /\ sess[w].created => /\ document'[d].policy = sess[w].row.policy
                            /\ document'[d].current = None
                            /\ document'[d].status = "draft"
  BY <1>0, IngestRow
<1>3. /\ pc[w] = "commit" /\ IngestOK(w) /\ CreateFresh(w) /\ IngestFresh(w)
      /\ sess[w] \in Session
  BY DEF CommitIngest, OInv, IInv, TypeOK, SessionOK, IngestPC
<1>4. /\ d \in Documents => q = version[document[d].latest].seq + 1
      /\ d \notin Documents => q = 1 /\ VersionsOf(d) = {}
      /\ d \in Documents <=> ~sess[w].created
  BY <1>0, <1>3, NextGeneration
<1>5. /\ \A e \in DocId : \A v \in VersionsOf(e) : v \in VersionId /\ v # n /\ v # None
      /\ \A e \in Documents : e \in DocId
  BY <1>1, NoneIsFresh DEF VersionsOf, Documents
<1>6. /\ MeetingsNoted' /\ MeetingsNoted /\ met.publish \subseteq met'.publish
      /\ met.ingest \subseteq met'.ingest /\ met.create \subseteq met'.create
  BY Noted DEF OInv
<1>7. \A e \in Documents' : document'[e].current \in VersionsOf(e)' \cup {None}
  BY <1>1, <1>2, <1>4, <1>5 DEF OInv
<1>8. ASSUME NEW u \in Worker \ {w} PROVE OwnOK(u)'
  <2>0. PICK e : e = sess[u].doc
    OBVIOUS
  <2>1. /\ OwnOK(u) /\ pc'[u] = pc[u] /\ sess'[u] = sess[u] /\ SessionOK(u)
        /\ sess[u] \in Session
    BY <1>1 DEF OInv, OwnOK, IInv, TypeOK
  <2>2. pc[u] \in PublishPC =>
          /\ e \in Documents /\ e \in DocId /\ sess[u].ver \in VersionsOf(e)
    BY <1>5, <2>0, <2>1 DEF SessionOK
  <2>3. pc[u] \in IngestPC => e \in DocId
    BY <2>0, <2>1 DEF SessionOK, IngestOK
  <2>4. RowOK(u)'
    <3>1. pc[u] \in PublishPC => VersionsOf(e) \subseteq VersionsOf(e)'
      BY <1>1, <2>2
    <3> QED
      BY <2>0, <2>1, <3>1 DEF OwnOK, RowOK, PublishPC
  <2>5. PublishFresh(u)'
    <3>1. SUFFICES ASSUME pc[u] \in PublishPC, e \notin met'.publish
                   PROVE  PublishFresh(u)'
      BY <2>0, <2>1 DEF PublishFresh
    <3>2. /\ document'[e].current = document[e].current
          /\ document'[e].status = document[e].status
      BY <1>1, <1>2, <1>4, <2>2, <3>1
    <3>3. \A v \in VersionsOf(e) : version'[v] = version[v]
      BY <1>1, <1>5, <2>2, <3>1
    <3>4. pc[u] = "publish" /\ Supersedes(u) => sess[u].row.current \in VersionsOf(e)
      BY <2>0, <2>1 DEF OwnOK, RowOK, Supersedes
    <3> QED
      BY <1>6, <2>0, <2>1, <2>2, <3>1, <3>2, <3>3, <3>4 DEF OwnOK, PublishFresh, Supersedes
  <2>6. CreateFresh(u)'
    <3>1. SUFFICES ASSUME pc[u] \in IngestPC, sess[u].created,
                          sess[u].row.policy \notin met'.create,
                          NEW x \in Documents'
                   PROVE  document'[x].policy # sess[u].row.policy
      BY <2>1 DEF CreateFresh
    <3>2. \A y \in Documents : document[y].policy # sess[u].row.policy
      BY <1>6, <2>1, <3>1 DEF OwnOK, CreateFresh
    <3>3. CASE x # d \/ ~sess[w].created
      BY <1>1, <1>2, <1>4, <1>5, <3>1, <3>2, <3>3
    <3>4. CASE x = d /\ sess[w].created
      <4>1. sess[w].row.policy \in Policy
        BY <1>3, <3>4 DEF IngestOK, Session, DocumentRow
      <4>2. sess[u].row.policy = sess[w].row.policy => CreatorsMeet(sess[w].row.policy)
        BY <1>3, <3>1, <3>4 DEF CreatorsMeet, Creates, IngestPC
      <4> QED
        BY <1>2, <1>6, <3>1, <3>4, <4>1, <4>2 DEF MeetingsNoted
    <3> QED
      BY <3>3, <3>4
  <2>7. IngestFresh(u)'
    <3>1. SUFFICES ASSUME pc[u] \in IngestPC, e \notin met'.ingest PROVE IngestFresh(u)'
      BY <2>0, <2>1 DEF IngestFresh
    <3>2. e = d => IngestersMeet(d)
      BY <1>0, <1>3, <2>0, <3>1 DEF IngestersMeet, Ingests, IngestPC
    <3>3. e # d
      BY <1>1, <1>6, <3>1, <3>2 DEF MeetingsNoted
    <3> QED
      BY <1>1, <1>6, <2>0, <2>1, <2>3, <3>1, <3>3 DEF OwnOK, IngestFresh
  <2> QED
    BY <2>4, <2>5, <2>6, <2>7 DEF OwnOK
<1>9. OwnOK(w)'
  BY <1>1, IdleOwn
<1>10. ActiveUnlessRaced'
  <2>1. ASSUME NEW e \in Documents', e \notin met'.publish PROVE CurrentIsActive(e)'
    <3>1. e \in Documents => CurrentIsActive(e)
      BY <1>6, <2>1 DEF OInv, ActiveUnlessRaced
    <3>2. CASE e = d /\ sess[w].created
      <4>1. VersionsOf(e)' = {n} /\ document'[e].current = None
            /\ document'[e].status = "draft"
        BY <1>1, <1>2, <1>4, <3>2
      <4> QED
        BY <1>2, <4>1 DEF CurrentIsActive
    <3>3. CASE e = d /\ ~sess[w].created
      <4>1. /\ VersionsOf(e)' = VersionsOf(e) \cup {n} /\ e \in Documents
            /\ document'[e].current = document[e].current
            /\ document'[e].status = document[e].status
        BY <1>1, <1>2, <1>4, <3>3
      <4>2. \A v \in VersionsOf(e) : version'[v] = version[v]
        BY <1>1, <1>5, <3>3
      <4> QED
        BY <1>2, <3>1, <4>1, <4>2 DEF CurrentIsActive
    <3>4. CASE e # d
      <4>1. /\ e \in Documents /\ e \in DocId /\ VersionsOf(e)' = VersionsOf(e)
            /\ document'[e] = document[e]
        BY <1>1, <1>5, <2>1, <3>4
      <4>2. \A v \in VersionsOf(e) : version'[v] = version[v]
        BY <1>1, <1>5, <4>1
      <4> QED
        BY <3>1, <4>1, <4>2 DEF CurrentIsActive
    <3> QED
      BY <3>2, <3>3, <3>4
  <2> QED
    BY <2>1 DEF ActiveUnlessRaced
<1>11. OneDocumentUnlessRaced'
  <2>1. SUFFICES ASSUME NEW x \in Documents', NEW y \in Documents',
                        document'[x].policy = document'[y].policy,
                        document'[x].policy \notin met'.create
                 PROVE  x = y
    BY DEF OneDocumentUnlessRaced
  <2>2. CASE ~sess[w].created
    <3>1. \A e \in Documents' : e \in Documents /\ document'[e].policy = document[e].policy
      BY <1>1, <1>2, <1>4, <1>5, <2>2
    <3> QED
      BY <1>6, <2>1, <3>1 DEF OInv, OneDocumentUnlessRaced
  <2>3. CASE sess[w].created
    <3>1. document'[d].policy \notin met'.create =>
            \A e \in Documents : document[e].policy # document'[d].policy
      BY <1>2, <1>3, <1>6, <2>3 DEF CreateFresh, IngestPC
    <3>2. \A e \in Documents' \ {d} : e \in Documents /\ document'[e] = document[e]
      BY <1>1, <1>5
    <3> QED
      BY <1>6, <2>1, <3>1, <3>2 DEF OInv, OneDocumentUnlessRaced
  <2> QED
    BY <2>2, <2>3
<1>12. ChainUnlessRaced'
  <2>1. ASSUME NEW e \in Documents', e \notin met'.ingest, NEW v \in VersionsOf(e)',
               version'[v].prev # None
        PROVE  version'[version'[v].prev].seq + 1 = version'[v].seq
    <3>1. CASE v = n /\ e = d
      <4>1. ~sess[w].created
        BY <1>1, <1>3, <2>1, <3>1 DEF IngestOK
      <4>2. d \in Documents /\ sess[w].row.latest = document[d].latest
        BY <1>0, <1>3, <1>4, <1>6, <2>1, <3>1, <4>1 DEF IngestFresh, IngestPC
      <4>3. document[d].latest \in VersionId \ {n}
        BY <1>5, <4>2, StoredDocument
      <4> QED
        BY <1>1, <1>4, <3>1, <4>2, <4>3
    <3>2. CASE v \in VersionsOf(e) /\ e \in Documents
      <4>1. /\ v \in VersionId \ {n} /\ version'[v] = version[v]
            /\ version[v].prev \in VersionsOf(e)
        BY <1>1, <1>5, <2>1, <3>2 DEF IInv, TablesOK, ChainGoesBack
      <4>2. version'[version[v].prev] = version[version[v].prev]
        BY <1>1, <1>5, <3>2, <4>1
      <4> QED
        BY <1>6, <2>1, <3>2, <4>1, <4>2 DEF OInv, ChainUnlessRaced, ChainComplete
    <3> QED
      BY <1>1, <1>4, <1>5, <2>1, <3>1, <3>2
  <2> QED
    BY <2>1 DEF ChainUnlessRaced, ChainComplete
<1>13. \A u \in Worker : OwnOK(u)'
  BY <1>8, <1>9
<1> QED
  BY <1>6, <1>7, <1>10, <1>11, <1>12, <1>13 DEF OInv, OwnOK

-----------------------------------------------------------------------------
(* The invariant and what follows from it.                                  *)

LEMMA InitOverlap == OInit => OInv
<1> SUFFICES ASSUME OInit PROVE OInv
  OBVIOUS
<1>1. Documents = {} /\ \A w \in Worker : pc[w] = "idle"
  BY DEF OInit, Init, Documents, NewDocument
<1>2. MeetingsNoted
  BY <1>1 DEF OInit, MeetingsNoted, Meetings, PublishersMeet, IngestersMeet, CreatorsMeet,
     Publishes, Ingests, Creates, IngestPC, PublishPC
<1>3. \A w \in Worker : RowOK(w) /\ PublishFresh(w) /\ CreateFresh(w) /\ IngestFresh(w)
  BY <1>1 DEF RowOK, PublishFresh, CreateFresh, IngestFresh, IngestPC, PublishPC
<1> QED
  BY <1>1, <1>2, <1>3 DEF OInv, ActiveUnlessRaced, OneDocumentUnlessRaced, ChainUnlessRaced

LEMMA NextOverlap == IInv /\ OInv /\ [ONext]_ovars => OInv'
<1> SUFFICES ASSUME IInv, OInv, [ONext]_ovars PROVE OInv'
  OBVIOUS
<1>1. ASSUME Note, NEW w \in Worker, Start(w) PROVE OInv'
  BY <1>1, StartOverlap
<1>2. ASSUME Note, NEW w \in Worker, Continue(w) PROVE OInv'
  <2>1. CASE LoadTarget(w)
    BY <1>2, <2>1, LoadTargetOverlap
  <2>2. CASE ReadMaxSeq(w)
    BY <1>2, <2>2, ReadMaxSeqOverlap
  <2>3. CASE ReadLabels(w)
    BY <1>2, <2>3, ReadLabelsOverlap
  <2>4. CASE FillDepartment(w) \/ InsertVersion(w)
    BY <1>2, <2>4, InsertOverlap
  <2>5. CASE InsertRejected(w)
    BY <1>2, <2>5, RollbackOverlap DEF InsertRejected
  <2>6. CASE CommitIngest(w)
    BY <1>2, <2>6, CommitIngestOverlap
  <2>7. CASE LoadDocument(w)
    BY <1>2, <2>7, LoadDocumentOverlap
  <2>8. CASE LoadPrevious(w)
    BY <1>2, <2>8, LoadPreviousOverlap
  <2>9. CASE CommitPublish(w)
    BY <1>2, <2>9, CommitPublishOverlap
  <2>10. CASE DeadlockVictim(w)
    BY <1>2, <2>10, RollbackOverlap DEF DeadlockVictim
  <2> QED
    BY <1>2, <2>1, <2>2, <2>3, <2>4, <2>5, <2>6, <2>7, <2>8, <2>9, <2>10 DEF Continue
<1>3. ASSUME Note, NEW w \in Worker, Fail(w) PROVE OInv'
  BY <1>3, RollbackOverlap DEF Fail
<1>4. CASE UNCHANGED ovars
  <2>1. document' = document /\ version' = version /\ pc' = pc /\ sess' = sess /\ met' = met
    BY <1>4 DEF ovars
  <2>2. MeetingsNoted'
    BY <2>1 DEF OInv, MeetingsNoted, PublishersMeet, IngestersMeet, CreatorsMeet,
       Publishes, Ingests, Creates
  <2>3. \A w \in Worker : OwnOK(w)'
    BY <2>1 DEF OInv, OwnOK, RowOK, PublishFresh, CreateFresh, IngestFresh, Supersedes,
       Documents, VersionsOf
  <2>4. ActiveUnlessRaced' /\ OneDocumentUnlessRaced' /\ ChainUnlessRaced'
    BY <2>1 DEF OInv, ActiveUnlessRaced, OneDocumentUnlessRaced, ChainUnlessRaced,
       CurrentIsActive, ChainComplete, Documents, VersionsOf
  <2>5. (\A d \in Documents : document[d].current \in VersionsOf(d) \cup {None})'
    BY <2>1 DEF OInv, Documents, VersionsOf
  <2> QED
    BY <2>2, <2>3, <2>4, <2>5 DEF OInv, OwnOK
<1> QED
  BY <1>1, <1>2, <1>3, <1>4 DEF ONext, Next

\* The invariant of the requests and that of their overlaps, together.
THEOREM OverlapInvariant == OSpec => [](IInv /\ OInv)
<1>1. OInit => IInv /\ OInv
  BY InitInvariant, InitOverlap DEF OInit
<1>2. [ONext]_ovars => [Next]_vars
  BY DEF ONext, ovars, vars
<1>3. IInv /\ OInv /\ [ONext]_ovars => (IInv /\ OInv)'
  BY <1>2, NextInvariant, NextOverlap
<1> QED
  BY <1>1, <1>3, PTL DEF OSpec

\* Without two overlapping publications a document's current version is its
\* one active version, whatever ingests overlap and whatever fails.
THEOREM ActiveCorrect == OSpec => []ActiveUnlessRaced
<1>1. OInv => ActiveUnlessRaced
  BY DEF OInv
<1> QED
  BY <1>1, OverlapInvariant, PTL

\* Without two overlapping first ingests a policy has one document.
THEOREM OneDocumentCorrect == OSpec => []OneDocumentUnlessRaced
<1>1. OInv => OneDocumentUnlessRaced
  BY DEF OInv
<1> QED
  BY <1>1, OverlapInvariant, PTL

\* Without two overlapping ingests of a document its chain visits every version.
THEOREM ChainCompleteCorrect == OSpec => []ChainUnlessRaced
<1>1. OInv => ChainUnlessRaced
  BY DEF OInv
<1> QED
  BY <1>1, OverlapInvariant, PTL
=============================================================================
