------------------------------ MODULE Retrieval ------------------------------
(***************************************************************************)
(* One request searches the stored chunks while other processes store and   *)
(* publish versions, each in one transaction (VersionCatalog).  A search is *)
(* two statements, by vectors and by keywords, each with a snapshot of its  *)
(* own; what they recall is merged, ranked and filtered in memory.  A chunk *)
(* is what it is worth to the query; scores are in thousandths.             *)
(***************************************************************************)
EXTENDS Integers, Sequences, SequencesExt, FiniteSets

CONSTANTS Document, None,
          Profile,      \* what a chunk may be worth to the query, and what it says
          MaxChunks,    \* bound on the chunks stored
          MaxVersions,  \* bound on the versions stored
          TopK,         \* the values of top_k that requests use
          TopKMax,      \* settings.retrieval_top_k_max
          MinScore,     \* settings.retrieval_min_score
          RescueMargin, \* settings.retrieval_evidence_rescue_margin
          MinCoverage   \* settings.retrieval_evidence_min_coverage

ASSUME ProfileAssumption ==
  \A p \in Profile : /\ p.vector \in Int /\ p.vector <= 1000  \* 1 - distance
                     /\ p.keyword \in Nat                     \* raw_score
                     /\ p.rerank \in 0..1000
                     /\ p.coverage \in 0..1000

ASSUME SettingsAssumption ==
  /\ TopKMax \in Nat /\ TopK \subseteq 1..TopKMax /\ TopK # {}
  /\ MinScore \in 0..1000 /\ RescueMargin \in 0..MinScore /\ MinCoverage \in 0..1000
  /\ MaxChunks \in Nat /\ MaxVersions \in Nat /\ None \notin Document

VARIABLES
  chunks,       \* kb_policy_chunk, in the order of the ids
  latest,       \* per document, its newest version; versions are numbered, 0 is none
  current,      \* per document, the published version or 0
  superseded,   \* the versions with that status
  request,      \* KnowledgeQuery
  vectorHits,   \* what each statement has recalled, as ids
  keywordHits,
  hits,         \* the ranked result
  changed,      \* documents committed to since the first statement
  pc

stored == <<chunks, latest, current, superseded>>
search == <<request, vectorHits, keywordHits, hits, changed>>

Id == 1..MaxChunks
Request == [top_k : TopK, retrieval_mode : {"hybrid", "vector"},
            document_id : Document \cup {None}, include_history : BOOLEAN]

NoRequest == [top_k |-> Min(TopK), retrieval_mode |-> "vector",
              document_id |-> None, include_history |-> FALSE]

RetrievalInit ==
  /\ chunks = <<>>
  /\ latest = [d \in Document |-> 0]
  /\ current = [d \in Document |-> 0]
  /\ superseded = {}
  /\ request = NoRequest
  /\ vectorHits = {} /\ keywordHits = {} /\ hits = <<>>
  /\ changed = {}
  /\ pc = "idle"

-----------------------------------------------------------------------------
\* What other processes commit.  Only the time between two statements matters: ranking
\* and answering read nothing that is shared, and what precedes a first statement is
\* as good as done before the request.
Reading == pc \notin {"vector", "rank", "respond", "done"}

StoredVersions == {v \in Document \X (1..MaxVersions) : v[2] <= latest[v[1]]}

Touch(d) == changed' = IF pc = "idle" THEN changed ELSE changed \cup {d}

\* A new version, a draft, with its chunks; a text that cleaning has emptied has none.
Ingest(d, profiles) ==
  /\ Reading
  /\ Cardinality(StoredVersions) < MaxVersions
  /\ Len(chunks) + Len(profiles) <= MaxChunks
  /\ chunks' = chunks \o [i \in 1..Len(profiles) |->
                            [document |-> d, version |-> latest[d] + 1,
                             profile |-> profiles[i]]]
  /\ latest' = [latest EXCEPT ![d] = @ + 1]
  /\ Touch(d)
  /\ UNCHANGED <<current, superseded, request, vectorHits, keywordHits, hits, pc>>

\* Faulty variant: a version that is published again keeps its status.
PublishKeepingStatus(d, n) ==
  /\ Reading
  /\ n \in 1..latest[d] /\ n # current[d]
  /\ current' = [current EXCEPT ![d] = n]
  /\ superseded' = superseded \cup (IF current[d] = 0 THEN {} ELSE {<<d, current[d]>>})
  /\ Touch(d)
  /\ UNCHANGED <<chunks, latest, request, vectorHits, keywordHits, hits, pc>>

\* The version that was published gives way.
Publish(d, n) ==
  /\ Reading
  /\ n \in 1..latest[d] /\ n # current[d]
  /\ current' = [current EXCEPT ![d] = n]
  /\ superseded' = (superseded \ {<<d, n>>})
                     \cup (IF current[d] = 0 THEN {} ELSE {<<d, current[d]>>})
  /\ Touch(d)
  /\ UNCHANGED <<chunks, latest, request, vectorHits, keywordHits, hits, pc>>

OtherProcess == \/ \E d \in Document, ps \in BoundedSeq(Profile, 2) : Ingest(d, ps)
                \/ \E d \in Document, n \in 1..MaxVersions : Publish(d, n)

-----------------------------------------------------------------------------
\* Faulty variant: the filter on the latest version is forgotten.
VisibleAlways(c) ==
  /\ <<c.document, c.version>> \notin superseded
  /\ request.document_id \in {None, c.document}

\* The WHERE clause of both statements.
Visible(c) ==
  /\ <<c.document, c.version>> \notin superseded
  /\ request.include_history \/ c.version = latest[c.document]
  /\ request.document_id \in {None, c.document}

VisibleIds == {i \in 1..Len(chunks) : Visible(chunks[i])}

PerSourceTopK == Min({TopKMax, 2 * request.top_k})

Value(i) == chunks[i].profile

\* ORDER BY distance LIMIT k decides no ties.
VectorTops(S, k) ==
  {T \in SUBSET S : /\ Cardinality(T) = Min({k, Cardinality(S)})
                    /\ \A i \in T, j \in S \ T : Value(i).vector >= Value(j).vector}

StartSearch(r) == /\ pc = "idle"
                  /\ request' = r
                  /\ changed' = {}
                  /\ pc' = "vector"
                  /\ UNCHANGED <<stored, vectorHits, keywordHits, hits>>

\* The nearest of the chunks that the scan reaches: the HNSW index, which the planner
\* may use in every mode, may miss any of them, and farther ones take their places.
\* Without hybrid mode nothing else is recalled.
VectorSearch ==
  /\ pc = "vector"
  /\ \E reached \in SUBSET VisibleIds : vectorHits' \in VectorTops(reached, PerSourceTopK)
  /\ pc' = IF request.retrieval_mode = "hybrid" THEN "keyword" ELSE "rank"
  /\ UNCHANGED <<stored, request, keywordHits, hits, changed>>

KeywordBefore(j, i) ==
  \/ Value(j).keyword > Value(i).keyword
  \/ Value(j).keyword = Value(i).keyword /\ j < i

\* The chunks of S that fewer than k of S come before.
KeywordTop(S, k) == {i \in S : Cardinality({j \in S : KeywordBefore(j, i)}) < k}

KeywordSearch ==
  /\ pc = "keyword"
  /\ keywordHits' = KeywordTop({i \in VisibleIds : Value(i).keyword > 0}, PerSourceTopK)
  /\ pc' = "rank"
  /\ UNCHANGED <<stored, request, vectorHits, hits, changed>>

-----------------------------------------------------------------------------
\* Fusion, rerank and filter.

VectorScore(i) == IF i \in vectorHits THEN Max({0, Value(i).vector}) ELSE 0
KeywordScore(i) == IF i \in keywordHits THEN Min({1000, Value(i).keyword}) ELSE 0

\* A chunk that both have recalled gets a quarter of its lower score on top.
Fuse(v, k) == IF v > 0 /\ k > 0
              THEN Min({1000, Max({v, k}) + Min({v, k}) \div 4})
              ELSE Max({v, k})

Rerank(score, signal) == Min({1000, score + (4 * signal) \div 10})

Hybrid == request.retrieval_mode = "hybrid"

\* How well the chunk's text and titles match the query's terms, and what share of the
\* terms' weight they cover.
Signal(i) == IF Hybrid THEN [rerank |-> Value(i).rerank, coverage |-> Value(i).coverage]
             ELSE [rerank |-> 0, coverage |-> 0]

\* What the pipeline has found out about a chunk.
Hit(i) ==
  LET v == VectorScore(i)
      k == KeywordScore(i)
      signal == Signal(i)
  IN  [chunk |-> i, vector |-> v, keyword |-> k, rerank |-> signal.rerank,
       coverage |-> signal.coverage,
       retrieval_source |-> CASE k = 0 -> "vector"
                              [] k > 0 /\ v = 0 -> "keyword"
                              [] OTHER -> "hybrid",
       score |-> IF Hybrid THEN Rerank(Fuse(v, k), signal.rerank) ELSE Fuse(v, k)]

\* The sort key: the score, then the signals that made it, then the id.
HitBefore(a, b) ==
  LET key(h) == <<-h.score, -h.rerank, -h.keyword, -h.vector, h.chunk>>
  IN  \E n \in 1..5 : /\ key(a)[n] < key(b)[n]
                      /\ \A m \in 1..(n - 1) : key(a)[m] = key(b)[m]

Merged == {Hit(i) : i \in vectorHits \cup keywordHits}

\* These hits in their order, which is total.
Ranked(H) ==
  CHOOSE s \in [1..Cardinality(H) -> H] :
    \A m, n \in 1..Cardinality(H) : m < n => HitBefore(s[m], s[n])

\* A score just below the threshold is rescued by evidence that is not the vector's.
PassesEvidenceGate(h) ==
  /\ h.retrieval_source # "vector"
  /\ h.score >= MinScore - RescueMargin
  /\ h.coverage >= MinCoverage
  /\ Max({h.rerank, h.keyword}) >= 120

Passes(h) == h.score >= MinScore \/ PassesEvidenceGate(h)

\* Faulty variant: the first top_k are filtered.
RankCutFirst ==
  /\ pc = "rank"
  /\ LET all == Ranked(Merged)
         firsts == {all[n] : n \in 1..Min({request.top_k, Len(all)})}
     IN  hits' = Ranked({h \in firsts : Passes(h)})
  /\ pc' = "respond"
  /\ UNCHANGED <<stored, request, vectorHits, keywordHits, changed>>

\* The first top_k of those that pass; a filter keeps the order.
Rank == /\ pc = "rank"
        /\ LET passing == Ranked({h \in Merged : Passes(h)})
           IN  hits' = SubSeq(passing, 1, Min({request.top_k, Len(passing)}))
        /\ pc' = "respond"
        /\ UNCHANGED <<stored, request, vectorHits, keywordHits, changed>>

SearchStep == VectorSearch \/ KeywordSearch \/ Rank

-----------------------------------------------------------------------------
HitType == [chunk : Id, vector : 0..1000, keyword : 0..1000, rerank : 0..1000,
            coverage : 0..1000, retrieval_source : {"vector", "keyword", "hybrid"},
            score : 0..1000]

\* Chunks belong to versions that exist, and the search's variables to its steps.
RetrievalTypeOK ==
  /\ chunks \in Seq([document : Document, version : Nat, profile : Profile])
  /\ latest \in [Document -> 0..MaxVersions]
  /\ \A d \in Document : /\ current[d] \in 0..latest[d]
                         /\ <<d, current[d]>> \notin superseded
  /\ \A i \in 1..Len(chunks) : chunks[i].version \in 1..latest[chunks[i].document]
  /\ request \in Request
  /\ vectorHits \cup keywordHits \subseteq 1..Len(chunks)
  /\ hits \in Seq(HitType)
  /\ changed \subseteq Document

HitIds == {hits[n].chunk : n \in 1..Len(hits)}

\* The statements see different snapshots.  Still, unless history is asked for, what is
\* found of a document that nobody committed to in between is text of its newest or of
\* its published version, which is not superseded, and of that one alone.  Only of
\* a document that somebody did commit to are two versions found together, one by the
\* one statement alone and one by the other.
HitsCurrent ==
  pc = "respond" /\ ~request.include_history =>
    \A i, j \in HitIds :
      LET d == chunks[i].document
          version == chunks[i].version
          byVector == vectorHits \ keywordHits
          byKeyword == keywordHits \ vectorHits
      IN  /\ d \notin changed => /\ version \in {latest[d], current[d]}
                                 /\ <<d, version>> \notin superseded
          /\ chunks[j].document = d /\ chunks[j].version # version =>
               /\ d \in changed
               /\ \/ i \in byVector /\ j \in byKeyword
                  \/ j \in byVector /\ i \in byKeyword

\* What a chunk is worth if neither statement leaves it out.
Worth(i) ==
  LET vector == Max({0, Value(i).vector})
  IN  IF Hybrid THEN Rerank(Fuse(vector, Min({1000, Value(i).keyword})), Value(i).rerank)
      ELSE vector

Deserving(i) ==
  \/ Worth(i) >= MinScore
  \/ /\ Hybrid
     /\ Value(i).keyword > 0
     /\ Worth(i) >= MinScore - RescueMargin
     /\ Value(i).coverage >= MinCoverage
     /\ Max({Value(i).rerank, Min({1000, Value(i).keyword})}) >= 120

\* When no commit came between the statements, no more chunks are visible than one
\* statement returns and the index has missed none, recalling twice, merging,
\* ranking and filtering come to this: the top_k most worthy of the chunks that
\* deserve to be found, each once, the best first.
HitsAreBest ==
  /\ pc = "respond"
  /\ changed = {}
  /\ vectorHits = VisibleIds
  /\ Cardinality(VisibleIds) <= PerSourceTopK
  => LET deserving == {i \in VisibleIds : Deserving(i)}
     IN  /\ HitIds \subseteq deserving
         /\ Len(hits) = Cardinality(HitIds)
         /\ Len(hits) = Min({request.top_k, Cardinality(deserving)})
         /\ \A i \in HitIds, j \in deserving \ HitIds : Worth(i) >= Worth(j)
         /\ \A n \in 1..Len(hits), m \in 1..Len(hits) :
              n < m => Worth(hits[n].chunk) >= Worth(hits[m].chunk)
=============================================================================
