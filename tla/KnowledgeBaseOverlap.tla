------------------------- MODULE KnowledgeBaseOverlap -------------------------
(***************************************************************************)
(* Which promises of the knowledge base rest on requests not overlapping,   *)
(* and on which requests.  A history variable notes the documents and       *)
(* policies that two requests of one kind have worked on at the same time;  *)
(* it restricts no step of KnowledgeBase.                                   *)
(***************************************************************************)
EXTENDS KnowledgeBase

VARIABLE met  \* what two publications, ingests or creations have met on

ovars == <<document, version, pc, sess, met>>

Publishes(w, d) == pc[w] \in PublishPC /\ sess[w].doc = d
Ingests(w, d) == pc[w] \in IngestPC /\ sess[w].doc = d
Creates(w, p) == pc[w] \in IngestPC /\ sess[w].created /\ sess[w].row.policy = p

\* Two processes are at it, now.
PublishersMeet(d) == \E w, u \in Worker : w # u /\ Publishes(w, d) /\ Publishes(u, d)
IngestersMeet(d) == \E w, u \in Worker : w # u /\ Ingests(w, d) /\ Ingests(u, d)
CreatorsMeet(p) == \E w, u \in Worker : w # u /\ Creates(w, p) /\ Creates(u, p)

Meetings == [publish : SUBSET DocId, ingest : SUBSET DocId, create : SUBSET Policy]

OInit == /\ Init
         /\ met = [publish |-> {}, ingest |-> {}, create |-> {}]

\* Note who meets in the state that the step leads to.
Note == met' = [publish |-> met.publish \cup {d \in DocId : PublishersMeet(d)'},
                ingest  |-> met.ingest \cup {d \in DocId : IngestersMeet(d)'},
                create  |-> met.create \cup {p \in Policy : CreatorsMeet(p)'}]

ONext == Next /\ Note

OSpec == OInit /\ [][ONext]_ovars

-----------------------------------------------------------------------------
\* Only overlapping publications of one document can leave it with a current
\* version that is not its one active version: an ingest that overlaps a
\* publication does no harm, nor does a failed publication.
ActiveUnlessRaced == \A d \in Documents \ met.publish : CurrentIsActive(d)

\* Only overlapping first ingests can make two documents of one policy.
OneDocumentUnlessRaced ==
  \A d, e \in Documents :
    document[d].policy = document[e].policy /\ document[d].policy \notin met.create
      => d = e

\* Only overlapping ingests of one document can leave a version out of its chain.
ChainUnlessRaced == \A d \in Documents \ met.ingest : ChainComplete(d)
-----------------------------------------------------------------------------
(* The inductive invariant.                                                 *)

\* Whoever meets now has been noted.
MeetingsNoted == /\ met \in Meetings
                 /\ \A d \in DocId : PublishersMeet(d) => d \in met.publish
                 /\ \A d \in DocId : IngestersMeet(d) => d \in met.ingest
                 /\ \A p \in Policy : CreatorsMeet(p) => p \in met.create

\* A publication only ever names versions of its document, and a document
\* that is being created has never been published.
RowOK(w) ==
  /\ pc[w] \in {"loadPrevious", "publish"} =>
       sess[w].row.current \in VersionsOf(sess[w].doc) \cup {None}
  /\ pc[w] \in IngestPC /\ sess[w].created => sess[w].row.status = "draft"

\* What a publication that met no other has loaded is what is stored.
PublishFresh(w) ==
  pc[w] \in PublishPC /\ sess[w].doc \notin met.publish =>
    /\ sess[w].loaded = version[sess[w].ver].status
    /\ pc[w] # "loadDocument" =>
         /\ sess[w].row.current = document[sess[w].doc].current
         /\ sess[w].row.status = document[sess[w].doc].status
    /\ pc[w] = "publish" /\ Supersedes(w) =>
         sess[w].prior = version[sess[w].row.current].status

\* The policy of a document that is being created alone has no other document.
CreateFresh(w) ==
  pc[w] \in IngestPC /\ sess[w].created /\ sess[w].row.policy \notin met.create =>
    \A d \in Documents : document[d].policy # sess[w].row.policy

\* An ingest that met no other has the stored latest version.
IngestFresh(w) ==
  pc[w] \in IngestPC \ {"loadTarget"} /\ ~sess[w].created /\ sess[w].doc \notin met.ingest =>
    sess[w].row.latest = document[sess[w].doc].latest

OInv == /\ MeetingsNoted
        /\ \A d \in Documents : document[d].current \in VersionsOf(d) \cup {None}
        /\ \A w \in Worker : RowOK(w) /\ PublishFresh(w) /\ CreateFresh(w) /\ IngestFresh(w)
        /\ ActiveUnlessRaced
        /\ OneDocumentUnlessRaced
        /\ ChainUnlessRaced
=============================================================================
