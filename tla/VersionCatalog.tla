---------------------------- MODULE VersionCatalog ----------------------------
(***************************************************************************)
(* What the knowledge base promises about its versions: each document has   *)
(* an append-only history of versions and at most one published version.    *)
(* Recording a version and publishing one are single atomic steps.          *)
(***************************************************************************)
EXTENDS Sequences, Naturals

CONSTANTS DocId, VersionId, None

VARIABLES history,   \* per document, its versions from first to newest
          newest,    \* per document, the version recorded last
          published  \* per document, the published version

catalog == <<history, newest, published>>

Recorded(v) == \E d \in DocId : \E i \in 1..Len(history[d]) : history[d][i] = v

Init == /\ history = [d \in DocId |-> <<>>]
        /\ newest = [d \in DocId |-> None]
        /\ published = [d \in DocId |-> None]

\* A version is recorded once, at the end of one document's history.
Record(d, v) ==
  /\ ~Recorded(v)
  /\ history' = [history EXCEPT ![d] = Append(@, v)]
  /\ newest' = [newest EXCEPT ![d] = v]
  /\ UNCHANGED published

\* Any recorded version of the document may be published, again and again.
Publish(d, v) ==
  /\ \E i \in 1..Len(history[d]) : history[d][i] = v
  /\ published' = [published EXCEPT ![d] = v]
  /\ UNCHANGED <<history, newest>>

Next == \E d \in DocId, v \in VersionId : Record(d, v) \/ Publish(d, v)

Spec == Init /\ [][Next]_catalog
=============================================================================
