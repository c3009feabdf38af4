--------------------------- MODULE MCKnowledgeBase ---------------------------
(* The constants of the model-checked instances of KnowledgeBase.           *)
EXTENDS KnowledgeBaseOverlap, TLC

CONSTANTS w1, w2, d1, d2, v1, v2, v3, v4, p1, p2, l1, f1, f2, f3

\* The rows' keys, the files and the workers are interchangeable: only
\* equality is ever asked of them.
Symmetry == Permutations(Worker) \cup Permutations(DocId)
              \cup Permutations(VersionId) \cup Permutations(Policy)
              \cup Permutations(File)
=============================================================================
