--------------------------- MODULE MCOnlineRequests ---------------------------
(* Values for OnlineRequests: a scenario of two requirements, the first of two *)
(* components, and chunks that are near or far and say a rule or half of one.  *)
EXTENDS OnlineRequests, TLC

CONSTANTS d1, d2, r1, r2, c1, c2, c3

MCComponentsOf == (r1 :> {c1, c2}) @@ (r2 :> {c3})

\* One component; two at once.
MCItem == {{c1}, {c2, c3}}

Chunk(vector, keyword, rerank, coverage, text) ==
  [vector |-> vector, keyword |-> keyword, rerank |-> rerank, coverage |-> coverage,
   text |-> text]

Other == <<[part |-> "other", keyword |-> r1]>>
Whole(r) == <<[part |-> "whole", keyword |-> r]>>
HeadOf(r) == <<[part |-> "head", keyword |-> r]>>
TailOf(r) == <<[part |-> "tail", keyword |-> r]>>

\* Found by each search; just too far, and without a keyword; opposite to the query,
\* but rescued by its keyword; near enough only because both searches find it.
MCProfile ==
  {Chunk(600, 1200, 100, 500, Whole(r1) \o HeadOf(r2)),
   Chunk(440, 0, 0, 0, Other),
   Chunk(-200, 400, 60, 200, TailOf(r2)),
   Chunk(400, 200, 0, 0, Whole(r2))}

\* Pages of one document.
MCPageRequest == [limit : {1}, offset : {0, 1}]

Symmetry == Permutations({d1, d2})
=============================================================================
