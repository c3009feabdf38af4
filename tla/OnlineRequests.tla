---------------------------- MODULE OnlineRequests ----------------------------
(***************************************************************************)
(* The requests that read the tables, one after the other: management views *)
(* and audits, and what is done with what a search has found, when it is    *)
(* shown, a question is answered from it by a language model, or a          *)
(* submission is reviewed against the rules in it.  A scenario has          *)
(* requirements; each consists of components, which submitted items are     *)
(* matched with, and has a keyword that rule texts are searched for.        *)
(***************************************************************************)
EXTENDS KnowledgeViews

CONSTANTS Requirement,
          Component,     \* the components of the requirements
          ComponentsOf,  \* of each requirement
          Required,      \* the requirements that a submission must meet
          MinMatch,      \* min_rule_match_count
          Item,          \* what may be submitted: the set of components an item matches
          AnswerTopK     \* settings.rag_answer_top_k

\* What a chunk says is a sequence of pieces: a keyword, one half of it, other text.
Piece == [part : {"whole", "head", "tail", "other"}, keyword : Requirement]

ASSUME ScenarioAssumption ==
  /\ ComponentsOf \in [Requirement -> (SUBSET Component) \ {{}}]
  /\ Required \subseteq Requirement
  /\ MinMatch \in 1..Cardinality(Requirement)
  /\ Item \subseteq SUBSET Component
  /\ AnswerTopK \in Nat \ {0}
  /\ \A p \in Profile : p.text \in Seq(Piece) \ {<<>>}

VARIABLES
  purpose,    \* what the request was for
  submitted,  \* the items of a submission that are not blank
  outcome     \* the response

online == <<purpose, submitted, outcome>>
vars == <<stored, search, seen, pc, online>>

NoOutcome == [decision |-> "none", citations |-> <<>>, shown |-> <<>>,
              missing |-> {}]

Init == /\ RetrievalInit
        /\ seen = NothingSeen
        /\ purpose = "none"
        /\ submitted = {}
        /\ outcome = NoOutcome

Firsts(k) == [n \in 1..Min({k, Len(hits)}) |-> hits[n].chunk]
AllHits == [n \in 1..Len(hits) |-> hits[n].chunk]

Respond(result) == /\ outcome' = result
                   /\ pc' = "done"
                   /\ UNCHANGED <<stored, search, seen>>

\* A plain search shows what it has found.
ShowHits == /\ pc = "respond"
            /\ Respond([NoOutcome EXCEPT !.decision = "found", !.shown = AllHits])
            /\ purpose' = "search"
            /\ UNCHANGED submitted

-----------------------------------------------------------------------------
\* Answering a question.

\* The model has answered from the chunks that rank first.
Grounded == [decision |-> "grounded", citations |-> Firsts(AnswerTopK),
             shown |-> AllHits, missing |-> {}]

\* Faulty variant: what the model has been shown is cited in any case.
AnswerAlwaysCiting ==
  /\ pc = "respond"
  /\ \E d \in {"grounded", "fixed"} :
       Respond([Grounded EXCEPT !.decision = d])
  /\ purpose' = "ask"
  /\ UNCHANGED submitted

\* Without evidence the model is not asked.  If it says, in the words it is told to
\* use, that there is none, or says nothing, no source is shown; if the call fails,
\* the request does.
Answer ==
  /\ pc = "respond"
  /\ \/ /\ hits # <<>>
        /\ Respond(Grounded)
     \/ Respond([NoOutcome EXCEPT !.decision = "fixed"])
     \/ /\ hits # <<>>
        /\ Respond([NoOutcome EXCEPT !.decision = "error"])
  /\ purpose' = "ask"
  /\ UNCHANGED submitted

-----------------------------------------------------------------------------
\* Reviewing a submission.

\* The rule texts, one after the other.
RuleText == FlattenSeq([n \in 1..Len(hits) |-> Value(hits[n].chunk).text])

\* Line breaks are removed before the keyword is searched for, so its halves may
\* come from two texts.
Stated(r, text) ==
  \/ \E n \in 1..Len(text) : text[n] = [part |-> "whole", keyword |-> r]
  \/ \E n \in 1..(Len(text) - 1) : /\ text[n] = [part |-> "head", keyword |-> r]
                                   /\ text[n + 1] = [part |-> "tail", keyword |-> r]

Matched == {r \in Requirement : Stated(r, RuleText)}

\* Faulty variant: one requirement short of sufficient is enough.
IsSufficientAlmost == Cardinality(Matched) + 1 >= MinMatch

IsSufficient == Cardinality(Matched) >= MinMatch

\* The items that are not blank, without repetitions.
Submission == SUBSET Item

\* The components that some item matches.
Covered(items) == UNION items

Missing(items) == {r \in Matched \cap Required : ~(ComponentsOf[r] \subseteq Covered(items))}

Decision(items) == IF ~IsSufficient \/ items = {} THEN "insufficient_evidence"
                   ELSE IF Missing(items) = {} THEN "pass" ELSE "fail"

\* The query of a review is the scenario's, in hybrid mode; the submission plays no
\* part before the rules are there.
Review(items) ==
  /\ pc = "respond"
  /\ Hybrid
  /\ Respond([decision |-> Decision(items), citations |-> Firsts(AnswerTopK),
              shown |-> <<>>,
              missing |-> IF Decision(items) = "fail" THEN Missing(items) ELSE {}])
  /\ purpose' = "review"
  /\ submitted' = items

\* The process goes on to another request.
Done == /\ pc = "done"
        /\ pc' = "idle"
        /\ request' = NoRequest
        /\ vectorHits' = {} /\ keywordHits' = {} /\ hits' = <<>> /\ changed' = {}
        /\ seen' = NothingSeen
        /\ purpose' = "none" /\ submitted' = {} /\ outcome' = NoOutcome
        /\ UNCHANGED stored

Next == \/ (OtherProcess \/ SearchStep) /\ UNCHANGED <<seen, online>>
        \/ \E r \in Request : StartSearch(r) /\ UNCHANGED <<seen, online>>
        \/ (StartView \/ ViewStep) /\ UNCHANGED online
        \/ ShowHits \/ Answer
        \/ \E items \in Submission : Review(items)
        \/ Done

Spec == Init /\ [][Next]_vars

-----------------------------------------------------------------------------
\* The search's types; the outcome of a request is one its purpose allows.
TypeOK ==
  /\ RetrievalTypeOK
  /\ ViewsTypeOK
  /\ purpose \in {"none", "search", "ask", "review"}
  /\ submitted \subseteq Item
  /\ pc \in {"idle", "vector", "keyword", "rank", "respond", "done"} \cup ViewPlaces
  /\ outcome.decision \in CASE purpose = "none" -> {"none"}
                            [] purpose = "search" -> {"found"}
                            [] purpose = "ask" -> {"grounded", "fixed", "error"}
                            [] OTHER -> {"pass", "fail", "insufficient_evidence"}
  /\ outcome.missing \subseteq Requirement
  /\ \A n \in 1..Len(outcome.citations) : outcome.citations[n] \in 1..Len(chunks)

\* Whoever is told something can look it up: a grounded answer, a pass and a fail cite
\* the chunks that rank first, all of them chunks that the search may see; who is told
\* that there is no evidence to answer from sees no source.  A search shows all of its
\* hits, best first.  A review reads its rules in all of the hits: it cites each of
\* them unless it was asked for more than AnswerTopK.
ToldWithSources ==
  pc = "done" /\ purpose # "none" =>
    /\ outcome.decision \in {"grounded", "pass", "fail"} =>
         /\ outcome.citations # <<>>
         /\ \A n \in 1..Len(outcome.citations) :
              /\ outcome.citations[n] = hits[n].chunk
              /\ request.document_id \in {None, chunks[hits[n].chunk].document}
    /\ outcome.decision \in {"fixed", "error"} =>
         outcome.citations = <<>> /\ outcome.shown = <<>>
    /\ outcome.decision \in {"found", "grounded"} => Len(outcome.shown) = Len(hits)
    /\ purpose = "review" /\ request.top_k <= AnswerTopK =>
         Len(outcome.citations) = Len(hits)

\* A verdict rests on rules: it is given only if at least MinMatch requirements stand in
\* the texts that were found, as a whole in one of them or across the border of two
\* neighbours.  A pass means that the submission has every component of those that
\* are required; a fail names those of them that it has not, and there is one.
VerdictHolds ==
  LET texts == [n \in 1..Len(hits) |-> Value(hits[n].chunk).text]
      whole(r) == \E n \in 1..Len(texts) : Stated(r, texts[n])
      across(r) == \E n \in 1..(Len(texts) - 1) :
                     /\ Last(texts[n]) = [part |-> "head", keyword |-> r]
                     /\ Head(texts[n + 1]) = [part |-> "tail", keyword |-> r]
      found == {r \in Requirement : whole(r) \/ across(r)}
      unmet == {r \in found \cap Required :
                  \E c \in ComponentsOf[r] : \A item \in submitted : c \notin item}
  IN  pc = "done" /\ purpose = "review" =>
        /\ outcome.decision \in {"pass", "fail"} =>
             submitted # {} /\ Cardinality(found) >= MinMatch
        /\ outcome.decision = "pass" => unmet = {}
        /\ outcome.decision = "fail" => unmet # {} /\ outcome.missing = unmet
=============================================================================
