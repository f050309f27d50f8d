------------------------ MODULE MCQualificationGraph ------------------------
(* QualificationGraph with the deployed settings, scores in steps of 0.05. *)
EXTENDS QualificationGraph, CatalogueSearch

\* A perfect match, one that just reaches 0.55 with full coverage, one that
\* just misses it, one on the mapper's limit and one beyond it.
MCDistances == {0, 9, 10, 16, 18}

-----------------------------------------------------------------------------
(* CatalogueSearch, evaluated before the state space is explored *)

\* All catalogues of up to three rows.
MCCatalogues == UNION {[1..n -> MCDistances] : n \in 0..3}

\* The search yields all of the closest rows and nothing else, with the
\* deployed limit of 3, a smaller one and a larger one (vector_store.py:70-109).
ASSUME MCSearchFindsClosest ==
    \A far \in MCCatalogues, k \in 1..4 : Matches(far, k) = ClosestRows(far)

\* Averages of up to three of these distances are whole.
MCSearches == [1..2 -> {0, 12, 18}]

\* For up to three services, each with a catalogue of its own, the evaluator
\* scores the mapper's list as AgentNodes scores its length and average, and
\* these are in the ranges AgentNodes chooses from (mapper.py:141-223,
\* evaluator.py:74-103).
ASSUME MCNodesAgree ==
    \A n \in 1..3 : \A far \in [1..n -> MCSearches] : \A found \in MatchLists(far, 2) :
        /\ Confidence(far, found) = NodeScore(far, found)
        /\ Cardinality(Mapping(found)) <= n
        /\ TotalDistance(far, found) <= DistanceThreshold * Cardinality(Mapping(found))

=============================================================================
