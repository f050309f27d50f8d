---------------------------- MODULE CatalogueSearch ----------------------------
(***************************************************************************)
(* What the mapper finds in the catalogue and how the evaluator scores it, *)
(* row by row, where AgentNodes keeps a number of matches and their         *)
(* average distance.  For one service, far gives the cosine distance of     *)
(* each row of the tenant to the service's text.                            *)
(***************************************************************************)
EXTENDS AgentNodes, FiniteSetsExt

-----------------------------------------------------------------------------
(* similarity_search *)

\* ORDER BY distance LIMIT k: rows at equal distance come in any order.
NearestRows(far, k) ==
    {N \in SUBSET DOMAIN far :
        /\ Cardinality(N) <= k
        /\ Cardinality(N) < k => N = DOMAIN far
        /\ \A i \in N, j \in DOMAIN far \ N : far[i] <= far[j]}

\* The mapper passes max_distance only if it is positive.
SimilaritySearch(far, k) ==
    {{i \in N : MapperMaxDistance > 0 => far[i] <= MapperMaxDistance}
        : N \in NearestRows(far, k)}

-----------------------------------------------------------------------------
(* The mapper's choice *)

Relevant(far, docs) == {i \in docs : far[i] <= DistanceThreshold}

\* min(relevant, key=distance), for any order of equals.
Best(far, relevant) ==
    {i \in relevant : \A j \in relevant : far[i] <= far[j]}

\* No match, or one: what a service is mapped to is a set of at most one row.
BestMatch(far, docs) ==
    IF Relevant(far, docs) = {} THEN {{}}
    ELSE {{i} : i \in Best(far, Relevant(far, docs))}

Matches(far, k) == UNION {BestMatch(far, docs) : docs \in SimilaritySearch(far, k)}

\* The mapper awaits between two services, so each has a catalogue of its
\* own: far[n] is the one that service n is searched in.
MatchLists(far, k) ==
    {found \in [DOMAIN far -> UNION {Matches(far[n], k) : n \in DOMAIN far}] :
        \A n \in DOMAIN far : found[n] \in Matches(far[n], k)}

-----------------------------------------------------------------------------
(* The evaluator's score of a list *)

Mapping(found) == {n \in DOMAIN found : found[n] # {}}

TotalDistance(far, found) ==
    MapThenSumSet(LAMBDA n : far[n][CHOOSE i \in found[n] : TRUE], Mapping(found))

\* Coverage, at most 1, times 1 - the average distance, which counts at most
\* 1; in units of 1/Scale, rounded.
Confidence(far, found) ==
    LET mapped    == Cardinality(Mapping(found))
        extracted == Cardinality(DOMAIN found)
        total     == TotalDistance(far, found)
    IN  IF mapped = 0 THEN 0
        ELSE Clamp(RoundedQuotient(
                 Min({mapped, extracted}) * (mapped * Scale - Min({total, mapped * Scale})),
                 extracted * mapped))

-----------------------------------------------------------------------------
(* What they should compute *)

Within(far) == {i \in DOMAIN far : far[i] <= DistanceThreshold}

\* A row as close as any, if it is within the threshold.
ClosestRows(far) ==
    IF Within(far) = {} THEN {{}}
    ELSE {{i} : i \in Best(far, DOMAIN far)}

\* The same as AgentNodes computes from the count and the average.
NodeScore(far, found) ==
    LET mapped == Cardinality(Mapping(found))
        mean   == IF mapped = 0 THEN 0 ELSE TotalDistance(far, found) \div mapped
    IN  Score(Mapped([InitialState EXCEPT !.extracted_services =
                                              Cardinality(DOMAIN found)],
                     mapped, mean, "None"))

=============================================================================
