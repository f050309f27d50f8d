----------------------------- MODULE AgentNodes -----------------------------
(***************************************************************************)
(* The nodes and edges of the qualification graph, as operators on the    *)
(* AgentState that LangGraph threads through them (backend/agents,        *)
(* backend/core/graph.py).  A node is the set of states it may return:    *)
(* what the LLM, the embedding service, pgvector and the delivery adapter *)
(* answer is the choice among them.  The module has no variables, so that *)
(* the single run of QualificationGraph and the concurrent jobs of        *)
(* LeadService take exactly the same steps.                               *)
(*                                                                         *)
(* Data is kept only as far as control depends on it: a list of services  *)
(* is its length, a text is empty or not, a score is an integer number of *)
(* units of 1/Scale.  mapped_services and retrieved_docs are always       *)
(* appended together (mapper.py:194-208), hence one count and one average *)
(* distance.  catalogue_items has a CHECK that leaves price NULL for      *)
(* VARIABLE rows only, so the sum of calculator.py does not raise.        *)
(***************************************************************************)
EXTENDS Integers

CONSTANTS
    MaxRetryCount,        \* settings.max_retry_count
    EvaluatorThreshold,   \* settings.evaluator_threshold, in units of 1/Scale
    MapperMaxDistance,    \* settings.mapper_max_distance, in units of 1/Scale
    DeliveryMaxAttempts,  \* settings.delivery_max_attempts
    Scale,                \* the score 1.0
    Distances,            \* the average distances pgvector may report
    MaxServices           \* bound: longest list of services the LLM returns

ASSUME SettingsAssumption ==
    /\ MaxRetryCount \in Nat
    /\ Scale \in Nat \ {0}
    /\ EvaluatorThreshold \in 0..Scale
    /\ MapperMaxDistance \in Nat
    /\ DeliveryMaxAttempts \in Nat \ {0}
    /\ Distances \subseteq Nat
    /\ MaxServices \in Nat \ {0}

-----------------------------------------------------------------------------
(* AgentState *)

Statuses == {"queued", "processing", "pending_review", "completed", "error"}

\* The statuses on which a polling client stops.
TerminalStatuses == {"completed", "pending_review", "error"}

AgentState ==
    [sanitized_text     : {"empty", "masked"},
     extracted_services : 0..MaxServices,
     mapped_services    : 0..MaxServices,
     avg_distance       : Nat,
     confidence_score   : 0..Scale,
     retry_count        : Nat,
     human_approved     : {"None", "True", "False"},
     status             : Statuses,
     error_detail       : {"None", "set"},
     total_quote        : {"unset", "computed"},
     delivery_status    : {"PENDING", "SUCCESS", "FAILED"},
     delivery_attempts  : Nat]

\* What run_qualification_task passes to ainvoke for a new job.
InitialState ==
    [sanitized_text     |-> "empty",
     extracted_services |-> 0,
     mapped_services    |-> 0,
     avg_distance       |-> 0,
     confidence_score   |-> 0,
     retry_count        |-> 0,
     human_approved     |-> "None",
     status             |-> "processing",
     error_detail       |-> "None",
     total_quote        |-> "unset",
     delivery_status    |-> "PENDING",
     delivery_attempts  |-> 0]

-----------------------------------------------------------------------------
(* Nodes *)

\* Masking succeeds (an all-PII text masked by an empty token leaves
\* nothing), or fails and the node reports an error without stopping the
\* graph.
SanitizerNode(s) ==
    {[s EXCEPT !.sanitized_text = text,
               !.status         = "processing",
               !.error_detail   = "None"] : text \in {"masked", "empty"}}
    \cup
    {[s EXCEPT !.sanitized_text = "empty",
               !.status         = "error",
               !.error_detail   = "set"]}

\* Mutant of ExtractorShortCircuit: an empty text costs a retry.
ShortCircuitCounted(s) ==
    {[s EXCEPT !.extracted_services = 0,
               !.retry_count        = @ + 1,
               !.error_detail       = "set"]}

\* No LLM call, and no retry consumed, when there is no text.
ExtractorShortCircuit(s) ==
    {[s EXCEPT !.extracted_services = 0,
               !.error_detail       = "set"]}

\* The LLM answered; an unusable answer parses to no services.
ExtractorAnswered(s) ==
    {[s EXCEPT !.extracted_services = n,
               !.retry_count        = @ + 1,
               !.error_detail       = IF n = 0 THEN "set" ELSE "None"]
        : n \in 0..MaxServices}

CallsLLM(s) == s.sanitized_text # "empty"

ExtractorNode(s) ==
    IF CallsLLM(s) THEN ExtractorAnswered(s) ELSE ExtractorShortCircuit(s)

\* _DISTANCE_FALLBACK (0.80) replaces a disabled filter.
DistanceThreshold ==
    IF MapperMaxDistance > 0 THEN MapperMaxDistance ELSE (4 * Scale) \div 5

RelevantDistances == {d \in Distances : d <= DistanceThreshold}

\* The m matches found, at average distance d.
Mapped(s, m, d, detail) ==
    [s EXCEPT !.mapped_services = m,
              !.avg_distance    = d,
              !.error_detail    = detail]

\* Mutant of MapperMatched: all k = 3 neighbours of a service are kept.
AllNeighboursMatched(s) ==
    {Mapped(s, m, d, "None")
        : m \in 0..(3 * s.extracted_services), d \in RelevantDistances}

\* Each extracted service keeps at most its best match.
MapperMatched(s) ==
    {Mapped(s, 0, 0, "None")} \cup
    {Mapped(s, m, d, "None")
        : m \in 1..s.extracted_services, d \in RelevantDistances}

\* One failed embedding or query abandons every match found so far.
MapperAbandoned(s) == {Mapped(s, 0, 0, "set")}

MapperNode(s) ==
    IF s.extracted_services = 0
    THEN {[s EXCEPT !.mapped_services = 0, !.avg_distance = 0]}
    ELSE MapperMatched(s) \cup MapperAbandoned(s)

Clamp(x) == IF x < 0 THEN 0 ELSE IF x > Scale THEN Scale ELSE x

\* n/d rounded to the nearest unit.
RoundedQuotient(n, d) == (2 * n + d) \div (2 * d)

\* Coverage times closeness; no evidence scores zero.
Score(s) ==
    IF s.extracted_services = 0 \/ s.mapped_services = 0
    THEN 0
    ELSE LET far    == IF s.avg_distance < Scale THEN s.avg_distance ELSE Scale
             mapped == IF s.mapped_services < s.extracted_services
                       THEN s.mapped_services ELSE s.extracted_services
         IN  Clamp(RoundedQuotient(mapped * (Scale - far), s.extracted_services))

\* Mutants of HeadingToHitl: the evaluator announces the review one retry
\* later, or one retry earlier, than the router decides on it.
HeadingToHitlLate(score, s) ==
    /\ score < EvaluatorThreshold
    /\ s.retry_count > MaxRetryCount

HeadingToHitlEarly(score, s) ==
    /\ score < EvaluatorThreshold
    /\ s.retry_count + 1 >= MaxRetryCount

\* The evaluator's own test, made before the router makes its one.
HeadingToHitl(score, s) ==
    /\ score < EvaluatorThreshold
    /\ s.retry_count >= MaxRetryCount

EvaluatorNode(s) ==
    {[s EXCEPT !.confidence_score = Score(s),
               !.status = IF HeadingToHitl(Score(s), s)
                          THEN "pending_review" ELSE @]}

\* Mutant of CalculatorNode: the status the approval left is kept.
CalculatorKeepsStatus(s) ==
    {[s EXCEPT !.total_quote  = "computed",
               !.error_detail = "None"]}

CalculatorNode(s) ==
    {[s EXCEPT !.total_quote  = "computed",
               !.status       = "processing",
               !.error_detail = "None"]}

\* The adapter accepted the quote.
DeliverySucceeded(s) ==
    [s EXCEPT !.delivery_status   = "SUCCESS",
              !.delivery_attempts = @ + 1,
              !.status            = "completed"]

\* Mutants of DeliveryFailed: a refused attempt is not counted; it completes
\* the lead.
DeliveryFailedUncounted(s) == [s EXCEPT !.delivery_status = "FAILED"]

DeliveryFailedCompletes(s) ==
    [s EXCEPT !.delivery_status   = "FAILED",
              !.delivery_attempts = @ + 1,
              !.status            = "completed"]

\* The adapter returned False or raised; status is left as it was.
DeliveryFailed(s) ==
    [s EXCEPT !.delivery_status   = "FAILED",
              !.delivery_attempts = @ + 1]

DeliveryNode(s) == {DeliverySucceeded(s), DeliveryFailed(s)}

-----------------------------------------------------------------------------
(* Edges *)

Nodes == {"sanitizer", "extractor", "mapper", "evaluator", "calculator",
          "delivery", "hitl_interrupt"}

\* Mutant of RouteAfterEvaluator: exhausted retries are quoted instead of
\* reviewed.
RouteNeverToReview(s) ==
    IF s.confidence_score < EvaluatorThreshold /\ s.retry_count < MaxRetryCount
    THEN "extractor" ELSE "calculator"

RouteAfterEvaluator(s) ==
    IF s.confidence_score >= EvaluatorThreshold THEN "calculator"
    ELSE IF s.retry_count < MaxRetryCount       THEN "extractor"
    ELSE "hitl_interrupt"

\* Mutants of RouteAfterDelivery: an accepted quote is sent again; the limit
\* is inclusive.
RouteIgnoresSuccess(s) ==
    IF s.delivery_attempts < DeliveryMaxAttempts THEN "delivery" ELSE "__end__"

RouteOneDeliveryMore(s) ==
    IF /\ s.delivery_status # "SUCCESS"
       /\ s.delivery_attempts <= DeliveryMaxAttempts
    THEN "delivery" ELSE "__end__"

RouteAfterDelivery(s) ==
    IF /\ s.delivery_status # "SUCCESS"
       /\ s.delivery_attempts < DeliveryMaxAttempts
    THEN "delivery" ELSE "__end__"

StaticEdges ==
    [sanitizer      |-> "extractor",
     extractor      |-> "mapper",
     mapper         |-> "evaluator",
     calculator     |-> "delivery",
     hitl_interrupt |-> "__end__"]

\* Where the graph goes after a node returned s.
Edge(node, s) ==
    CASE node = "evaluator" -> RouteAfterEvaluator(s)
      [] node = "delivery"  -> RouteAfterDelivery(s)
      [] OTHER              -> StaticEdges[node]

\* What a node other than the interrupt may return.
NodeReturns(node, s) ==
    CASE node = "sanitizer"  -> SanitizerNode(s)
      [] node = "extractor"  -> ExtractorNode(s)
      [] node = "mapper"     -> MapperNode(s)
      [] node = "evaluator"  -> EvaluatorNode(s)
      [] node = "calculator" -> CalculatorNode(s)
      [] node = "delivery"   -> DeliveryNode(s)

\* An exception that leaves the node: the LLM call, an embedding of another
\* dimension than the catalogue's.
NodeMayRaise(node, s) ==
    \/ node = "extractor" /\ CallsLLM(s)
    \/ node = "mapper" /\ s.extracted_services > 0

-----------------------------------------------------------------------------
(* The two updates POST /lead/{thread_id}/approve makes.  *)

\* Mutant of Approved: the lead keeps reading "pending_review".
ApprovedStaysPending(s) ==
    [s EXCEPT !.human_approved   = "True",
              !.confidence_score = Scale]

Approved(s) ==
    [s EXCEPT !.human_approved   = "True",
              !.status           = "queued",
              !.confidence_score = Scale]

Rejected(s) ==
    [s EXCEPT !.human_approved = "False",
              !.status         = "error",
              !.error_detail   = "set"]

\* Mutant of MarkedError: no error_detail is written.
MarkedErrorBare(s) == [s EXCEPT !.status = "error"]

\* The update of _update_state_on_crash.
MarkedError(s) ==
    [s EXCEPT !.status       = "error",
              !.error_detail = "set"]

=============================================================================
