-------------------------- MODULE AgentNodes_proofs --------------------------
(***************************************************************************)
(* What the nodes, edges and updates of the qualification graph return,   *)
(* for every value of the settings.  QualificationGraph_proofs and        *)
(* LeadService_proofs both rest on these lemmas, as both modules run the  *)
(* same nodes.                                                             *)
(***************************************************************************)
EXTENDS AgentNodes, WellFoundedInduction, TLAPS

\* A set of naturals has a least element: the first counterexample of an
\* induction over data, or the first job of a queue.
LEMMA LeastOf ==
    ASSUME NEW S, S \subseteq Nat, S # {}
    PROVE  \E x \in S : \A y \in S : x <= y
<1> DEFINE R == {pair \in Nat \X Nat : pair[1] < pair[2]}
<1>1. IsWellFoundedOn(R, Nat)
  BY NatLessThanWellFounded DEF OpToRel
<1>2. \A x, y \in Nat : y < x => <<y, x>> \in R
  OBVIOUS
<1> HIDE DEF R
<1>3. PICK x \in S : \A y \in S : <<y, x>> \notin R
  BY <1>1, WFMin
<1>4. \A y \in S : ~(y < x)
  BY <1>2, <1>3
<1> QED BY <1>4

-----------------------------------------------------------------------------
(* The nodes return AgentStates, the edges lead to nodes. *)

\* The score is a fraction of Scale, whatever the distances (evaluator.py:74-103).
LEMMA ScoreType ==
    ASSUME NEW s \in AgentState
    PROVE  Score(s) \in 0..Scale
<1> USE SettingsAssumption
<1>1. \A x \in Int : Clamp(x) \in 0..Scale
  BY DEF Clamp
<1>2. CASE s.extracted_services = 0 \/ s.mapped_services = 0
  BY <1>2 DEF Score
<1>3. CASE ~(s.extracted_services = 0 \/ s.mapped_services = 0)
  <2> DEFINE far    == IF s.avg_distance < Scale THEN s.avg_distance ELSE Scale
             mapped == IF s.mapped_services < s.extracted_services
                       THEN s.mapped_services ELSE s.extracted_services
             n      == mapped * (Scale - far)
             d      == s.extracted_services
  <2>1. d \in Nat \ {0} /\ far \in Nat /\ mapped \in Nat
    BY <1>3 DEF AgentState
  <2>2. n \in Int
    BY <2>1
  <2>3. RoundedQuotient(n, d) \in Int
    <3> HIDE DEF n, d
    <3> QED BY <2>1, <2>2 DEF RoundedQuotient
  <2>4. Score(s) = Clamp(RoundedQuotient(n, d))
    BY <1>3 DEF Score
  <2> QED BY <1>1, <2>3, <2>4
<1> QED BY <1>2, <1>3

\* Assigning a field a value of its type keeps the record an AgentState.
LEMMA FieldUpdates ==
    ASSUME NEW s \in AgentState
    PROVE
      /\ \A v \in {"empty", "masked"} : [s EXCEPT !.sanitized_text = v] \in AgentState
      /\ \A v \in 0..MaxServices : [s EXCEPT !.extracted_services = v] \in AgentState
      /\ \A v \in 0..MaxServices : [s EXCEPT !.mapped_services = v] \in AgentState
      /\ \A v \in Nat : [s EXCEPT !.avg_distance = v] \in AgentState
      /\ \A v \in 0..Scale : [s EXCEPT !.confidence_score = v] \in AgentState
      /\ \A v \in Nat : [s EXCEPT !.retry_count = v] \in AgentState
      /\ \A v \in {"None", "True", "False"} : [s EXCEPT !.human_approved = v] \in AgentState
      /\ \A v \in Statuses : [s EXCEPT !.status = v] \in AgentState
      /\ \A v \in {"None", "set"} : [s EXCEPT !.error_detail = v] \in AgentState
      /\ \A v \in {"unset", "computed"} : [s EXCEPT !.total_quote = v] \in AgentState
      /\ \A v \in {"PENDING", "SUCCESS", "FAILED"} : [s EXCEPT !.delivery_status = v] \in AgentState
      /\ \A v \in Nat : [s EXCEPT !.delivery_attempts = v] \in AgentState
BY DEF AgentState

\* The fields of an AgentState, one by one.
LEMMA FieldTypes ==
    ASSUME NEW s \in AgentState
    PROVE  /\ s.sanitized_text \in {"empty", "masked"}
           /\ s.extracted_services \in 0..MaxServices
           /\ s.mapped_services \in 0..MaxServices
           /\ s.avg_distance \in Nat
           /\ s.confidence_score \in 0..Scale
           /\ s.retry_count \in Nat
           /\ s.human_approved \in {"None", "True", "False"}
           /\ s.status \in Statuses
           /\ s.error_detail \in {"None", "set"}
           /\ s.delivery_status \in {"PENDING", "SUCCESS", "FAILED"}
           /\ s.delivery_attempts \in Nat
BY DEF AgentState

\* The state a job starts from is an AgentState.
LEMMA InitialType == InitialState \in AgentState
BY SettingsAssumption DEF InitialState, AgentState, Statuses

\* The score depends on the matches alone.
LEMMA ScoreReads ==
    ASSUME NEW s, NEW r,
           r.extracted_services = s.extracted_services,
           r.mapped_services = s.mapped_services,
           r.avg_distance = s.avg_distance
    PROVE  Score(r) = Score(s)
BY DEF Score

-----------------------------------------------------------------------------
(* What each node and each update returns. *)

\* The sanitizer masks the text, or leaves none and may report an error
\* (sanitizer.py:59-100).
LEMMA SanitizerEffect ==
    ASSUME NEW s \in AgentState, NEW r \in SanitizerNode(s)
    PROVE  /\ r \in AgentState
           /\ \/ r.status = "processing"
              \/ /\ r.status = "error"
                 /\ r.error_detail = "set"
                 /\ r.sanitized_text = "empty"
           /\ r.retry_count = s.retry_count
           /\ r.human_approved = s.human_approved
           /\ r.delivery_attempts = s.delivery_attempts
<1>1. PICK text \in {"empty", "masked"}, st \in {"processing", "error"},
           detail \in {"None", "set"} :
          /\ r = [s EXCEPT !.sanitized_text = text, !.status = st,
                           !.error_detail = detail]
          /\ st = "error" => detail = "set" /\ text = "empty"
  BY DEF SanitizerNode
<1> DEFINE q1 == [s EXCEPT !.sanitized_text = text]
           q2 == [q1 EXCEPT !.status = st]
<1>2. q1 \in AgentState
  BY FieldUpdates
<1>3. q2 \in AgentState
  <2> HIDE DEF q1
  <2> QED BY <1>2, FieldUpdates DEF Statuses
<1>4. r = [q2 EXCEPT !.error_detail = detail]
  BY <1>1
<1>5. r \in AgentState
  <2> HIDE DEF q2
  <2> QED BY <1>3, <1>4, FieldUpdates
<1>6. /\ r.sanitized_text = text /\ r.status = st /\ r.error_detail = detail
      /\ r.retry_count = s.retry_count
      /\ r.human_approved = s.human_approved
      /\ r.delivery_attempts = s.delivery_attempts
  BY <1>1 DEF AgentState
<1> QED BY <1>1, <1>5, <1>6

\* The extractor pays for an answer exactly when there is a text
\* (extractor.py:204-209, 271-275).
LEMMA ExtractorEffect ==
    ASSUME NEW s \in AgentState, NEW r \in ExtractorNode(s)
    PROVE  /\ r \in AgentState
           /\ r.sanitized_text = s.sanitized_text
           /\ IF CallsLLM(s)
              THEN r.retry_count = s.retry_count + 1
              ELSE /\ r.retry_count = s.retry_count
                   /\ r.extracted_services = 0
                   /\ r.error_detail = "set"
           /\ r.human_approved = s.human_approved
           /\ r.status = s.status
           /\ r.delivery_attempts = s.delivery_attempts
<1>1. PICK n \in 0..MaxServices, retries \in Nat, detail \in {"None", "set"} :
          /\ r = [s EXCEPT !.extracted_services = n, !.retry_count = retries,
                           !.error_detail = detail]
          /\ IF CallsLLM(s)
             THEN retries = s.retry_count + 1
             ELSE retries = s.retry_count /\ n = 0 /\ detail = "set"
  <2>1. CASE CallsLLM(s)
    <3>1. PICK n \in 0..MaxServices :
              r = [s EXCEPT !.extracted_services = n, !.retry_count = @ + 1,
                            !.error_detail = IF n = 0 THEN "set" ELSE "None"]
      BY <2>1 DEF ExtractorNode, ExtractorAnswered
    <3>2. s.retry_count + 1 \in Nat
      BY FieldTypes
    <3> QED BY <2>1, <3>1, <3>2
  <2>2. CASE ~CallsLLM(s)
    <3>1. r = [s EXCEPT !.extracted_services = 0, !.error_detail = "set"]
      BY <2>2 DEF ExtractorNode, ExtractorShortCircuit
    <3>2. [s EXCEPT !.extracted_services = 0, !.error_detail = "set"]
            = [s EXCEPT !.extracted_services = 0, !.retry_count = s.retry_count,
                        !.error_detail = "set"]
      BY DEF AgentState
    <3>3. s.retry_count \in Nat /\ 0 \in 0..MaxServices
      BY FieldTypes, SettingsAssumption
    <3> QED BY <2>2, <3>1, <3>2, <3>3
  <2> QED BY <2>1, <2>2
<1> DEFINE q1 == [s EXCEPT !.extracted_services = n]
           q2 == [q1 EXCEPT !.retry_count = retries]
<1>2. q1 \in AgentState
  BY FieldUpdates
<1>3. q2 \in AgentState
  <2> HIDE DEF q1
  <2> QED BY <1>2, FieldUpdates
<1>4. r = [q2 EXCEPT !.error_detail = detail]
  BY <1>1
<1>5. r \in AgentState
  <2> HIDE DEF q2
  <2> QED BY <1>3, <1>4, FieldUpdates
<1>6. /\ r.extracted_services = n /\ r.retry_count = retries
      /\ r.error_detail = detail
      /\ r.sanitized_text = s.sanitized_text
      /\ r.human_approved = s.human_approved
      /\ r.status = s.status
      /\ r.delivery_attempts = s.delivery_attempts
  BY <1>1 DEF AgentState
<1> QED BY <1>1, <1>5, <1>6

\* The mapper clears an error only when it had something to map
\* (mapper.py:63-65, 219-223).
LEMMA MapperEffect ==
    ASSUME NEW s \in AgentState, NEW r \in MapperNode(s)
    PROVE  /\ r \in AgentState
           /\ r.sanitized_text = s.sanitized_text
           /\ r.extracted_services = s.extracted_services
           /\ r.retry_count = s.retry_count
           /\ s.extracted_services = 0 => r.error_detail = s.error_detail
           /\ r.human_approved = s.human_approved
           /\ r.status = s.status
           /\ r.delivery_attempts = s.delivery_attempts
<1>0. /\ 0 \in 0..MaxServices /\ 0 \in Nat
      /\ s.error_detail \in {"None", "set"}
      /\ 1..s.extracted_services \subseteq 0..MaxServices
      /\ RelevantDistances \subseteq Nat
  <2>1. s.extracted_services \in 0..MaxServices /\ MaxServices \in Nat
    BY FieldTypes, SettingsAssumption
  <2>2. 1..s.extracted_services \subseteq 0..MaxServices
    BY <2>1
  <2>3. RelevantDistances \subseteq Nat
    BY SettingsAssumption DEF RelevantDistances
  <2> QED BY <2>1, <2>2, <2>3, FieldTypes
<1>1. PICK m \in 0..MaxServices, d \in Nat, detail \in {"None", "set"} :
          /\ r = Mapped(s, m, d, detail)
          /\ s.extracted_services = 0 => detail = s.error_detail
  <2>1. CASE s.extracted_services = 0
    <3>1. r = [s EXCEPT !.mapped_services = 0, !.avg_distance = 0]
      BY <2>1 DEF MapperNode
    <3>2. [s EXCEPT !.mapped_services = 0, !.avg_distance = 0]
            = Mapped(s, 0, 0, s.error_detail)
      BY DEF Mapped, AgentState
    <3> QED BY <1>0, <3>1, <3>2
  <2>2. CASE s.extracted_services # 0
    BY <1>0, <2>2 DEF MapperNode, MapperMatched, MapperAbandoned
  <2> QED BY <2>1, <2>2
<1> DEFINE q1 == [s EXCEPT !.mapped_services = m]
           q2 == [q1 EXCEPT !.avg_distance = d]
<1>2. q1 \in AgentState
  BY FieldUpdates
<1>3. q2 \in AgentState
  <2> HIDE DEF q1
  <2> QED BY <1>2, FieldUpdates
<1>4. r = [q2 EXCEPT !.error_detail = detail]
  BY <1>1 DEF Mapped
<1>5. r \in AgentState
  <2> HIDE DEF q2
  <2> QED BY <1>3, <1>4, FieldUpdates
<1>6. /\ r.error_detail = detail
      /\ r.sanitized_text = s.sanitized_text
      /\ r.extracted_services = s.extracted_services
      /\ r.retry_count = s.retry_count
      /\ r.human_approved = s.human_approved
      /\ r.status = s.status
      /\ r.delivery_attempts = s.delivery_attempts
  BY <1>1 DEF Mapped, AgentState
<1> QED BY <1>1, <1>5, <1>6

\* The evaluator scores the matches and tests whether the graph is heading
\* for review (evaluator.py:105-133).
LEMMA EvaluatorEffect ==
    ASSUME NEW s \in AgentState, NEW r \in EvaluatorNode(s)
    PROVE  /\ r \in AgentState
           /\ r.sanitized_text = s.sanitized_text
           /\ r.confidence_score = Score(s)
           /\ Score(r) = Score(s)
           /\ r.retry_count = s.retry_count
           /\ r.human_approved = s.human_approved
           /\ r.status = IF HeadingToHitl(Score(s), s)
                         THEN "pending_review" ELSE s.status
           /\ r.error_detail = s.error_detail
           /\ r.delivery_attempts = s.delivery_attempts
<1>1. PICK st \in Statuses :
          /\ r = [s EXCEPT !.confidence_score = Score(s), !.status = st]
          /\ st = IF HeadingToHitl(Score(s), s)
                  THEN "pending_review" ELSE s.status
  BY FieldTypes DEF EvaluatorNode, Statuses
<1> DEFINE q == [s EXCEPT !.confidence_score = Score(s)]
<1>2. q \in AgentState
  BY FieldUpdates, ScoreType
<1>3. r \in AgentState
  <2>1. r = [q EXCEPT !.status = st]
    BY <1>1
  <2> HIDE DEF q
  <2> QED BY <1>2, <2>1, FieldUpdates
<1>4. /\ r.confidence_score = Score(s) /\ r.status = st
      /\ r.sanitized_text = s.sanitized_text
      /\ r.extracted_services = s.extracted_services
      /\ r.mapped_services = s.mapped_services
      /\ r.avg_distance = s.avg_distance
      /\ r.retry_count = s.retry_count
      /\ r.human_approved = s.human_approved
      /\ r.error_detail = s.error_detail
      /\ r.delivery_attempts = s.delivery_attempts
  BY <1>1 DEF AgentState
<1> QED BY <1>1, <1>3, <1>4, ScoreReads

\* The calculator resets status and error (calculator.py:25-84).
LEMMA CalculatorEffect ==
    ASSUME NEW s \in AgentState, NEW r \in CalculatorNode(s)
    PROVE  /\ r \in AgentState
           /\ r.sanitized_text = s.sanitized_text
           /\ Score(r) = Score(s)
           /\ r.retry_count = s.retry_count
           /\ r.human_approved = s.human_approved
           /\ r.status = "processing"
           /\ r.delivery_attempts = s.delivery_attempts
<1>1. r = [s EXCEPT !.total_quote = "computed", !.status = "processing",
                    !.error_detail = "None"]
  BY DEF CalculatorNode
<1> DEFINE q1 == [s EXCEPT !.total_quote = "computed"]
           q2 == [q1 EXCEPT !.status = "processing"]
<1>2. q1 \in AgentState
  BY FieldUpdates
<1>3. q2 \in AgentState
  <2> HIDE DEF q1
  <2> QED BY <1>2, FieldUpdates DEF Statuses
<1>4. r = [q2 EXCEPT !.error_detail = "None"]
  BY <1>1
<1>5. r \in AgentState
  <2> HIDE DEF q2
  <2> QED BY <1>3, <1>4, FieldUpdates
<1>6. /\ r.status = "processing"
      /\ r.sanitized_text = s.sanitized_text
      /\ r.extracted_services = s.extracted_services
      /\ r.mapped_services = s.mapped_services
      /\ r.avg_distance = s.avg_distance
      /\ r.retry_count = s.retry_count
      /\ r.human_approved = s.human_approved
      /\ r.delivery_attempts = s.delivery_attempts
  BY <1>1 DEF AgentState
<1> QED BY <1>5, <1>6, ScoreReads

\* A delivery, accepted or not, counts as an attempt; only an accepted one
\* completes the lead (delivery.py:67-142).
LEMMA DeliveryEffect ==
    ASSUME NEW s \in AgentState, NEW r \in DeliveryNode(s)
    PROVE  /\ r \in AgentState
           /\ r.sanitized_text = s.sanitized_text
           /\ Score(r) = Score(s)
           /\ r.retry_count = s.retry_count
           /\ r.human_approved = s.human_approved
           /\ r.error_detail = s.error_detail
           /\ r.delivery_attempts = s.delivery_attempts + 1
           /\ r = DeliverySucceeded(s) =>
                r.status = "completed" /\ r.delivery_status = "SUCCESS"
           /\ r = DeliveryFailed(s) =>
                r.status = s.status /\ r.delivery_status = "FAILED"
<1>0. s.delivery_attempts + 1 \in Nat /\ s.status \in Statuses
  BY FieldTypes
<1>1. PICK outcome \in {"SUCCESS", "FAILED"}, st \in Statuses :
          r = [s EXCEPT !.delivery_status = outcome,
                        !.delivery_attempts = @ + 1, !.status = st]
  <2>1. CASE r = DeliverySucceeded(s)
    BY <2>1 DEF DeliverySucceeded, Statuses
  <2>2. CASE r = DeliveryFailed(s)
    <3>1. [s EXCEPT !.delivery_status = "FAILED", !.delivery_attempts = @ + 1]
            = [s EXCEPT !.delivery_status = "FAILED",
                        !.delivery_attempts = @ + 1, !.status = s.status]
      BY DEF AgentState
    <3> QED BY <1>0, <2>2, <3>1 DEF DeliveryFailed
  <2> QED BY <2>1, <2>2 DEF DeliveryNode
<1> DEFINE q1 == [s EXCEPT !.delivery_status = outcome]
           q2 == [q1 EXCEPT !.delivery_attempts = s.delivery_attempts + 1]
<1>2. q1 \in AgentState
  BY FieldUpdates
<1>3. q2 \in AgentState
  <2> HIDE DEF q1
  <2> QED BY <1>0, <1>2, FieldUpdates
<1>4. r = [q2 EXCEPT !.status = st]
  BY <1>1
<1>5. r \in AgentState
  <2> HIDE DEF q2
  <2> QED BY <1>3, <1>4, FieldUpdates
<1>6. /\ r.sanitized_text = s.sanitized_text
      /\ r.extracted_services = s.extracted_services
      /\ r.mapped_services = s.mapped_services
      /\ r.avg_distance = s.avg_distance
      /\ r.retry_count = s.retry_count
      /\ r.human_approved = s.human_approved
      /\ r.error_detail = s.error_detail
      /\ r.delivery_attempts = s.delivery_attempts + 1
  BY <1>1 DEF AgentState
<1>7. /\ DeliverySucceeded(s).status = "completed"
      /\ DeliverySucceeded(s).delivery_status = "SUCCESS"
      /\ DeliveryFailed(s).status = s.status
      /\ DeliveryFailed(s).delivery_status = "FAILED"
  BY DEF DeliverySucceeded, DeliveryFailed, AgentState
<1> QED BY <1>5, <1>6, <1>7, ScoreReads

\* The operator's approval (routes.py:281-288).
LEMMA ApprovedEffect ==
    ASSUME NEW s \in AgentState
    PROVE  /\ Approved(s) \in AgentState
           /\ Approved(s).sanitized_text = s.sanitized_text
           /\ Approved(s).confidence_score = Scale
           /\ Approved(s).retry_count = s.retry_count
           /\ Approved(s).human_approved = "True"
           /\ Approved(s).status = "queued"
           /\ Approved(s).delivery_attempts = s.delivery_attempts
<1> DEFINE q1 == [s EXCEPT !.human_approved = "True"]
           q2 == [q1 EXCEPT !.status = "queued"]
<1>1. q1 \in AgentState
  BY FieldUpdates
<1>2. q2 \in AgentState
  <2> HIDE DEF q1
  <2> QED BY <1>1, FieldUpdates DEF Statuses
<1>3. Approved(s) \in AgentState
  <2>1. Approved(s) = [q2 EXCEPT !.confidence_score = Scale] /\ Scale \in 0..Scale
    BY SettingsAssumption DEF Approved
  <2> HIDE DEF q2
  <2> QED BY <1>2, <2>1, FieldUpdates
<1> QED BY <1>3 DEF Approved, AgentState

\* The operator's rejection (routes.py:266-278).
LEMMA RejectedEffect ==
    ASSUME NEW s \in AgentState
    PROVE  /\ Rejected(s) \in AgentState
           /\ Rejected(s).sanitized_text = s.sanitized_text
           /\ Rejected(s).retry_count = s.retry_count
           /\ Rejected(s).status = "error"
           /\ Rejected(s).error_detail = "set"
           /\ Rejected(s).delivery_attempts = s.delivery_attempts
<1> DEFINE q1 == [s EXCEPT !.human_approved = "False"]
           q2 == [q1 EXCEPT !.status = "error"]
<1>1. q1 \in AgentState
  BY FieldUpdates
<1>2. q2 \in AgentState
  <2> HIDE DEF q1
  <2> QED BY <1>1, FieldUpdates DEF Statuses
<1>3. Rejected(s) \in AgentState
  <2>1. Rejected(s) = [q2 EXCEPT !.error_detail = "set"]
    BY DEF Rejected
  <2> HIDE DEF q2
  <2> QED BY <1>2, <2>1, FieldUpdates
<1> QED BY <1>3 DEF Rejected, AgentState

\* The crash handler's update (tasks.py:99-107).
LEMMA MarkedErrorEffect ==
    ASSUME NEW s \in AgentState
    PROVE  /\ MarkedError(s) \in AgentState
           /\ MarkedError(s).sanitized_text = s.sanitized_text
           /\ MarkedError(s).retry_count = s.retry_count
           /\ MarkedError(s).status = "error"
           /\ MarkedError(s).error_detail = "set"
           /\ MarkedError(s).delivery_attempts = s.delivery_attempts
<1> DEFINE q == [s EXCEPT !.status = "error"]
<1>1. q \in AgentState
  BY FieldUpdates DEF Statuses
<1>2. MarkedError(s) \in AgentState
  <2>1. MarkedError(s) = [q EXCEPT !.error_detail = "set"]
    BY DEF MarkedError
  <2> HIDE DEF q
  <2> QED BY <1>1, <2>1, FieldUpdates
<1> QED BY <1>2 DEF MarkedError, AgentState

\* The edges, node by node, and their targets.
LEMMA Edges ==
    ASSUME NEW s
    PROVE  /\ Edge("sanitizer", s)      = "extractor"
           /\ Edge("extractor", s)      = "mapper"
           /\ Edge("mapper", s)         = "evaluator"
           /\ Edge("evaluator", s)      = RouteAfterEvaluator(s)
           /\ Edge("calculator", s)     = "delivery"
           /\ Edge("delivery", s)       = RouteAfterDelivery(s)
           /\ RouteAfterEvaluator(s) \in {"calculator", "extractor", "hitl_interrupt"}
           /\ RouteAfterDelivery(s) \in {"delivery", "__end__"}
<1>1. /\ Edge("sanitizer", s)      = "extractor"
      /\ Edge("extractor", s)      = "mapper"
      /\ Edge("mapper", s)         = "evaluator"
      /\ Edge("calculator", s)     = "delivery"
  BY DEF Edge, StaticEdges
<1>2. /\ Edge("evaluator", s)      = RouteAfterEvaluator(s)
      /\ Edge("delivery", s)       = RouteAfterDelivery(s)
  BY DEF Edge
<1>3. RouteAfterEvaluator(s) \in {"calculator", "extractor", "hitl_interrupt"}
  BY DEF RouteAfterEvaluator
<1>4. RouteAfterDelivery(s) \in {"delivery", "__end__"}
  BY DEF RouteAfterDelivery
<1> QED BY <1>1, <1>2, <1>3, <1>4

=============================================================================
