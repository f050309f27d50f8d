---------------------- MODULE QualificationGraph_proofs ----------------------
(***************************************************************************)
(* What QualificationGraph guarantees for every value of the settings:    *)
(* type correctness first, then one inductive invariant that says what is *)
(* known of a lead at each node, then the properties that follow from it. *)
(***************************************************************************)
EXTENDS QualificationGraph, AgentNodes_proofs, TLAPS

-----------------------------------------------------------------------------
(* Type correctness. *)

\* Every step keeps the type.
LEMMA TypeInductive == TypeOK /\ [Next]_vars => TypeOK'
<1> SUFFICES ASSUME TypeOK, [Next]_vars
             PROVE  TypeOK'
  OBVIOUS
<1> USE SettingsAssumption, RecursionAssumption DEF TypeOK, Phases
<1>1. ASSUME NEW n \in Nodes, NEW s \in AgentState, Superstep(n, s),
             answers' \in Nat, attempts' \in Nat, quotes' \in Nat
      PROVE  TypeOK'
  <2>1. next' \in Nodes \cup {"__end__"}
    <3>1. n # "hitl_interrupt" => Edge(n, s) \in Nodes \cup {"__end__"}
      BY Edges DEF Nodes
    <3>2. Edge("hitl_interrupt", s) = "__end__"
      BY DEF Edge, StaticEdges
    <3> QED BY <1>1, <3>1, <3>2 DEF Superstep
  <2> QED BY <1>1, <2>1 DEF Superstep
<1>2. CASE Start \/ Resume \/ Interrupt \/ Finish \/ ExceedRecursion \/ Raise
            \/ FailToMarkError
  BY <1>2 DEF Start, Resume, Interrupt, Finish, ExceedRecursion, Raise,
              FailToMarkError
<1>3. CASE Sanitize
  BY <1>1, <1>3, SanitizerEffect DEF Sanitize, Nodes
<1>4. CASE Extract
  <2>1. answers' \in Nat
    BY <1>4 DEF Extract
  <2> QED BY <1>1, <1>4, <2>1, ExtractorEffect DEF Extract, Nodes
<1>5. CASE Map
  BY <1>1, <1>5, MapperEffect DEF Map, Nodes
<1>6. CASE Evaluate
  BY <1>1, <1>6, EvaluatorEffect DEF Evaluate, Nodes
<1>7. CASE Calculate
  BY <1>1, <1>7, CalculatorEffect DEF Calculate, Nodes
<1>8. CASE Deliver
  <2>1. /\ DeliverySucceeded(state) \in AgentState
        /\ DeliveryFailed(state) \in AgentState
    BY DeliveryEffect DEF DeliveryNode
  <2> QED BY <1>1, <1>8, <2>1 DEF Deliver, Nodes
<1>9. CASE MarkError
  BY <1>9, MarkedErrorEffect DEF MarkError
<1>10. CASE Approve
  <2>1. Edge("evaluator", Approved(state)) \in Nodes
    BY Edges DEF Nodes
  <2> QED BY <1>10, <2>1, ApprovedEffect DEF Approve
<1>11. CASE Reject
  <2>1. Edge("evaluator", Rejected(state)) \in Nodes
    BY Edges DEF Nodes
  <2> QED BY <1>11, <2>1, RejectedEffect DEF Reject
<1>12. CASE UNCHANGED vars
  BY <1>12 DEF vars
<1> QED BY <1>2, <1>3, <1>4, <1>5, <1>6, <1>7, <1>8, <1>9, <1>10, <1>11, <1>12
        DEF Next, Worker, Terminated

\* Every reachable state has its type: whatever the LLM, pgvector and the
\* adapter answer, the nodes, the API and the crash handler write only values
\* AgentState (state.py:37-115) declares.
THEOREM TypeCorrect == Spec => []TypeOK
<1>1. Init => TypeOK
  BY InitialType, RecursionAssumption DEF Init, TypeOK, Phases, Nodes
<1>2. QED BY <1>1, TypeInductive, PTL DEF Spec

-----------------------------------------------------------------------------
(* The inductive invariant. *)

\* What allows a quote: an approval, or a score that reaches the threshold.
Justified ==
    \/ state.human_approved = "True"
    \/ state.human_approved = "None" /\ Score(state) >= EvaluatorThreshold

\* What the job's phase says about the next node.
PhaseInv ==
    /\ run = "queued" => next = "sanitizer"
    /\ run = "suspended" => next = "hitl_interrupt"
    /\ run = "resuming" => next = "calculator"
    /\ run = "failing" => next # "__end__"
    /\ run \in {"queued", "running", "suspended", "resuming"} => failure = "none"

\* No decision and no quote yet, and an error only for want of a text.
Undecided ==
    /\ state.human_approved = "None"
    /\ attempts = 0
    /\ state.status \in {"processing", "error"}
    /\ state.status = "error" => state.sanitized_text = "empty"

\* What is known of a lead about to run each node.
AtNode(n) ==
    CASE n = "sanitizer" ->
            state = InitialState /\ steps = 0
      [] n = "extractor" ->
            /\ Undecided
            /\ answers = 0 \/ answers < MaxRetryCount
      [] n \in {"mapper", "evaluator"} ->
            /\ Undecided
            /\ state.sanitized_text = "empty" => state.extracted_services = 0
            /\ state.sanitized_text = "masked" => answers > 0
      [] n = "hitl_interrupt" ->
            /\ state.human_approved = "None"
            /\ attempts = 0
            /\ state.status = "pending_review"
            /\ answers >= MaxRetryCount
            /\ state.confidence_score < EvaluatorThreshold
      [] n = "calculator" ->
            /\ Justified
            /\ attempts = 0
            /\ state.status \in {"processing", "error", "queued"}
            /\ state.status = "error" => EvaluatorThreshold = 0
      [] n = "delivery" ->
            /\ Justified
            /\ attempts < DeliveryMaxAttempts
            /\ state.status = "processing"
      [] OTHER ->
            /\ Justified
            /\ state.status \in {"processing", "completed"}

\* Supersteps that a run with text can have spent before each node.
StepBound(n) ==
    CASE n = "sanitizer" -> 0
      [] n = "extractor" -> 3 * answers + 1
      [] n = "mapper"    -> 3 * answers - 1
      [] n = "evaluator" -> 3 * answers
      [] n = "delivery"  -> 3 * answers + 2 + attempts
      [] n = "__end__"   -> RecursionLimit
      [] OTHER           -> 3 * answers + 1

\* The counters, the histories and the statuses agree in every phase.
AccountsInv ==
    /\ RetriesAreAccounted
    /\ DeliveriesAreBounded
    /\ QuotedIffCompleted
    /\ QuoteIsJustified
    /\ ErrorIsExplained
    /\ ReviewIsLastResort
    /\ RecursionOnlyWithoutText
    /\ state.sanitized_text = "empty" => answers = 0

IInv ==
    /\ TypeOK
    /\ PhaseInv
    /\ AccountsInv
    /\ run # "over" => AtNode(next)
    /\ run # "over" /\ state.sanitized_text = "masked" => steps <= StepBound(next)


\* The initial state satisfies the invariant.
LEMMA InvInit == Init => IInv
<1> SUFFICES ASSUME Init PROVE IInv
  OBVIOUS
<1>1. TypeOK
  BY InitialType, RecursionAssumption DEF Init, TypeOK, Phases, Nodes
<1>2. PhaseInv
  BY DEF Init, PhaseInv
<1>3. AccountsInv
  BY SettingsAssumption
     DEF Init, InitialState, AccountsInv, RetriesAreAccounted, ExtractionBudget,
         DeliveriesAreBounded, QuotedIffCompleted, QuoteIsJustified,
         ErrorIsExplained, ReviewIsLastResort, RecursionOnlyWithoutText
<1>4. AtNode(next) /\ steps <= StepBound(next)
  BY DEF Init, AtNode, StepBound
<1> QED BY <1>1, <1>2, <1>3, <1>4 DEF IInv

\* The properties AccountsInv gathers, expanded.
LEMMA Accounts ==
    AccountsInv <=>
        /\ state.retry_count = answers
        /\ answers <= ExtractionBudget
        /\ state.delivery_attempts = attempts
        /\ attempts <= DeliveryMaxAttempts
        /\ quotes = (IF state.status = "completed" THEN 1 ELSE 0)
        /\ quotes = 1 => state.delivery_status = "SUCCESS"
        /\ quotes > 0 => Justified
        /\ state.status = "error" => state.error_detail = "set"
        /\ state.status = "pending_review" =>
              \/ answers = ExtractionBudget
              \/ state.sanitized_text = "empty" /\ MaxRetryCount = 0
        /\ SettingsFitRecursion /\ failure = "recursion" =>
              state.sanitized_text = "empty"
        /\ state.sanitized_text = "empty" => answers = 0
BY DEF AccountsInv, RetriesAreAccounted, DeliveriesAreBounded,
       QuotedIffCompleted, QuoteIsJustified, Justified, ErrorIsExplained,
       ReviewIsLastResort, RecursionOnlyWithoutText

\* With settings that fit, a run with text reaches no node with its budget
\* spent.
LEMMA StepsFit ==
    ASSUME IInv, SettingsFitRecursion, run # "over", next # "__end__",
           state.sanitized_text = "masked"
    PROVE  steps < RecursionLimit
<1> USE SettingsAssumption, RecursionAssumption DEF IInv
<1>1. /\ steps <= StepBound(next)
      /\ answers \in Nat /\ attempts \in Nat /\ steps \in Nat
      /\ answers <= ExtractionBudget
      /\ ExtractionBudget \in Nat \ {0}
  BY Accounts DEF TypeOK, ExtractionBudget
<1>2. CASE next = "extractor"
  <2>1. answers < ExtractionBudget
    BY <1>1, <1>2 DEF AtNode, ExtractionBudget
  <2> QED BY <1>1, <1>2, <2>1 DEF StepBound, SettingsFitRecursion
<1>3. CASE next = "delivery"
  <2>1. attempts < DeliveryMaxAttempts
    BY <1>3 DEF AtNode
  <2> QED BY <1>1, <1>3, <2>1 DEF StepBound, SettingsFitRecursion
<1>4. CASE next \in {"sanitizer", "mapper", "evaluator", "calculator",
                     "hitl_interrupt"}
  BY <1>1, <1>4 DEF StepBound, SettingsFitRecursion
<1> QED BY <1>2, <1>3, <1>4 DEF TypeOK, Nodes

\* Steps that leave the lead and the histories as they are.
LEMMA InvJobSteps ==
    ASSUME IInv,
           Start \/ Resume \/ Interrupt \/ Finish \/ ExceedRecursion
                 \/ Raise \/ FailToMarkError \/ UNCHANGED vars
    PROVE  IInv'
<1> USE SettingsAssumption, RecursionAssumption
<1>1. TypeOK'
  BY TypeInductive DEF IInv, Next, Worker
<1>2. UNCHANGED <<state, next, answers, attempts, quotes>>
  BY DEF Start, Resume, Interrupt, Finish, ExceedRecursion, Raise,
         FailToMarkError, vars
<1>3. PhaseInv'
  BY DEF IInv, TypeOK, Phases, PhaseInv, Start, Resume, Interrupt, Finish,
         ExceedRecursion, Raise, FailToMarkError, NodeMayRaise, vars
<1>4. AccountsInv'
  <2>1. failure' = "recursion" => failure = "recursion" \/ ExceedRecursion
    BY DEF Start, Resume, Interrupt, Finish, ExceedRecursion, Raise,
           FailToMarkError, vars
  <2>2. SettingsFitRecursion /\ ExceedRecursion => state.sanitized_text = "empty"
    BY StepsFit, FieldTypes DEF ExceedRecursion, IInv, TypeOK
  <2> QED BY <1>2, <2>1, <2>2
          DEF IInv, AccountsInv, RetriesAreAccounted, DeliveriesAreBounded,
              QuotedIffCompleted, QuoteIsJustified, ErrorIsExplained,
              ReviewIsLastResort, RecursionOnlyWithoutText
<1>5. run' # "over" => run # "over" /\ AtNode(next)'
  BY <1>2 DEF IInv, AtNode, Undecided, Justified, Start, Resume, Interrupt,
              Finish, ExceedRecursion, Raise, FailToMarkError, vars
<1>6. ASSUME run' # "over", state'.sanitized_text = "masked"
      PROVE  steps' <= StepBound(next)'
  <2>1. steps <= StepBound(next)
    BY <1>2, <1>5, <1>6 DEF IInv
  <2>2. StepBound(next)' = StepBound(next)
    BY <1>2 DEF StepBound
  <2>3. CASE Resume
    BY <1>2, <2>2, <2>3 DEF Resume, IInv, PhaseInv, StepBound, TypeOK
  <2>4. CASE ~Resume
    <3>1. steps' = steps
      BY <2>4 DEF Start, Interrupt, Finish, ExceedRecursion, Raise,
                  FailToMarkError, vars
    <3> QED BY <2>1, <2>2, <3>1
  <2> QED BY <2>3, <2>4
<1> QED BY <1>1, <1>3, <1>4, <1>5, <1>6 DEF IInv

\* Nothing is claimed of a lead that is over but its accounts.
LEMMA InvOver ==
    ASSUME TypeOK', AccountsInv', run' = "over"
    PROVE  IInv'
BY DEF IInv, PhaseInv

\* The crash handler finds no quote delivered: a delivered quote ends the run.
LEMMA InvMarkError ==
    ASSUME IInv, MarkError
    PROVE  IInv'
<1> USE SettingsAssumption
<1>1. TypeOK'
  BY TypeInductive DEF IInv, Next, Worker
<1>2. state.status # "completed"
  <2>1. run = "failing" /\ next # "__end__"
    BY DEF MarkError, IInv, PhaseInv
  <2>2. AtNode(next) /\ next \in Nodes
    BY <2>1 DEF IInv, TypeOK
  <2> QED BY <2>2 DEF AtNode, Nodes, Undecided, InitialState
<1>3. AccountsInv'
  <2>1. UNCHANGED <<failure, answers, attempts, quotes>>
    BY DEF MarkError
  <2>2. quotes = 0
    BY <1>2, Accounts DEF IInv
  <2>3. /\ state'.sanitized_text = state.sanitized_text
        /\ state'.retry_count = state.retry_count
        /\ state'.status = "error"
        /\ state'.error_detail = "set"
        /\ state'.delivery_attempts = state.delivery_attempts
    BY MarkedErrorEffect DEF MarkError, IInv, TypeOK
  <2> QED BY <2>1, <2>2, <2>3
          DEF IInv, AccountsInv, RetriesAreAccounted, DeliveriesAreBounded,
              QuotedIffCompleted, QuoteIsJustified, ErrorIsExplained,
              ReviewIsLastResort, RecursionOnlyWithoutText
<1>4. run' = "over"
  BY DEF MarkError
<1> QED BY <1>1, <1>3, <1>4, InvOver

\* A rejection leaves a lead that was never quoted.
LEMMA InvReject ==
    ASSUME IInv, Reject
    PROVE  IInv'
<1>1. TypeOK'
  BY TypeInductive DEF IInv, Next
<1>2. AccountsInv'
  <2>1. UNCHANGED <<failure, answers, attempts, quotes>>
    BY DEF Reject
  <2>2. quotes = 0
    BY Accounts DEF IInv, Reject
  <2>3. /\ state'.sanitized_text = state.sanitized_text
        /\ state'.retry_count = state.retry_count
        /\ state'.status = "error"
        /\ state'.error_detail = "set"
        /\ state'.delivery_attempts = state.delivery_attempts
    BY RejectedEffect DEF Reject, IInv, TypeOK
  <2> QED BY <2>1, <2>2, <2>3
          DEF IInv, AccountsInv, RetriesAreAccounted, DeliveriesAreBounded,
              QuotedIffCompleted, QuoteIsJustified, ErrorIsExplained,
              ReviewIsLastResort, RecursionOnlyWithoutText
<1>3. run' = "over"
  BY DEF Reject
<1> QED BY <1>1, <1>2, <1>3, InvOver


\* An approval sends the lead to the calculator: its score is now the highest.
LEMMA InvApprove ==
    ASSUME IInv, Approve
    PROVE  IInv'
<1> USE SettingsAssumption
<1>1. TypeOK'
  BY TypeInductive DEF IInv, Next
<1>2. /\ state'.sanitized_text = state.sanitized_text
      /\ state'.confidence_score = Scale
      /\ state'.retry_count = state.retry_count
      /\ state'.human_approved = "True"
      /\ state'.status = "queued"
      /\ state'.delivery_attempts = state.delivery_attempts
  BY ApprovedEffect DEF Approve, IInv, TypeOK
<1>3. next' = "calculator"
  BY <1>2, Edges DEF Approve, RouteAfterEvaluator
<1>4. /\ UNCHANGED <<failure, answers, attempts, quotes, steps>>
      /\ run = "suspended" /\ run' = "resuming"
      /\ quotes = 0
  BY Accounts DEF Approve, IInv
<1>5. next = "hitl_interrupt" /\ AtNode(next)
  BY <1>4 DEF IInv, PhaseInv
<1>6. PhaseInv'
  BY <1>3, <1>4 DEF PhaseInv, IInv
<1>7. AccountsInv'
  BY <1>2, <1>4
     DEF IInv, AccountsInv, RetriesAreAccounted, DeliveriesAreBounded,
         QuotedIffCompleted, QuoteIsJustified, ErrorIsExplained,
         ReviewIsLastResort, RecursionOnlyWithoutText
<1>8. AtNode(next)'
  BY <1>2, <1>3, <1>4, <1>5 DEF AtNode, Justified
<1>9. state'.sanitized_text = "masked" => steps' <= StepBound(next)'
  BY <1>2, <1>3, <1>4, <1>5 DEF StepBound, IInv
<1> QED BY <1>1, <1>6, <1>7, <1>8, <1>9 DEF IInv

\* The phase of a run that takes a superstep.
LEMMA InvSuperstep ==
    ASSUME IInv, TypeOK', NEW n, NEW s, Superstep(n, s),
           AccountsInv', AtNode(next)',
           state'.sanitized_text = "masked" => steps + 1 <= StepBound(next)'
    PROVE  IInv'
BY DEF IInv, PhaseInv, Superstep

\* Sanitizer: nothing has happened yet.
LEMMA InvSanitize ==
    ASSUME IInv, Sanitize
    PROVE  IInv'
<1>1. PICK s \in SanitizerNode(state) : Superstep("sanitizer", s)
  BY DEF Sanitize
<1>2. TypeOK'
  BY TypeInductive DEF IInv, Next, Worker
<1>3. /\ UNCHANGED <<failure, answers, attempts, quotes>>
      /\ state' = s /\ next = "sanitizer" /\ next' = "extractor"
  BY <1>1, Edges DEF Sanitize, Superstep
<1>4. /\ state = InitialState /\ answers = 0 /\ attempts = 0 /\ quotes = 0
      /\ failure = "none"
  <2>1. state = InitialState /\ failure = "none"
    BY <1>1, <1>3 DEF IInv, AtNode, PhaseInv, Superstep
  <2> QED BY <2>1, Accounts DEF IInv, InitialState
<1>5. /\ \/ s.status = "processing"
         \/ /\ s.status = "error"
            /\ s.error_detail = "set"
            /\ s.sanitized_text = "empty"
      /\ s.retry_count = 0
      /\ s.human_approved = "None"
      /\ s.delivery_attempts = 0
  BY <1>4, InitialType, SanitizerEffect DEF InitialState
<1>6. AccountsInv'
  BY <1>3, <1>4, <1>5, SettingsAssumption
     DEF AccountsInv, RetriesAreAccounted, DeliveriesAreBounded,
         QuotedIffCompleted, QuoteIsJustified, ErrorIsExplained,
         ReviewIsLastResort, RecursionOnlyWithoutText, ExtractionBudget
<1>7. AtNode(next)'
  BY <1>3, <1>4, <1>5 DEF AtNode, Undecided
<1>8. state'.sanitized_text = "masked" => steps + 1 <= StepBound(next)'
  <2>1. steps = 0
    BY <1>1, <1>3 DEF IInv, AtNode, Superstep
  <2> QED BY <1>3, <1>4, <2>1 DEF StepBound
<1> QED BY <1>1, <1>2, <1>6, <1>7, <1>8, InvSuperstep


\* Extractor: a run with text pays one answer of its budget and three steps.
LEMMA InvExtract ==
    ASSUME IInv, Extract
    PROVE  IInv'
<1> USE SettingsAssumption
<1>1. PICK s \in ExtractorNode(state) : Superstep("extractor", s)
  BY DEF Extract
<1>2. TypeOK'
  BY TypeInductive DEF IInv, Next, Worker
<1>3. /\ UNCHANGED <<failure, attempts, quotes>>
      /\ answers' = IF CallsLLM(state) THEN answers + 1 ELSE answers
      /\ state' = s /\ next = "extractor" /\ next' = "mapper"
  BY <1>1, Edges DEF Extract, Superstep
<1>4. /\ Undecided /\ quotes = 0 /\ failure = "none"
      /\ answers = 0 \/ answers < MaxRetryCount
      /\ answers \in Nat /\ answers = state.retry_count
  <2>1. AtNode("extractor") /\ failure = "none"
    BY <1>1, <1>3 DEF IInv, PhaseInv, Superstep
  <2>2. Undecided /\ (answers = 0 \/ answers < MaxRetryCount)
    BY <2>1 DEF AtNode
  <2> QED BY <2>1, <2>2, Accounts DEF IInv, TypeOK, Undecided
<1>5. /\ s.sanitized_text = state.sanitized_text
      /\ s.sanitized_text \in {"empty", "masked"}
      /\ CallsLLM(state) => s.retry_count = state.retry_count + 1
      /\ ~CallsLLM(state) => /\ s.retry_count = state.retry_count
                             /\ s.extracted_services = 0
                             /\ s.error_detail = "set"
      /\ s.human_approved = state.human_approved
      /\ s.status = state.status
      /\ s.delivery_attempts = state.delivery_attempts
  BY ExtractorEffect, FieldTypes DEF IInv, TypeOK
<1>6. CallsLLM(state) <=> s.sanitized_text = "masked"
  BY <1>5 DEF CallsLLM
<1>7. AccountsInv'
  <2>1. s.retry_count = answers' /\ answers' <= ExtractionBudget
    <3>1. answers < ExtractionBudget /\ ExtractionBudget \in Nat
      BY <1>4 DEF ExtractionBudget
    <3> QED BY <1>3, <1>4, <1>5, <3>1
  <2>2. attempts = 0 /\ s.delivery_attempts = 0
    BY <1>4, <1>5, Accounts DEF Undecided, IInv
  <2>3. s.status = "error" => s.error_detail = "set"
    BY <1>4, <1>5, <1>6 DEF Undecided
  <2>4. s.sanitized_text = "empty" => answers' = 0
    BY <1>3, <1>5, <1>6, Accounts DEF IInv
  <2> QED BY <1>3, <1>4, <1>5, <2>1, <2>2, <2>3, <2>4
          DEF AccountsInv, RetriesAreAccounted, DeliveriesAreBounded,
              QuotedIffCompleted, QuoteIsJustified, ErrorIsExplained,
              ReviewIsLastResort, RecursionOnlyWithoutText, Undecided
<1>8. AtNode(next)'
  BY <1>3, <1>4, <1>5, <1>6 DEF AtNode, Undecided
<1>9. state'.sanitized_text = "masked" => steps + 1 <= StepBound(next)'
  <2>1. state.sanitized_text = "masked" => steps <= 3 * answers + 1
    BY <1>1, <1>3 DEF IInv, StepBound, Superstep
  <2>2. steps \in Nat
    BY DEF IInv, TypeOK
  <2> QED BY <1>3, <1>4, <1>5, <1>6, <2>1, <2>2 DEF StepBound
<1> QED BY <1>1, <1>2, <1>7, <1>8, <1>9, InvSuperstep

\* Mapper: it clears no error that a missing text left.
LEMMA InvMap ==
    ASSUME IInv, Map
    PROVE  IInv'
<1>1. PICK s \in MapperNode(state) : Superstep("mapper", s)
  BY DEF Map
<1>2. TypeOK'
  BY TypeInductive DEF IInv, Next, Worker
<1>3. /\ UNCHANGED <<failure, answers, attempts, quotes>>
      /\ state' = s /\ next = "mapper" /\ next' = "evaluator"
      /\ run = "running"
  BY <1>1, Edges DEF Map, Superstep
<1>4. AtNode("mapper") /\ failure = "none"
  BY <1>3 DEF IInv, PhaseInv
<1>5. /\ Undecided
      /\ state.sanitized_text = "empty" => state.extracted_services = 0
      /\ state.sanitized_text = "masked" => answers > 0
  BY <1>4 DEF AtNode
<1>6. /\ s.sanitized_text = state.sanitized_text
      /\ s.extracted_services = state.extracted_services
      /\ s.retry_count = state.retry_count
      /\ state.extracted_services = 0 => s.error_detail = state.error_detail
      /\ s.human_approved = state.human_approved
      /\ s.status = state.status
      /\ s.delivery_attempts = state.delivery_attempts
  BY MapperEffect DEF IInv, TypeOK
<1>7. AccountsInv'
  <2>1. quotes = 0
    BY <1>5, Accounts DEF IInv, Undecided
  <2> QED BY <1>3, <1>4, <1>5, <1>6, <2>1
          DEF IInv, AccountsInv, RetriesAreAccounted, DeliveriesAreBounded,
              QuotedIffCompleted, QuoteIsJustified, ErrorIsExplained,
              ReviewIsLastResort, RecursionOnlyWithoutText, Undecided
<1>8. AtNode(next)'
  BY <1>3, <1>5, <1>6 DEF AtNode, Undecided
<1>9. state'.sanitized_text = "masked" => steps + 1 <= StepBound(next)'
  <2>1. state.sanitized_text = "masked" => steps <= 3 * answers - 1
    BY <1>3 DEF IInv, StepBound
  <2>2. steps \in Nat /\ answers \in Nat
    BY DEF IInv, TypeOK
  <2> QED BY <1>3, <1>6, <2>1, <2>2 DEF StepBound
<1> QED BY <1>1, <1>2, <1>7, <1>8, <1>9, InvSuperstep

\* Evaluator: its own test of the review condition is the router's.
LEMMA InvEvaluate ==
    ASSUME IInv, Evaluate
    PROVE  IInv'
<1> USE SettingsAssumption
<1>1. PICK s \in EvaluatorNode(state) : Superstep("evaluator", s)
  BY DEF Evaluate
<1>2. TypeOK'
  BY TypeInductive DEF IInv, Next, Worker
<1>3. /\ UNCHANGED <<failure, answers, attempts, quotes>>
      /\ state' = s /\ next = "evaluator" /\ next' = RouteAfterEvaluator(s)
      /\ run = "running"
  BY <1>1, Edges DEF Evaluate, Superstep
<1>4. AtNode("evaluator") /\ failure = "none"
  BY <1>3 DEF IInv, PhaseInv
<1>5. /\ Undecided
      /\ state.sanitized_text = "masked" => answers > 0
  BY <1>4 DEF AtNode
<1>6. /\ s.sanitized_text = state.sanitized_text
      /\ s.confidence_score = Score(state)
      /\ Score(s) = Score(state)
      /\ s.retry_count = state.retry_count
      /\ s.human_approved = state.human_approved
      /\ s.status = IF HeadingToHitl(Score(state), state)
                    THEN "pending_review" ELSE state.status
      /\ s.error_detail = state.error_detail
      /\ s.delivery_attempts = state.delivery_attempts
      /\ Score(state) \in Int /\ EvaluatorThreshold \in Int
      /\ state.retry_count = answers /\ answers \in Nat
      /\ state.sanitized_text \in {"empty", "masked"}
  BY EvaluatorEffect, ScoreType, FieldTypes, Accounts DEF IInv, TypeOK
<1>7. AccountsInv'
  <2>1. quotes = 0
    BY <1>5, Accounts DEF IInv, Undecided
  <2>2. s.status = "pending_review" =>
            \/ answers = ExtractionBudget
            \/ s.sanitized_text = "empty" /\ MaxRetryCount = 0
    <3> SUFFICES ASSUME s.status = "pending_review"
                 PROVE  \/ answers = ExtractionBudget
                        \/ s.sanitized_text = "empty" /\ MaxRetryCount = 0
      OBVIOUS
    <3>1. answers >= MaxRetryCount
      BY <1>5, <1>6 DEF HeadingToHitl, Undecided
    <3>2. answers <= ExtractionBudget
      BY Accounts DEF IInv
    <3>3. state.sanitized_text = "empty" => answers = 0
      BY Accounts DEF IInv
    <3> QED BY <1>5, <1>6, <3>1, <3>2, <3>3 DEF ExtractionBudget
  <2> QED BY <1>3, <1>4, <1>5, <1>6, <2>1, <2>2
          DEF IInv, AccountsInv, RetriesAreAccounted, DeliveriesAreBounded,
              QuotedIffCompleted, QuoteIsJustified, ErrorIsExplained,
              ReviewIsLastResort, RecursionOnlyWithoutText, Undecided
<1>8. AtNode(next)'
  <2>1. CASE Score(state) >= EvaluatorThreshold
    <3>1. next' = "calculator" /\ s.status = state.status
      BY <1>3, <1>6, <2>1 DEF RouteAfterEvaluator, HeadingToHitl
    <3>2. state.status = "error" => EvaluatorThreshold = 0
      <4>1. state.status = "error" => Score(state) = 0
        BY <1>4, <1>5 DEF AtNode, Undecided, Score
      <4> QED BY <1>6, <2>1, <4>1
    <3> QED BY <1>3, <1>5, <1>6, <2>1, <3>1, <3>2 DEF AtNode, Justified, Undecided
  <2>2. CASE Score(state) < EvaluatorThreshold /\ answers < MaxRetryCount
    <3>1. next' = "extractor" /\ s.status = state.status
      BY <1>3, <1>6, <2>2 DEF RouteAfterEvaluator, HeadingToHitl
    <3> QED BY <1>3, <1>5, <1>6, <2>2, <3>1 DEF AtNode, Undecided
  <2>3. CASE Score(state) < EvaluatorThreshold /\ answers >= MaxRetryCount
    <3>1. next' = "hitl_interrupt" /\ s.status = "pending_review"
      BY <1>3, <1>6, <2>3 DEF RouteAfterEvaluator, HeadingToHitl
    <3> QED BY <1>3, <1>5, <1>6, <2>3, <3>1 DEF AtNode, Undecided
  <2> QED BY <1>6, <2>1, <2>2, <2>3
<1>9. state'.sanitized_text = "masked" => steps + 1 <= StepBound(next)'
  <2>1. state.sanitized_text = "masked" => steps <= 3 * answers
    BY <1>3 DEF IInv, StepBound
  <2>2. steps \in Nat
    BY DEF IInv, TypeOK
  <2>3. next' \in {"calculator", "extractor", "hitl_interrupt"}
    BY <1>3, Edges
  <2> QED BY <1>3, <1>6, <2>1, <2>2, <2>3 DEF StepBound
<1> QED BY <1>1, <1>2, <1>7, <1>8, <1>9, InvSuperstep

\* Calculator: the evidence or the approval stays.
LEMMA InvCalculate ==
    ASSUME IInv, Calculate
    PROVE  IInv'
<1>1. PICK s \in CalculatorNode(state) : Superstep("calculator", s)
  BY DEF Calculate
<1>2. TypeOK'
  BY TypeInductive DEF IInv, Next, Worker
<1>3. /\ UNCHANGED <<failure, answers, attempts, quotes>>
      /\ state' = s /\ next = "calculator" /\ next' = "delivery"
      /\ run = "running"
  BY <1>1, Edges DEF Calculate, Superstep
<1>4. AtNode("calculator") /\ failure = "none"
  BY <1>3 DEF IInv, PhaseInv
<1>5. Justified /\ attempts = 0 /\ state.status \in {"processing", "error", "queued"}
  BY <1>4 DEF AtNode
<1>6. /\ s.sanitized_text = state.sanitized_text
      /\ Score(s) = Score(state)
      /\ s.retry_count = state.retry_count
      /\ s.human_approved = state.human_approved
      /\ s.status = "processing"
      /\ s.delivery_attempts = state.delivery_attempts
  BY CalculatorEffect DEF IInv, TypeOK
<1>7. AccountsInv'
  <2>1. quotes = 0
    BY <1>5, Accounts DEF IInv
  <2> QED BY <1>3, <1>4, <1>6, <2>1
          DEF IInv, AccountsInv, RetriesAreAccounted, DeliveriesAreBounded,
              QuotedIffCompleted, QuoteIsJustified, ErrorIsExplained,
              ReviewIsLastResort, RecursionOnlyWithoutText
<1>8. AtNode(next)'
  BY <1>3, <1>5, <1>6, SettingsAssumption DEF AtNode, Justified
<1>9. state'.sanitized_text = "masked" => steps + 1 <= StepBound(next)'
  <2>1. state.sanitized_text = "masked" => steps <= 3 * answers + 1
    BY <1>3 DEF IInv, StepBound
  <2>2. steps \in Nat /\ answers \in Nat
    BY DEF IInv, TypeOK
  <2> QED BY <1>3, <1>5, <1>6, <2>1, <2>2 DEF StepBound
<1> QED BY <1>1, <1>2, <1>7, <1>8, <1>9, InvSuperstep


\* Delivery: an accepted quote completes the lead and ends the run.
LEMMA InvDeliver ==
    ASSUME IInv, Deliver
    PROVE  IInv'
<1> USE SettingsAssumption
<1>1. PICK s \in DeliveryNode(state) :
          /\ Superstep("delivery", s)
          /\ attempts' = attempts + 1
          /\ answers' = answers
          /\ \/ s = DeliverySucceeded(state) /\ quotes' = quotes + 1
             \/ s = DeliveryFailed(state) /\ quotes' = quotes
  BY DEF Deliver, DeliveryNode
<1>2. TypeOK'
  BY TypeInductive DEF IInv, Next, Worker
<1>3. /\ UNCHANGED failure
      /\ state' = s /\ next = "delivery" /\ next' = RouteAfterDelivery(s)
      /\ run = "running"
  BY <1>1, Edges DEF Superstep
<1>4. AtNode("delivery") /\ failure = "none"
  BY <1>3 DEF IInv, PhaseInv
<1>5. Justified /\ attempts < DeliveryMaxAttempts /\ state.status = "processing"
  BY <1>4 DEF AtNode
<1>6. /\ s.sanitized_text = state.sanitized_text
      /\ Score(s) = Score(state)
      /\ s.retry_count = state.retry_count
      /\ s.human_approved = state.human_approved
      /\ s.error_detail = state.error_detail
      /\ s.delivery_attempts = state.delivery_attempts + 1
      /\ \/ /\ s.status = "completed" /\ s.delivery_status = "SUCCESS"
            /\ quotes' = quotes + 1
         \/ /\ s.status = "processing" /\ s.delivery_status = "FAILED"
            /\ quotes' = quotes
  BY <1>1, <1>5, DeliveryEffect DEF IInv, TypeOK
<1>7. quotes = 0 /\ state.delivery_attempts = attempts /\ attempts \in Nat
  BY <1>5, Accounts DEF IInv, TypeOK
<1>8. AccountsInv'
  <2>1. Justified'
    BY <1>3, <1>5, <1>6 DEF Justified
  <2>2. /\ s.delivery_attempts = attempts' /\ attempts' <= DeliveryMaxAttempts
    BY <1>1, <1>5, <1>6, <1>7
  <2> QED BY <1>1, <1>3, <1>4, <1>6, <1>7, <2>1, <2>2
          DEF IInv, AccountsInv, RetriesAreAccounted, DeliveriesAreBounded,
              QuotedIffCompleted, QuoteIsJustified, Justified, ErrorIsExplained,
              ReviewIsLastResort, RecursionOnlyWithoutText
<1>9. AtNode(next)'
  <2>1. Justified'
    BY <1>3, <1>5, <1>6 DEF Justified
  <2>2. CASE next' = "delivery"
    <3>1. s.delivery_status # "SUCCESS" /\ attempts' < DeliveryMaxAttempts
      BY <1>1, <1>3, <1>6, <1>7, <2>2 DEF RouteAfterDelivery
    <3> QED BY <1>3, <1>6, <2>1, <2>2, <3>1 DEF AtNode
  <2>3. CASE next' = "__end__"
    BY <1>3, <1>6, <2>1, <2>3 DEF AtNode
  <2> QED BY <1>3, <2>2, <2>3, Edges
<1>10. state'.sanitized_text = "masked" => steps + 1 <= StepBound(next)'
  <2>1. state.sanitized_text = "masked" => steps <= 3 * answers + 2 + attempts
    BY <1>3 DEF IInv, StepBound
  <2>2. steps \in Nat /\ answers \in Nat /\ attempts \in Nat
    BY DEF IInv, TypeOK
  <2>3. next' \in {"delivery", "__end__"}
    BY <1>3, Edges
  <2>4. steps + 1 <= RecursionLimit
    BY <1>1, <2>2, RecursionAssumption DEF Superstep
  <2> QED BY <1>1, <1>3, <1>6, <2>1, <2>2, <2>3, <2>4 DEF StepBound
<1> QED BY <1>1, <1>2, <1>8, <1>9, <1>10, InvSuperstep

\* The invariant is inductive.
LEMMA InvInductive == IInv /\ [Next]_vars => IInv'
<1> SUFFICES ASSUME IInv, [Next]_vars
             PROVE  IInv'
  OBVIOUS
<1>1. CASE Start \/ Resume \/ Interrupt \/ Finish \/ ExceedRecursion
                 \/ Raise \/ FailToMarkError \/ UNCHANGED vars
  BY <1>1, InvJobSteps
<1>2. CASE Sanitize
  BY <1>2, InvSanitize
<1>3. CASE Extract
  BY <1>3, InvExtract
<1>4. CASE Map
  BY <1>4, InvMap
<1>5. CASE Evaluate
  BY <1>5, InvEvaluate
<1>6. CASE Calculate
  BY <1>6, InvCalculate
<1>7. CASE Deliver
  BY <1>7, InvDeliver
<1>8. CASE MarkError
  BY <1>8, InvMarkError
<1>9. CASE Approve
  BY <1>9, InvApprove
<1>10. CASE Reject
  BY <1>10, InvReject
<1> QED BY <1>1, <1>2, <1>3, <1>4, <1>5, <1>6, <1>7, <1>8, <1>9, <1>10
        DEF Next, Worker, Terminated

\* The invariant holds in every reachable state.
LEMMA Invariance == Spec => []IInv
BY InvInit, InvInductive, PTL DEF Spec

-----------------------------------------------------------------------------
(* The safety properties, for every value of the settings. *)

\* A lead reads "pending_review" while it runs or waits exactly when the
\* router has sent it to the interrupt: the evaluator and the router, which
\* each test the condition (evaluator.py:108, graph.py:91-100), never disagree.
THEOREM ReviewAgrees == Spec => []ReviewAgreesWithRouting
<1>1. IInv => ReviewAgreesWithRouting
  <2> SUFFICES ASSUME IInv, run \in {"running", "suspended"}
               PROVE  state.status = "pending_review" <=> next = "hitl_interrupt"
    BY DEF ReviewAgreesWithRouting
  <2>1. AtNode(next) /\ next \in Nodes \cup {"__end__"}
    BY DEF IInv, TypeOK
  <2> QED BY <2>1 DEF AtNode, Nodes, Undecided, InitialState
<1> QED BY <1>1, Invariance, PTL

\* A lead is "completed" exactly when the tenant's system accepted one quote
\* for it (delivery.py:128-135, graph.py:118-120).
THEOREM QuotedExactlyOnce == Spec => []QuotedIffCompleted
<1>1. IInv => QuotedIffCompleted
  BY DEF IInv, AccountsInv
<1> QED BY <1>1, Invariance, PTL

\* No quote without evidence or approval (graph.py:91-92, routes.py:281-288).
THEOREM QuotesAreJustified == Spec => []QuoteIsJustified
<1>1. IInv => QuoteIsJustified
  BY DEF IInv, AccountsInv
<1> QED BY <1>1, Invariance, PTL

\* The retry counter counts the LLM answers and bounds them
\* (extractor.py:204-209, 271-275, graph.py:95).
THEOREM RetriesAccounted == Spec => []RetriesAreAccounted
<1>1. IInv => RetriesAreAccounted
  BY DEF IInv, AccountsInv
<1> QED BY <1>1, Invariance, PTL

\* The adapter is called at most delivery_max_attempts times per lead, its
\* suspension and resumption included (graph.py:122-138).
THEOREM DeliveriesBounded == Spec => []DeliveriesAreBounded
<1>1. IInv => DeliveriesAreBounded
  BY DEF IInv, AccountsInv
<1> QED BY <1>1, Invariance, PTL

\* A lead is offered for review only when its extractions are spent
\* (evaluator.py:108-110).
THEOREM ReviewLastResort == Spec => []ReviewIsLastResort
<1>1. IInv => ReviewIsLastResort
  BY DEF IInv, AccountsInv
<1> QED BY <1>1, Invariance, PTL

\* A lead in "error" carries an error_detail, whichever of the sanitizer, the
\* operator and the crash handler set it.
THEOREM ErrorsExplained == Spec => []ErrorIsExplained
<1>1. IInv => ErrorIsExplained
  BY DEF IInv, AccountsInv
<1> QED BY <1>1, Invariance, PTL

\* If the settings fit LangGraph's recursion limit, that limit ends only runs
\* whose text is empty (extractor.py:204-209 spends no retry on them).
THEOREM RecursionNeedsEmptyText == Spec => []RecursionOnlyWithoutText
<1>1. IInv => RecursionOnlyWithoutText
  BY DEF IInv, AccountsInv
<1> QED BY <1>1, Invariance, PTL


-----------------------------------------------------------------------------
(* The graph implements the lifecycle. *)

\* Each step of the graph is a step of the lifecycle or leaves what the client
\* reads as it is, if the settings allow a retry and ask for some evidence.
LEMMA LifecycleStep ==
    ASSUME MaxRetryCount > 0, EvaluatorThreshold > 0,
           IInv, [Next]_vars
    PROVE  [Lifecycle!Next]_(Lifecycle!lifecycleVars)
<1> USE SettingsAssumption DEF ObservedStatus, Lifecycle!lifecycleVars
<1>0. state \in AgentState /\ run \in Phases /\ next \in Nodes \cup {"__end__"}
  BY DEF IInv, TypeOK
<1>1. CASE Start
  <2>1. state.status = "processing"
    BY <1>1 DEF Start, IInv, PhaseInv, AtNode, InitialState
  <2>2. Lifecycle!Process
    BY <1>1, <2>1 DEF Start, Lifecycle!Process
  <2> QED BY <2>2 DEF Lifecycle!Next
<1>2. CASE Resume \/ Interrupt \/ Finish \/ ExceedRecursion \/ Raise
            \/ FailToMarkError \/ UNCHANGED vars
  BY <1>2 DEF Resume, Interrupt, Finish, ExceedRecursion, Raise,
              FailToMarkError, vars
<1>3. CASE Sanitize
  <2>1. PICK s \in SanitizerNode(state) : Superstep("sanitizer", s)
    BY <1>3 DEF Sanitize
  <2>2. state.status = "processing" /\ run = "running" /\ run' = "running"
    BY <2>1 DEF Superstep, IInv, AtNode, InitialState
  <2>3. state'.status \in {"processing", "error"} /\ quotes' = quotes
    BY <1>0, <1>3, <2>1, SanitizerEffect DEF Superstep, Sanitize
  <2>4. quotes = 0
    BY <2>2, Accounts DEF IInv
  <2> QED BY <2>2, <2>3, <2>4 DEF Lifecycle!Fail, Lifecycle!Next
<1>4. CASE Extract
  BY <1>0, <1>4, ExtractorEffect DEF Extract, Superstep
<1>5. CASE Map
  BY <1>0, <1>5, MapperEffect DEF Map, Superstep
<1>6. CASE Evaluate
  <2>1. PICK s \in EvaluatorNode(state) : Superstep("evaluator", s)
    BY <1>6 DEF Evaluate
  <2>2. run = "running" /\ run' = "running" /\ state' = s /\ quotes' = quotes
        /\ AtNode("evaluator")
    BY <1>6, <2>1 DEF Superstep, Evaluate, IInv
  <2>3. s.status = IF HeadingToHitl(Score(state), state)
                   THEN "pending_review" ELSE state.status
    BY <1>0, EvaluatorEffect
  <2>4. CASE HeadingToHitl(Score(state), state)
    <3>1. answers > 0
      BY <2>4, Accounts DEF HeadingToHitl, IInv, TypeOK
    <3>2. state.sanitized_text # "empty"
      BY <3>1, Accounts DEF IInv
    <3>3. state.status = "processing"
      BY <2>2, <3>2 DEF AtNode, Undecided
    <3>4. Lifecycle!AskForReview
      BY <2>2, <2>3, <2>4, <3>3 DEF Lifecycle!AskForReview
    <3> QED BY <3>4 DEF Lifecycle!Next
  <2>5. CASE ~HeadingToHitl(Score(state), state)
    BY <2>2, <2>3, <2>5
  <2> QED BY <2>4, <2>5
<1>7. CASE Calculate
  <2>1. PICK s \in CalculatorNode(state) : Superstep("calculator", s)
    BY <1>7 DEF Calculate
  <2>2. run = "running" /\ run' = "running" /\ state' = s /\ quotes' = quotes
        /\ state.status \in {"processing", "queued"}
    BY <1>7, <2>1 DEF Superstep, Calculate, IInv, AtNode
  <2>3. s.status = "processing"
    BY <1>0, CalculatorEffect
  <2> QED BY <2>2, <2>3 DEF Lifecycle!Process, Lifecycle!Next
<1>8. CASE Deliver
  <2>1. /\ run = "running" /\ run' = "running"
        /\ state.status = "processing"
    BY <1>8 DEF Deliver, Superstep, IInv, AtNode
  <2>2. quotes = 0
    BY <2>1, Accounts DEF IInv
  <2>3. \/ state'.status = "completed" /\ quotes' = 1
        \/ state'.status = state.status /\ quotes' = quotes
    BY <1>0, <1>8, <2>2, DeliveryEffect DEF Deliver, Superstep, DeliveryNode
  <2> QED BY <2>1, <2>2, <2>3 DEF Lifecycle!Complete, Lifecycle!Next
<1>9. CASE MarkError
  <2>1. /\ run = "failing" /\ run' = "over" /\ quotes' = quotes
        /\ state'.status = "error"
    BY <1>0, <1>9, MarkedErrorEffect DEF MarkError
  <2>2. next \in Nodes /\ AtNode(next)
    BY <1>0, <2>1 DEF IInv, PhaseInv
  <2>3. state.status # "completed"
    BY <2>2 DEF AtNode, Nodes, Undecided, InitialState
  <2>4. quotes = 0 /\ state.status \in Statuses
    BY <1>0, <2>3, Accounts, FieldTypes DEF IInv
  <2> QED BY <2>1, <2>3, <2>4 DEF Lifecycle!Fail, Lifecycle!Next, Statuses
<1>10. CASE Approve
  BY <1>0, <1>10, ApprovedEffect DEF Approve, Lifecycle!Approve, Lifecycle!Next
<1>11. CASE Reject
  <2>1. quotes = 0
    BY <1>11, Accounts DEF IInv, Reject
  <2> QED BY <1>0, <1>11, <2>1, RejectedEffect
          DEF Reject, Lifecycle!Fail, Lifecycle!Next
<1> QED BY <1>1, <1>2, <1>3, <1>4, <1>5, <1>6, <1>7, <1>8, <1>9, <1>10, <1>11
        DEF Next, Worker, Terminated

\* With at least one retry and a positive threshold, the graph with its
\* retries, suspension, resumption and crash handler implements the lifecycle
\* a client is promised (state.py:70-71): one quote at most, "completed" only
\* with it, nothing out of "completed" or "error".
THEOREM GraphImplementsLifecycle ==
    ASSUME MaxRetryCount > 0, EvaluatorThreshold > 0
    PROVE  Spec => ImplementsLifecycle
<1>1. Init => Lifecycle!Init
  BY DEF Init, Lifecycle!Init, ObservedStatus
<1>2. IInv /\ [Next]_vars => [Lifecycle!Next]_(Lifecycle!lifecycleVars)
  BY LifecycleStep
<1> QED BY <1>1, <1>2, Invariance, PTL
        DEF Spec, ImplementsLifecycle, Lifecycle!Spec

-----------------------------------------------------------------------------
(* Every step uses up work *)

\* The steps a job may still take in phase r, after n supersteps.
JobWork(r, n) ==
    CASE r \in {"queued", "resuming"} -> RecursionLimit + 3
      [] r = "running"                -> RecursionLimit - n + 2
      [] r = "failing"                -> 1
      [] r \in {"suspended", "over"}  -> 0

\* One more job may follow, as long as no operator has decided.
LeadWork ==
    IF run # "over" /\ state.human_approved = "None"
    THEN JobWork(run, steps) + RecursionLimit + 4
    ELSE JobWork(run, steps)

LEMMA JobWorkOf ==
    ASSUME NEW r \in Phases, NEW n \in 0..RecursionLimit
    PROVE  /\ JobWork(r, n) \in Nat
           /\ r \in {"queued", "resuming"} => JobWork(r, n) = RecursionLimit + 3
           /\ r = "running" => JobWork(r, n) = RecursionLimit - n + 2
           /\ r = "failing" => JobWork(r, n) = 1
           /\ r \in {"suspended", "over"} => JobWork(r, n) = 0
BY RecursionAssumption DEF JobWork, Phases

\* A node does not decide in the operator's place.
LEMMA NodesDecideNothing ==
    ASSUME NEW s \in AgentState,
           NEW r \in SanitizerNode(s) \cup ExtractorNode(s) \cup MapperNode(s)
                        \cup EvaluatorNode(s) \cup CalculatorNode(s)
                        \cup DeliveryNode(s)
    PROVE  r.human_approved = s.human_approved
BY SanitizerEffect, ExtractorEffect, MapperEffect, EvaluatorEffect,
   CalculatorEffect, DeliveryEffect

LEMMA WorkUsedUp ==
    ASSUME IInv, Next
    PROVE  UNCHANGED vars \/ LeadWork' < LeadWork
<1>1. TypeOK /\ TypeOK'
  BY TypeInductive DEF IInv
<1>0. /\ run \in Phases /\ run' \in Phases
      /\ steps \in 0..RecursionLimit /\ steps' \in 0..RecursionLimit
      /\ RecursionLimit \in Nat
  BY <1>1, RecursionAssumption DEF TypeOK
<1>2. state \in AgentState /\ state.human_approved \in {"None", "True", "False"}
  BY <1>1, FieldTypes DEF TypeOK
<1>3. CASE \E n, s : Superstep(n, s) /\ s.human_approved = state.human_approved
  <2>1. /\ run = "running" /\ run' = "running" /\ steps' = steps + 1
        /\ state'.human_approved = state.human_approved
    BY <1>3 DEF Superstep
  <2>2. JobWork(run', steps') < JobWork(run, steps) /\ JobWork(run, steps) \in Nat /\ JobWork(run', steps') \in Nat
    BY <1>0, <2>1, JobWorkOf
  <2> QED BY <1>0, <2>1, <2>2, JobWorkOf DEF LeadWork
<1>4. CASE Sanitize \/ Extract \/ Map \/ Evaluate \/ Calculate \/ Deliver
  <2>1. \E n : \E s \in SanitizerNode(state) \cup ExtractorNode(state)
                     \cup MapperNode(state) \cup EvaluatorNode(state)
                     \cup CalculatorNode(state) \cup DeliveryNode(state) :
            Superstep(n, s)
    BY <1>4 DEF Sanitize, Extract, Map, Evaluate, Calculate, Deliver, DeliveryNode
  <2> QED BY <1>2, <1>3, <2>1, NodesDecideNothing
<1>5. CASE Start \/ Resume \/ Interrupt \/ Finish \/ ExceedRecursion \/ Raise
                 \/ FailToMarkError
  <2>1. state' = state
    BY <1>5 DEF Start, Resume, Interrupt, Finish, ExceedRecursion, Raise,
                FailToMarkError
  <2>2. JobWork(run', steps') < JobWork(run, steps) /\ JobWork(run, steps) \in Nat /\ JobWork(run', steps') \in Nat /\ run # "over"
    BY <1>0, <1>5, JobWorkOf
       DEF Start, Resume, Interrupt, Finish, ExceedRecursion, Raise,
           FailToMarkError
  <2> QED BY <1>0, <2>1, <2>2, JobWorkOf DEF LeadWork
<1>6. CASE MarkError
  <2>1. run = "failing" /\ run' = "over"
    BY <1>6 DEF MarkError
  <2>2. JobWork(run, steps) = 1 /\ JobWork(run', steps') = 0
    BY <1>0, <2>1, JobWorkOf
  <2> QED BY <1>0, <2>1, <2>2, JobWorkOf DEF LeadWork
<1>7. CASE Approve \/ Reject
  <2>1. run = "suspended" /\ run' \in {"resuming", "over"}
        /\ (run' = "over" \/ state'.human_approved = "True")
    BY <1>2, <1>7, ApprovedEffect DEF Approve, Reject
  <2>2. state.human_approved = "None"
    BY <2>1 DEF IInv, PhaseInv, AtNode
  <2>3. JobWork(run, steps) = 0 /\ JobWork(run', steps') \in {0, RecursionLimit + 3}
    BY <1>0, <2>1, JobWorkOf
  <2>4. LeadWork = RecursionLimit + 4
    BY <1>0, <2>1, <2>2, <2>3, JobWorkOf DEF LeadWork
  <2>5. LeadWork' = JobWork(run', steps')
    BY <2>1 DEF LeadWork
  <2> QED BY <1>0, <2>3, <2>4, <2>5, JobWorkOf
<1> QED BY <1>4, <1>5, <1>6, <1>7 DEF Next, Worker, Terminated

\* Every step of a lead, of its jobs, its crash handler and its operator, uses
\* up some of an amount of work that its first job determines: no loop of
\* retries or deliveries escapes the recursion limit, and a lead is suspended
\* once at most (graph.py:91-138, routes.py:263-301).
THEOREM GraphHalts == Spec => [][LeadWork' < LeadWork /\ LeadWork \in Nat]_vars
<1>1. IInv /\ [Next]_vars => [LeadWork' < LeadWork /\ LeadWork \in Nat]_vars
  <2>1. IInv => LeadWork \in Nat
    BY JobWorkOf, RecursionAssumption DEF IInv, TypeOK, LeadWork
  <2> QED BY <2>1, WorkUsedUp
<1> QED BY <1>1, Invariance, PTL DEF Spec

=============================================================================
