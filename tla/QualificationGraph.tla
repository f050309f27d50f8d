------------------------- MODULE QualificationGraph -------------------------
(***************************************************************************)
(* One lead through the qualification graph: the run started by           *)
(* run_qualification_task, its retries, its suspension for review, the    *)
(* operator's decision, the resumed run and the crash handler, one after  *)
(* the other (LeadService lets them overlap).  A step is one LangGraph    *)
(* superstep; LangGraph writes a checkpoint after each, so "state" is     *)
(* also what GET /status reads.                                            *)
(***************************************************************************)
EXTENDS AgentNodes

CONSTANT
    RecursionLimit        \* LangGraph's supersteps per invocation (default 25)

ASSUME RecursionAssumption == RecursionLimit \in Nat \ {0}

VARIABLES
    state,      \* the AgentState of the thread
    next,       \* the node the graph runs next, or "__end__"
    steps,      \* supersteps of the current invocation
    run,        \* where the job is, see Phases
    failure,    \* why the invocation raised
    answers,    \* history: LLM answers obtained
    attempts,   \* history: calls to adapter.deliver
    quotes      \* history: quotes the adapter accepted

vars == <<state, next, steps, run, failure, answers, attempts, quotes>>

\* queued: the job waits in Redis; running: inside ainvoke; suspended: ainvoke
\* returned at the interrupt; resuming: approved, the resume job waits;
\* failing: inside the except block of the task; over: nothing left to do.
Phases == {"queued", "running", "suspended", "resuming", "failing", "over"}

TypeOK ==
    /\ state \in AgentState
    /\ next \in Nodes \cup {"__end__"}
    /\ steps \in 0..RecursionLimit
    /\ run \in Phases
    /\ failure \in {"none", "raised", "recursion"}
    /\ answers \in Nat
    /\ attempts \in Nat
    /\ quotes \in Nat

Init ==
    /\ state = InitialState
    /\ next = "sanitizer"
    /\ steps = 0
    /\ run = "queued"
    /\ failure = "none"
    /\ answers = 0
    /\ attempts = 0
    /\ quotes = 0

-----------------------------------------------------------------------------
(* The worker *)

\* run_qualification_task calls ainvoke with a fresh state.
Start ==
    /\ run = "queued"
    /\ run' = "running"
    /\ UNCHANGED <<state, next, steps, failure, answers, attempts, quotes>>

\* run_qualification_task_resume calls ainvoke on the checkpoint as it is.
Resume ==
    /\ run = "resuming"
    /\ run' = "running"
    /\ steps' = 0
    /\ UNCHANGED <<state, next, failure, answers, attempts, quotes>>

\* The superstep of a node that returns s.
Superstep(node, s) ==
    /\ run = "running"
    /\ next = node
    /\ steps < RecursionLimit
    /\ state' = s
    /\ next' = Edge(node, s)
    /\ steps' = steps + 1
    /\ UNCHANGED <<run, failure>>

Sanitize ==
    /\ \E s \in SanitizerNode(state) : Superstep("sanitizer", s)
    /\ UNCHANGED <<answers, attempts, quotes>>

Extract ==
    /\ \E s \in ExtractorNode(state) : Superstep("extractor", s)
    /\ answers' = IF CallsLLM(state) THEN answers + 1 ELSE answers
    /\ UNCHANGED <<attempts, quotes>>

Map ==
    /\ \E s \in MapperNode(state) : Superstep("mapper", s)
    /\ UNCHANGED <<answers, attempts, quotes>>

Evaluate ==
    /\ \E s \in EvaluatorNode(state) : Superstep("evaluator", s)
    /\ UNCHANGED <<answers, attempts, quotes>>

Calculate ==
    /\ \E s \in CalculatorNode(state) : Superstep("calculator", s)
    /\ UNCHANGED <<answers, attempts, quotes>>

Deliver ==
    \/ /\ Superstep("delivery", DeliverySucceeded(state))
       /\ attempts' = attempts + 1
       /\ quotes' = quotes + 1
       /\ UNCHANGED answers
    \/ /\ Superstep("delivery", DeliveryFailed(state))
       /\ attempts' = attempts + 1
       /\ UNCHANGED <<answers, quotes>>

\* interrupt() suspends the graph inside the node: no update, same next.
Interrupt ==
    /\ run = "running"
    /\ next = "hitl_interrupt"
    /\ steps < RecursionLimit
    /\ run' = "suspended"
    /\ UNCHANGED <<state, next, steps, failure, answers, attempts, quotes>>

\* The graph reached END: the task returns.
Finish ==
    /\ run = "running"
    /\ next = "__end__"
    /\ run' = "over"
    /\ UNCHANGED <<state, next, steps, failure, answers, attempts, quotes>>

\* A node is left when the budget is spent: LangGraph raises
\* GraphRecursionError.
ExceedRecursion ==
    /\ run = "running"
    /\ next # "__end__"
    /\ steps = RecursionLimit
    /\ run' = "failing"
    /\ failure' = "recursion"
    /\ UNCHANGED <<state, next, steps, answers, attempts, quotes>>

\* A node raises, or LangGraph refuses Command(resume=None).
Raise ==
    /\ \/ run = "running" /\ steps < RecursionLimit /\ NodeMayRaise(next, state)
       \/ run = "resuming"
    /\ run' = "failing"
    /\ failure' = "raised"
    /\ UNCHANGED <<state, next, steps, answers, attempts, quotes>>

\* Mutant of MarkError: the failed job is enqueued again.
MarkErrorRequeues ==
    /\ run = "failing"
    /\ run' = "queued"
    /\ state' = InitialState
    /\ next' = "sanitizer"
    /\ steps' = 0
    /\ failure' = "none"
    /\ UNCHANGED <<answers, attempts, quotes>>

\* _update_state_on_crash, and the task re-raises.
MarkError ==
    /\ run = "failing"
    /\ run' = "over"
    /\ state' = MarkedError(state)
    /\ UNCHANGED <<next, steps, failure, answers, attempts, quotes>>

\* The update itself fails and is swallowed.
FailToMarkError ==
    /\ run = "failing"
    /\ run' = "over"
    /\ UNCHANGED <<state, next, steps, failure, answers, attempts, quotes>>

-----------------------------------------------------------------------------
(* The operator, POST /lead/{thread_id}/approve.  aupdate_state re-routes  *)
(* from the last node that completed, the evaluator.                       *)

Approve ==
    /\ run = "suspended"
    /\ state.status = "pending_review"
    /\ state' = Approved(state)
    /\ next' = Edge("evaluator", Approved(state))
    /\ run' = "resuming"
    /\ UNCHANGED <<steps, failure, answers, attempts, quotes>>

Reject ==
    /\ run = "suspended"
    /\ state.status = "pending_review"
    /\ state' = Rejected(state)
    /\ next' = Edge("evaluator", Rejected(state))
    /\ run' = "over"
    /\ UNCHANGED <<steps, failure, answers, attempts, quotes>>

-----------------------------------------------------------------------------

Worker ==
    \/ Start \/ Resume
    \/ Sanitize \/ Extract \/ Map \/ Evaluate \/ Calculate \/ Deliver
    \/ Interrupt \/ Finish
    \/ ExceedRecursion \/ Raise
    \/ MarkError \/ FailToMarkError

\* The lead's last job has returned; anything else that cannot move is a
\* deadlock.
Terminated ==
    /\ run = "over"
    /\ UNCHANGED vars

Next == Worker \/ Approve \/ Reject \/ Terminated

\* The ARQ worker keeps running its job; the operator owes nothing.
Spec == Init /\ [][Next]_vars /\ WF_vars(Worker)

-----------------------------------------------------------------------------
(* Safety *)

\* Extractions a run may pay for: the first one is not a retry but counts
\* as one (extractor.py:273), and it happens even when no retry is allowed.
ExtractionBudget == IF MaxRetryCount = 0 THEN 1 ELSE MaxRetryCount

\* The settings leave room for the longest run: sanitizer, the extractions
\* with their mapping and scoring, calculator, every delivery attempt.
SettingsFitRecursion ==
    3 * ExtractionBudget + DeliveryMaxAttempts + 2 <= RecursionLimit

\* The evaluator announces "pending_review" exactly when the router, which
\* tests the same condition again on its own, sends the graph to the
\* interrupt: otherwise a lead would sit suspended with a status that
\* /approve refuses, or be offered for review while it still runs
\* (evaluator.py:108-133, graph.py:91-100, routes.py:263).
ReviewAgreesWithRouting ==
    run \in {"running", "suspended"} =>
        (state.status = "pending_review" <=> next = "hitl_interrupt")

\* The tenant's system has accepted a quote exactly when the lead reads
\* "completed", and then exactly one (delivery.py:128-135,
\* graph.py:118-120): no retry, resume or crash handler breaks the pairing.
QuotedIffCompleted ==
    /\ quotes = (IF state.status = "completed" THEN 1 ELSE 0)
    /\ quotes = 1 => state.delivery_status = "SUCCESS"

\* A quote goes out only on evidence, the score of the very services it
\* lists, or on an operator's approval; a rejected lead is never quoted.
QuoteIsJustified ==
    quotes > 0 =>
        \/ state.human_approved = "True"
        \/ /\ state.human_approved = "None"
           /\ Score(state) >= EvaluatorThreshold

\* retry_count is the number of LLM answers paid for, and stays in budget
\* (state.py:104, extractor.py:204-209,271-275, graph.py:95).
RetriesAreAccounted ==
    /\ state.retry_count = answers
    /\ answers <= ExtractionBudget

\* A lead reaches the operator only after every extraction it was entitled
\* to, unless there was no text to extract from.
ReviewIsLastResort ==
    state.status = "pending_review" =>
        \/ answers = ExtractionBudget
        \/ state.sanitized_text = "empty" /\ MaxRetryCount = 0

\* delivery_attempts counts the adapter calls of the lead, across the
\* suspension too, and stops at the limit (graph.py:122-138).
DeliveriesAreBounded ==
    /\ state.delivery_attempts = attempts
    /\ attempts <= DeliveryMaxAttempts

\* With settings that fit, LangGraph's recursion limit ends a run only when
\* the sanitizer left no text: the retry counter, which an empty text does
\* not advance, is then the one thing that never stops the loop
\* (extractor.py:204-209).
RecursionOnlyWithoutText ==
    SettingsFitRecursion /\ failure = "recursion" =>
        state.sanitized_text = "empty"

\* A client that reads "error" always has an error_detail to show.
ErrorIsExplained ==
    state.status = "error" => state.error_detail = "set"

(* Refinement: with at least one retry and a threshold above zero          *)
(* configured, what the client reads follows the promised lifecycle        *)
(* (state.py:70-71): in particular nothing leaves "completed" or "error",  *)
(* although after a sanitizer error the graph runs on.                      *)
ObservedStatus == IF run = "queued" THEN "queued" ELSE state.status

Lifecycle == INSTANCE LeadLifecycle
                WITH status <- ObservedStatus, quotes <- quotes

ImplementsLifecycle == Lifecycle!Spec

-----------------------------------------------------------------------------
(* Liveness *)

\* Whatever the LLM, the catalogue and the adapter answer, a job ends: it
\* returns, or suspends for review.
JobsEnd == run \in {"queued", "running", "resuming"} ~> run \in {"suspended", "over"}

-----------------------------------------------------------------------------
(* What the documents say and the code does not do *)

\* README.md:234 and locustfile.py:40: a job that ran ends in a status on
\* which the client stops polling.  An abandoned delivery ends the graph and
\* leaves "processing".
EndedJobsAreTerminal ==
    run = "over" /\ failure = "none" => state.status \in TerminalStatuses

=============================================================================
