----------------------------- MODULE LeadService -----------------------------
(***************************************************************************)
(* The lead qualification service around the graph: the API process       *)
(* (POST /lead, POST /lead/{thread_id}/approve), the ARQ queue in Redis,  *)
(* the worker that runs up to MaxJobs jobs at once, and the checkpoints   *)
(* in Postgres through which they all meet.  LangGraph loads a checkpoint *)
(* when a job starts, works on its own copy and writes it back after each *)
(* superstep; the API updates the stored checkpoint in place.  Nothing    *)
(* locks a thread.                                                         *)
(*                                                                         *)
(* The recursion limit, counted in QualificationGraph, appears here as    *)
(* its one effect: a run without text raises.                              *)
(***************************************************************************)
EXTENDS AgentNodes, Sequences, FiniteSets

CONSTANTS
    Threads,          \* thread_ids, one per lead
    Operators,        \* clients that review leads, each one request at a time
    MaxJobs,          \* ARQ_MAX_JOBS
    MaxSubmissions,   \* bound: POST /lead calls per thread
    MaxCrashes,       \* bound: restarts of the worker
    Faults            \* which failures of the surroundings happen

FaultKinds == {"timeout", "worker_crash", "api_crash", "checkpointer"}

\* WorkerSettings leaves ARQ's default: a job is started at most five times,
\* which so many restarts do not use up.
ArqMaxTries == 5

ASSUME ServiceAssumption ==
    /\ MaxJobs \in Nat \ {0}
    /\ MaxSubmissions \in Nat
    /\ MaxCrashes \in Nat
    /\ MaxCrashes < ArqMaxTries
    /\ MaxRetryCount > 0
    /\ Faults \subseteq FaultKinds

VARIABLES
    checkpoint,   \* Postgres: what a thread's last checkpoint holds
    jobs,         \* Redis and the worker: the jobs ever enqueued, in order
    requests,     \* API: the approve request each operator has in flight
    quotes,       \* history: quotes the adapter accepted, per thread
    rejected,     \* history: threads an operator was told are rejected
    crashes       \* worker restarts so far

vars == <<checkpoint, jobs, requests, quotes, rejected, crashes>>

-----------------------------------------------------------------------------
(* State *)

\* last is the node whose edge aupdate_state evaluates again, next the node
\* an invocation without input starts from.
Checkpoints ==
    [saved : BOOLEAN,
     state : AgentState,
     last  : Nodes \cup {"none"},
     next  : Nodes \cup {"none", "__end__"}]

NoCheckpoint ==
    [saved |-> FALSE, state |-> InitialState, last |-> "none", next |-> "none"]

\* queued: in Redis; running: about to run "next"; saving: "last" has run,
\* its checkpoint is not written; failing: in the except block; over: the
\* task returned, raised or was cancelled.
Phases == {"queued", "running", "saving", "failing", "over"}

JobKinds == {"run_qualification_task", "run_qualification_task_resume"}

JobRecords ==
    [kind   : JobKinds,
     thread : Threads,
     phase  : Phases,
     state  : AgentState,
     last   : Nodes \cup {"none"},
     next   : Nodes \cup {"none", "__end__"}]

NewJob(kind, t) ==
    [kind   |-> kind,
     thread |-> t,
     phase  |-> "queued",
     state  |-> InitialState,
     last   |-> "none",
     next   |-> "none"]

\* checked: the handler saw pending_review; updated: the approval is written,
\* the resume job is not enqueued yet.
Requests ==
    [step     : {"checked", "updated"},
     thread   : Threads,
     approved : BOOLEAN]

NoRequest == [step |-> "idle"]

TypeOK ==
    /\ checkpoint \in [Threads -> Checkpoints]
    /\ jobs \in Seq(JobRecords)
    /\ requests \in [Operators -> Requests \cup {NoRequest}]
    /\ quotes \in [Threads -> Nat]
    /\ rejected \subseteq Threads
    /\ crashes \in 0..MaxCrashes

Init ==
    /\ checkpoint = [t \in Threads |-> NoCheckpoint]
    /\ jobs = <<>>
    /\ requests = [o \in Operators |-> NoRequest]
    /\ quotes = [t \in Threads |-> 0]
    /\ rejected = {}
    /\ crashes = 0

JobIds == 1..Len(jobs)

JobsOf(t) == {j \in JobIds : jobs[j].thread = t}

InWorker(j) == jobs[j].phase \in {"running", "saving", "failing"}

Submissions(t) ==
    Cardinality({j \in JobsOf(t) : jobs[j].kind = "run_qualification_task"})

\* aupdate_state: on the checkpoint as it is now, whoever wrote it, with the
\* outgoing edge of its last node evaluated on the new values.
UpdateState(t, s) ==
    checkpoint' = [checkpoint EXCEPT ![t].state = s,
                                     ![t].next  = Edge(checkpoint[t].last, s)]

-----------------------------------------------------------------------------
(* POST /lead: no checkpoint, no deduplication. *)

SubmitLead(t) ==
    /\ Submissions(t) < MaxSubmissions
    /\ jobs' = Append(jobs, NewJob("run_qualification_task", t))
    /\ UNCHANGED <<checkpoint, requests, quotes, rejected, crashes>>

-----------------------------------------------------------------------------
(* The worker *)

\* Mutant of CanStart: a job that ended keeps its slot.
CanStartInFreshSlot(j) ==
    /\ jobs[j].phase = "queued"
    /\ \A k \in JobIds : jobs[k].phase = "queued" => j <= k
    /\ Cardinality({k \in JobIds : jobs[k].phase # "queued"}) < MaxJobs

\* ARQ takes jobs in the order they were enqueued while it has a free slot.
CanStart(j) ==
    /\ jobs[j].phase = "queued"
    /\ \A k \in JobIds : jobs[k].phase = "queued" => j <= k
    /\ Cardinality({k \in JobIds : InWorker(k)}) < MaxJobs

SetPhase(j, phase) == jobs' = [jobs EXCEPT ![j].phase = phase]

\* ainvoke with a new input restarts the thread from the entry point and
\* checkpoints the input first.
StartQualification(j) ==
    LET c == checkpoint[jobs[j].thread]
    IN  /\ CanStart(j)
        /\ jobs[j].kind = "run_qualification_task"
        /\ jobs' = [jobs EXCEPT ![j].phase = "running",
                                ![j].state = InitialState,
                                ![j].last  = c.last,
                                ![j].next  = "sanitizer"]
        /\ checkpoint' = [checkpoint EXCEPT
                            ![jobs[j].thread] = [saved |-> TRUE,
                                                 state |-> InitialState,
                                                 last  |-> c.last,
                                                 next  |-> "sanitizer"]]
        /\ UNCHANGED <<requests, quotes, rejected, crashes>>

\* Mutant of StartResume: the resumed run starts from a fresh state.
StartResumeAfresh(j) ==
    /\ CanStart(j)
    /\ jobs[j].kind = "run_qualification_task_resume"
    /\ jobs' = [jobs EXCEPT ![j].phase = "running",
                            ![j].next  = "sanitizer"]
    /\ UNCHANGED <<checkpoint, requests, quotes, rejected, crashes>>

\* ainvoke without input goes on from the stored checkpoint.
StartResume(j) ==
    LET c == checkpoint[jobs[j].thread]
    IN  /\ CanStart(j)
        /\ jobs[j].kind = "run_qualification_task_resume"
        /\ jobs' = [jobs EXCEPT ![j].phase = "running",
                                ![j].state = c.state,
                                ![j].last  = c.last,
                                ![j].next  = c.next]
        /\ UNCHANGED <<checkpoint, requests, quotes, rejected, crashes>>

\* LangGraph refuses Command(resume=None).
RefuseResume(j) ==
    /\ CanStart(j)
    /\ jobs[j].kind = "run_qualification_task_resume"
    /\ SetPhase(j, "failing")
    /\ UNCHANGED <<checkpoint, requests, quotes, rejected, crashes>>

\* A run without text would loop to the recursion limit.
RunsInVain(j) ==
    jobs[j].next = "extractor" /\ ~CallsLLM(jobs[j].state)

\* The node returned s; LangGraph has yet to checkpoint it.
Return(j, s) ==
    jobs' = [jobs EXCEPT ![j].phase = "saving",
                         ![j].state = s,
                         ![j].last  = jobs[j].next,
                         ![j].next  = Edge(jobs[j].next, s)]

RunNode(j) ==
    /\ jobs[j].phase = "running"
    /\ jobs[j].next \in Nodes \ {"delivery", "hitl_interrupt"}
    /\ ~RunsInVain(j)
    /\ \E s \in NodeReturns(jobs[j].next, jobs[j].state) : Return(j, s)
    /\ UNCHANGED <<checkpoint, requests, quotes, rejected, crashes>>

RunDelivery(j) ==
    /\ jobs[j].phase = "running"
    /\ jobs[j].next = "delivery"
    /\ \/ /\ Return(j, DeliverySucceeded(jobs[j].state))
          /\ quotes' = [quotes EXCEPT ![jobs[j].thread] = @ + 1]
       \/ /\ Return(j, DeliveryFailed(jobs[j].state))
          /\ UNCHANGED quotes
    /\ UNCHANGED <<checkpoint, requests, rejected, crashes>>

SaveCheckpoint(j) ==
    /\ jobs[j].phase = "saving"
    /\ SetPhase(j, "running")
    /\ checkpoint' = [checkpoint EXCEPT
                        ![jobs[j].thread] = [saved |-> TRUE,
                                             state |-> jobs[j].state,
                                             last  |-> jobs[j].last,
                                             next  |-> jobs[j].next]]
    /\ UNCHANGED <<requests, quotes, rejected, crashes>>

\* The graph is at END, or interrupt() suspends it: the task returns.
EndJob(j) ==
    /\ jobs[j].phase = "running"
    /\ jobs[j].next \in {"__end__", "hitl_interrupt"}
    /\ SetPhase(j, "over")
    /\ UNCHANGED <<checkpoint, requests, quotes, rejected, crashes>>

Raise(j) ==
    /\ \/ /\ jobs[j].phase = "running"
          /\ NodeMayRaise(jobs[j].next, jobs[j].state) \/ RunsInVain(j)
       \/ jobs[j].phase = "saving" /\ "checkpointer" \in Faults
    /\ SetPhase(j, "failing")
    /\ UNCHANGED <<checkpoint, requests, quotes, rejected, crashes>>

\* _update_state_on_crash works on the stored checkpoint, not on the copy of
\* the run that raised.
MarkError(j) ==
    LET t == jobs[j].thread
    IN  /\ jobs[j].phase = "failing"
        /\ checkpoint[t].last # "none"
        /\ SetPhase(j, "over")
        /\ UpdateState(t, MarkedError(checkpoint[t].state))
        /\ UNCHANGED <<requests, quotes, rejected, crashes>>

\* The update is lost with Postgres, or refused by LangGraph because no node
\* of the thread was ever checkpointed; the secondary exception is swallowed.
FailToMarkError(j) ==
    /\ jobs[j].phase = "failing"
    /\ \/ "checkpointer" \in Faults
       \/ checkpoint[jobs[j].thread].last = "none"
    /\ SetPhase(j, "over")
    /\ UNCHANGED <<checkpoint, requests, quotes, rejected, crashes>>

\* ARQ cancels a job after job_timeout.  CancelledError is no Exception: the
\* except blocks of the tasks do not run.
TimeOut(j) ==
    /\ "timeout" \in Faults
    /\ InWorker(j)
    /\ SetPhase(j, "over")
    /\ UNCHANGED <<checkpoint, requests, quotes, rejected, crashes>>

\* Mutant of CrashWorker: the jobs of a dead worker are not run again.
CrashWorkerDropsJobs ==
    /\ "worker_crash" \in Faults
    /\ crashes < MaxCrashes
    /\ \E j \in JobIds : InWorker(j)
    /\ crashes' = crashes + 1
    /\ jobs' = [j \in JobIds |->
                  IF InWorker(j) THEN [jobs[j] EXCEPT !.phase = "over"]
                  ELSE jobs[j]]
    /\ UNCHANGED <<checkpoint, requests, quotes, rejected>>

\* The worker process dies or is redeployed; ARQ runs its jobs again.
CrashWorker ==
    /\ "worker_crash" \in Faults
    /\ crashes < MaxCrashes
    /\ \E j \in JobIds : InWorker(j)
    /\ crashes' = crashes + 1
    /\ jobs' = [j \in JobIds |->
                  IF InWorker(j) THEN [jobs[j] EXCEPT !.phase = "queued"]
                  ELSE jobs[j]]
    /\ UNCHANGED <<checkpoint, requests, quotes, rejected>>

-----------------------------------------------------------------------------
(* POST /lead/{thread_id}/approve, split where the handler awaits.  The    *)
(* refusals (404, 403, 409) change nothing.                                 *)

\* Mutant of CheckReview: a lead that has ended can be reviewed again.
CheckAnyEnd(o, t, approved) ==
    /\ requests[o] = NoRequest
    /\ checkpoint[t].saved
    /\ checkpoint[t].state.status \in TerminalStatuses
    /\ requests' = [requests EXCEPT ![o] = [step     |-> "checked",
                                            thread   |-> t,
                                            approved |-> approved]]
    /\ UNCHANGED <<checkpoint, jobs, quotes, rejected, crashes>>

CheckReview(o, t, approved) ==
    /\ requests[o] = NoRequest
    /\ checkpoint[t].saved
    /\ checkpoint[t].state.status = "pending_review"
    /\ requests' = [requests EXCEPT ![o] = [step     |-> "checked",
                                            thread   |-> t,
                                            approved |-> approved]]
    /\ UNCHANGED <<checkpoint, jobs, quotes, rejected, crashes>>

WriteRejection(o) ==
    LET t == requests[o].thread
    IN  /\ requests[o].step = "checked"
        /\ ~requests[o].approved
        /\ UpdateState(t, Rejected(checkpoint[t].state))
        /\ requests' = [requests EXCEPT ![o] = NoRequest]
        /\ rejected' = rejected \cup {t}
        /\ UNCHANGED <<jobs, quotes, crashes>>

\* Mutant of WriteApproval: the resume job is forgotten.
WriteApprovalOnly(o) ==
    LET t == requests[o].thread
    IN  /\ requests[o].step = "checked"
        /\ requests[o].approved
        /\ UpdateState(t, Approved(checkpoint[t].state))
        /\ requests' = [requests EXCEPT ![o] = NoRequest]
        /\ UNCHANGED <<jobs, quotes, rejected, crashes>>

WriteApproval(o) ==
    LET t == requests[o].thread
    IN  /\ requests[o].step = "checked"
        /\ requests[o].approved
        /\ UpdateState(t, Approved(checkpoint[t].state))
        /\ requests' = [requests EXCEPT ![o].step = "updated"]
        /\ UNCHANGED <<jobs, quotes, rejected, crashes>>

\* Mutant of EnqueueResume: the job is enqueued twice.
EnqueueResumeTwice(o) ==
    LET job == NewJob("run_qualification_task_resume", requests[o].thread)
    IN  /\ requests[o].step = "updated"
        /\ jobs' = jobs \o <<job, job>>
        /\ requests' = [requests EXCEPT ![o] = NoRequest]
        /\ UNCHANGED <<checkpoint, quotes, rejected, crashes>>

EnqueueResume(o) ==
    /\ requests[o].step = "updated"
    /\ jobs' = Append(jobs, NewJob("run_qualification_task_resume",
                                   requests[o].thread))
    /\ requests' = [requests EXCEPT ![o] = NoRequest]
    /\ UNCHANGED <<checkpoint, quotes, rejected, crashes>>

\* The API process dies, or Redis refuses the job: the request is lost where
\* it stands.
LoseRequest(o) ==
    /\ "api_crash" \in Faults
    /\ requests[o] # NoRequest
    /\ requests' = [requests EXCEPT ![o] = NoRequest]
    /\ UNCHANGED <<checkpoint, jobs, quotes, rejected, crashes>>

-----------------------------------------------------------------------------

JobStep(j) ==
    \/ StartQualification(j) \/ StartResume(j) \/ RefuseResume(j)
    \/ RunNode(j) \/ RunDelivery(j) \/ SaveCheckpoint(j) \/ EndJob(j)
    \/ Raise(j) \/ MarkError(j) \/ FailToMarkError(j)

WorkerStep == \E j \in JobIds : JobStep(j)

ApiStep == \E o \in Operators :
    WriteRejection(o) \/ WriteApproval(o) \/ EnqueueResume(o)

FaultStep ==
    \/ CrashWorker
    \/ \E j \in JobIds : TimeOut(j)
    \/ \E o \in Operators : LoseRequest(o)

ClientStep ==
    \/ \E t \in Threads : SubmitLead(t)
    \/ \E o \in Operators, t \in Threads, approved \in BOOLEAN :
          CheckReview(o, t, approved)

Next == WorkerStep \/ ApiStep \/ FaultStep \/ ClientStep

\* A live worker runs its jobs and a live API finishes the requests it
\* accepted; clients owe nothing and faults are never obliged to happen.
Spec == Init /\ [][Next]_vars /\ WF_vars(WorkerStep) /\ WF_vars(ApiStep)

-----------------------------------------------------------------------------
(* Properties *)

\* What GET /status/{thread_id} answers.
ObservedStatus(t) ==
    IF checkpoint[t].saved THEN checkpoint[t].state.status ELSE "queued"

\* The adapter refused the quote delivery_max_attempts times and the graph
\* ended with the status it had.
DeliveryAbandoned(t) ==
    /\ checkpoint[t].state.delivery_status = "FAILED"
    /\ checkpoint[t].state.delivery_attempts >= DeliveryMaxAttempts

\* Somebody will still move the thread: a job that is not over, or a request
\* that has yet to enqueue one.
InHand(t) ==
    \/ \E j \in JobsOf(t) : jobs[j].phase # "over"
    \/ \E o \in Operators : /\ requests[o].step = "updated"
                            /\ requests[o].thread = t

\* A lead whose client has to keep polling is in somebody's hands, or its
\* delivery was abandoned (tasks.py:84-86): no interleaving of the approval's
\* two writes, the suspension and the resume job loses it.
NothingStranded ==
    \A t \in Threads :
        checkpoint[t].saved /\ ObservedStatus(t) \notin TerminalStatuses =>
            InHand(t) \/ DeliveryAbandoned(t)

\* Two jobs of one thread are in the worker together only while the older
\* one sits at the interrupt, where it writes nothing any more: the
\* checkpoint has one writer although nothing locks it.
OneWriterPerThread ==
    \A j, k \in JobIds :
        /\ jobs[j].thread = jobs[k].thread
        /\ j < k
        /\ InWorker(j) /\ InWorker(k)
        => jobs[j].phase = "running" /\ jobs[j].next = "hitl_interrupt"

\* An operator's decision, once in the checkpoint, is never overwritten by a
\* run that works on an older copy (test_hitl_persistence.py:387-393).
DecisionSurvives ==
    [][\A t \in Threads :
         checkpoint[t].state.human_approved # "None" =>
            checkpoint'[t].state.human_approved
                = checkpoint[t].state.human_approved]_checkpoint

\* Per thread, status and quotes follow the promised lifecycle.
Lifecycle(t) == INSTANCE LeadLifecycle
                    WITH status <- ObservedStatus(t), quotes <- quotes[t]

ImplementsLifecycle ==
    /\ \A t \in Threads : Lifecycle(t)!Init
    /\ [][\A t \in Threads : [Lifecycle(t)!Next]_(Lifecycle(t)!lifecycleVars)]_vars

\* Every lead accepted with 202, and every approved one, comes to a status on
\* which the client stops polling, or its delivery is abandoned.
LeadsAreAnswered ==
    \A t \in Threads :
        InHand(t) ~> \/ ObservedStatus(t) \in TerminalStatuses
                     \/ DeliveryAbandoned(t)

\* Under any fault a client reads "completed" only after the tenant's system
\* accepted a quote.
CompletedIsQuoted ==
    \A t \in Threads : ObservedStatus(t) = "completed" => quotes[t] > 0

\* Under any fault each job hands over at most one quote, and a restart of
\* the worker adds at most one per slot: neither overlapping jobs, timeouts,
\* lost requests nor failing checkpoints multiply them (graph.py:118-120).
QuotesAreAccounted ==
    \A t \in Threads :
        quotes[t] <= Cardinality(JobsOf(t)) + MaxJobs * crashes

\* Job j has a step to take: a free slot, a node that answers or raises, an
\* interrupt or an end to return from, a checkpoint or an error to write.
Ready(j) ==
    \/ CanStart(j)
    \/ /\ jobs[j].phase = "running"
       /\ \/ jobs[j].next \in {"delivery", "hitl_interrupt", "__end__"}
          \/ RunsInVain(j)
          \/ /\ jobs[j].next \in Nodes \ {"delivery", "hitl_interrupt"}
             /\ NodeReturns(jobs[j].next, jobs[j].state) # {}
    \/ jobs[j].phase \in {"saving", "failing"}

\* Whatever fails, the worker is never stuck on its jobs: slots come free, a
\* resumed run finds a node to go on from, and no job waits for another one.
WorkerNeverStuck ==
    (\E j \in JobIds : jobs[j].phase # "over") => \E j \in JobIds : Ready(j)

\* test_hitl_persistence.py:407-408: a rejected lead is not executed again
\* and its error status lasts.  One operator at a time keeps to it; two do
\* not, since check and write of a decision are two steps (routes.py:263).
RejectionIsFinal ==
    \A t \in rejected : ObservedStatus(t) = "error" /\ quotes[t] = 0

=============================================================================
