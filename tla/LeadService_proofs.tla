------------------------- MODULE LeadService_proofs -------------------------
(***************************************************************************)
(* Theorems about LeadService.  The first part holds under any fault, for *)
(* any number of leads, operators, submissions and slots: types, and what *)
(* clients and tenants are told of quotes.  The second part is about a    *)
(* service without faults, whose leads are submitted once and reviewed by *)
(* one operator: there every lead has one holder at a time, and from that *)
(* follow the single writer, the operator's decision and the lifecycle.   *)
(***************************************************************************)
EXTENDS LeadService, AgentNodes_proofs, FiniteSetTheorems, TLAPS

USE SettingsAssumption, ServiceAssumption

-----------------------------------------------------------------------------
(* Records and sequences *)

\* Every edge of a node leads to a node or to the end.
LEMMA EdgeType ==
    ASSUME NEW n \in Nodes, NEW s
    PROVE  Edge(n, s) \in Nodes \cup {"__end__"}
<1>1. Edge("hitl_interrupt", s) = "__end__"
  BY DEF Edge, StaticEdges
<1> QED BY <1>1, Edges DEF Nodes

\* The nodes that RunNode runs keep the operator's decision and do not
\* complete a lead.
LEMMA NodeEffect ==
    ASSUME NEW n \in Nodes \ {"delivery", "hitl_interrupt"},
           NEW s \in AgentState, NEW r \in NodeReturns(n, s)
    PROVE  /\ r \in AgentState
           /\ r.human_approved = s.human_approved
           /\ r.status = "completed" => s.status = "completed"
<1>1. n \in {"sanitizer", "extractor", "mapper", "evaluator", "calculator"}
  BY DEF Nodes
<1>2. CASE n = "sanitizer"
  BY <1>2, SanitizerEffect DEF NodeReturns
<1>3. CASE n = "extractor"
  BY <1>3, ExtractorEffect DEF NodeReturns
<1>4. CASE n = "mapper"
  BY <1>4, MapperEffect DEF NodeReturns
<1>5. CASE n = "evaluator"
  BY <1>5, EvaluatorEffect DEF NodeReturns
<1>6. CASE n = "calculator"
  BY <1>6, CalculatorEffect DEF NodeReturns
<1> QED BY <1>1, <1>2, <1>3, <1>4, <1>5, <1>6

\* Of the two outcomes of a delivery only the accepted one completes a lead,
\* and the graph then ends (graph.py:118-120).
LEMMA DeliveryOutcomes ==
    ASSUME NEW s \in AgentState
    PROVE  /\ DeliverySucceeded(s) \in AgentState
           /\ DeliveryFailed(s) \in AgentState
           /\ DeliverySucceeded(s).human_approved = s.human_approved
           /\ DeliveryFailed(s).human_approved = s.human_approved
           /\ DeliverySucceeded(s).status = "completed"
           /\ DeliveryFailed(s).status = s.status
           /\ DeliveryFailed(s).delivery_status = "FAILED"
           /\ Edge("delivery", DeliverySucceeded(s)) = "__end__"
<1>1. DeliverySucceeded(s).delivery_status = "SUCCESS"
  BY DeliveryEffect DEF DeliveryNode
<1>2. Edge("delivery", DeliverySucceeded(s)) = "__end__"
  BY <1>1, Edges DEF RouteAfterDelivery
<1> QED BY <1>2, DeliveryEffect DEF DeliveryNode

\* The crash handler's update (tasks.py:97-105).
LEMMA UpdateEffects ==
    ASSUME NEW s \in AgentState
    PROVE  /\ MarkedError(s) \in AgentState
           /\ MarkedError(s).status = "error"
           /\ MarkedError(s).human_approved = s.human_approved
           /\ Approved(s) \in AgentState
           /\ Approved(s).status = "queued"
           /\ Rejected(s) \in AgentState
           /\ Rejected(s).status = "error"
<1>1. /\ MarkedError(s).status = "error"
      /\ MarkedError(s).human_approved = s.human_approved
  BY DEF MarkedError, AgentState
<1> QED BY <1>1, MarkedErrorEffect, ApprovedEffect, RejectedEffect

\* A job put in the place of job j.
Replaced(j, r) ==
    /\ jobs' \in Seq(JobRecords)
    /\ Len(jobs') = Len(jobs)
    /\ \A k \in JobIds : jobs'[k] = IF k = j THEN r ELSE jobs[k]

LEMMA JobReplaced ==
    ASSUME jobs \in Seq(JobRecords), NEW j \in JobIds, NEW r \in JobRecords,
           jobs' = [jobs EXCEPT ![j] = r]
    PROVE  Replaced(j, r)
BY DEF JobIds, Replaced

LEMMA JobTypes ==
    ASSUME jobs \in Seq(JobRecords), NEW j \in JobIds
    PROVE  /\ jobs[j] \in JobRecords
           /\ jobs[j].kind \in JobKinds
           /\ jobs[j].thread \in Threads
           /\ jobs[j].phase \in Phases
           /\ jobs[j].state \in AgentState
           /\ jobs[j].last \in Nodes \cup {"none"}
           /\ jobs[j].next \in Nodes \cup {"none", "__end__"}
<1>1. jobs[j] \in JobRecords
  BY DEF JobIds
<1> QED BY <1>1 DEF JobRecords

\* Changing the phase alone.
LEMMA PhaseSet ==
    ASSUME jobs \in Seq(JobRecords), NEW j \in JobIds, NEW phase \in Phases,
           SetPhase(j, phase)
    PROVE  /\ Replaced(j, [jobs[j] EXCEPT !.phase = phase])
           /\ [jobs[j] EXCEPT !.phase = phase].thread = jobs[j].thread
           /\ [jobs[j] EXCEPT !.phase = phase].phase = phase
           /\ [jobs[j] EXCEPT !.phase = phase].kind = jobs[j].kind
           /\ [jobs[j] EXCEPT !.phase = phase].state = jobs[j].state
           /\ [jobs[j] EXCEPT !.phase = phase].last = jobs[j].last
           /\ [jobs[j] EXCEPT !.phase = phase].next = jobs[j].next
<1> DEFINE r == [jobs[j] EXCEPT !.phase = phase]
<1>1. jobs[j] \in JobRecords
  BY JobTypes
<1>2. r \in JobRecords
  BY <1>1 DEF JobRecords
<1>3. jobs' = [jobs EXCEPT ![j] = r]
  BY DEF SetPhase
<1>4. Replaced(j, r)
  <2> HIDE DEF r
  <2> QED BY <1>2, <1>3, JobReplaced
<1> QED BY <1>1, <1>4 DEF JobRecords

\* The node returned s.
LEMMA Returned ==
    ASSUME jobs \in Seq(JobRecords), NEW j \in JobIds, NEW s \in AgentState,
           jobs[j].next \in Nodes, Return(j, s)
    PROVE  \E r \in JobRecords :
              /\ Replaced(j, r)
              /\ r.thread = jobs[j].thread
              /\ r.phase = "saving"
              /\ r.kind = jobs[j].kind
              /\ r.state = s
              /\ r.last = jobs[j].next
              /\ r.next = Edge(jobs[j].next, s)
<1> DEFINE r == [jobs[j] EXCEPT !.phase = "saving", !.state = s,
                                !.last  = jobs[j].next,
                                !.next  = Edge(jobs[j].next, s)]
<1>1. jobs[j] \in JobRecords
  BY JobTypes
<1>2. Edge(jobs[j].next, s) \in Nodes \cup {"__end__"}
  BY EdgeType
<1>3. r \in JobRecords
  BY <1>1, <1>2 DEF JobRecords, Phases
<1>4. jobs' = [jobs EXCEPT ![j] = r]
  BY DEF Return
<1>5. Replaced(j, r)
  <2> HIDE DEF r
  <2> QED BY <1>3, <1>4, JobReplaced
<1>6. /\ r.thread = jobs[j].thread /\ r.phase = "saving" /\ r.state = s
      /\ r.kind = jobs[j].kind
      /\ r.last = jobs[j].next /\ r.next = Edge(jobs[j].next, s)
  BY <1>1 DEF JobRecords
<1> QED BY <1>3, <1>5, <1>6

\* A checkpoint put in the place of thread t's.
Stored(t, c) ==
    /\ checkpoint' \in [Threads -> Checkpoints]
    /\ \A u \in Threads : checkpoint'[u] = IF u = t THEN c ELSE checkpoint[u]

LEMMA CheckpointStored ==
    ASSUME checkpoint \in [Threads -> Checkpoints], NEW t \in Threads,
           NEW c \in Checkpoints, checkpoint' = [checkpoint EXCEPT ![t] = c]
    PROVE  Stored(t, c)
BY DEF Stored

LEMMA CheckpointTypes ==
    ASSUME checkpoint \in [Threads -> Checkpoints], NEW t \in Threads
    PROVE  /\ checkpoint[t] \in Checkpoints
           /\ checkpoint[t].saved \in BOOLEAN
           /\ checkpoint[t].state \in AgentState
           /\ checkpoint[t].last \in Nodes \cup {"none"}
           /\ checkpoint[t].next \in Nodes \cup {"none", "__end__"}
BY DEF Checkpoints

\* aupdate_state on a thread of which a node has run.
LEMMA Updated ==
    ASSUME checkpoint \in [Threads -> Checkpoints], NEW t \in Threads,
           NEW s \in AgentState, checkpoint[t].last # "none", UpdateState(t, s)
    PROVE  \E c \in Checkpoints :
              /\ Stored(t, c)
              /\ c.saved = checkpoint[t].saved
              /\ c.state = s
              /\ c.last = checkpoint[t].last
              /\ c.next = Edge(checkpoint[t].last, s)
<1> DEFINE c == [checkpoint[t] EXCEPT !.state = s,
                                      !.next = Edge(checkpoint[t].last, s)]
<1>1. checkpoint[t] \in Checkpoints /\ checkpoint[t].last \in Nodes
  BY CheckpointTypes
<1>2. Edge(checkpoint[t].last, s) \in Nodes \cup {"__end__"}
  BY <1>1, EdgeType
<1>3. c \in Checkpoints
  BY <1>1, <1>2 DEF Checkpoints
<1>4. checkpoint' = [checkpoint EXCEPT ![t] = c]
  BY DEF UpdateState
<1>5. Stored(t, c)
  <2> HIDE DEF c
  <2> QED BY <1>3, <1>4, CheckpointStored
<1>6. /\ c.saved = checkpoint[t].saved /\ c.state = s
      /\ c.last = checkpoint[t].last /\ c.next = Edge(checkpoint[t].last, s)
  BY <1>1 DEF Checkpoints
<1> QED BY <1>3, <1>5, <1>6

\* The input of a new run is checkpointed before its first node.
LEMMA StartEffect ==
    ASSUME TypeOK, NEW j \in JobIds, StartQualification(j)
    PROVE  \E r \in JobRecords, c \in Checkpoints :
              /\ Replaced(j, r)
              /\ r.thread = jobs[j].thread /\ r.kind = jobs[j].kind
              /\ r.phase = "running"
              /\ r.state = InitialState
              /\ r.last = checkpoint[jobs[j].thread].last
              /\ r.next = "sanitizer"
              /\ Stored(jobs[j].thread, c)
              /\ c.saved = TRUE
              /\ c.state = InitialState
              /\ c.last = checkpoint[jobs[j].thread].last
              /\ c.next = "sanitizer"
<1> DEFINE t == jobs[j].thread
           r == [jobs[j] EXCEPT !.phase = "running", !.state = InitialState,
                                !.last = checkpoint[t].last,
                                !.next = "sanitizer"]
           c == [saved |-> TRUE, state |-> InitialState,
                 last |-> checkpoint[t].last, next |-> "sanitizer"]
<1>1. /\ jobs[j] \in JobRecords /\ t \in Threads
      /\ checkpoint[t].last \in Nodes \cup {"none"}
  BY JobTypes, CheckpointTypes DEF TypeOK
<1>2. r \in JobRecords
  BY <1>1, InitialType DEF JobRecords, Phases, Nodes
<1>3. c \in Checkpoints
  BY <1>1, InitialType DEF Checkpoints, Nodes
<1>4. /\ jobs' = [jobs EXCEPT ![j] = r]
      /\ checkpoint' = [checkpoint EXCEPT ![t] = c]
  BY DEF StartQualification
<1>5. Replaced(j, r) /\ Stored(t, c)
  <2> HIDE DEF r, c
  <2> QED BY <1>1, <1>2, <1>3, <1>4, JobReplaced, CheckpointStored DEF TypeOK
<1>6. /\ r.thread = t /\ r.kind = jobs[j].kind /\ r.phase = "running"
      /\ r.state = InitialState /\ r.last = checkpoint[t].last
      /\ r.next = "sanitizer"
  BY <1>1 DEF JobRecords
<1> QED BY <1>2, <1>3, <1>5, <1>6

\* A resumed run goes on from the checkpoint.
LEMMA ResumeEffect ==
    ASSUME TypeOK, NEW j \in JobIds, StartResume(j)
    PROVE  \E r \in JobRecords :
              /\ Replaced(j, r)
              /\ r.thread = jobs[j].thread /\ r.kind = jobs[j].kind
              /\ r.phase = "running"
              /\ r.state = checkpoint[jobs[j].thread].state
              /\ r.last = checkpoint[jobs[j].thread].last
              /\ r.next = checkpoint[jobs[j].thread].next
<1> DEFINE c == checkpoint[jobs[j].thread]
           r == [jobs[j] EXCEPT !.phase = "running", !.state = c.state,
                                !.last = c.last, !.next = c.next]
<1>1. /\ jobs[j] \in JobRecords
      /\ c.state \in AgentState
      /\ c.last \in Nodes \cup {"none"}
      /\ c.next \in Nodes \cup {"none", "__end__"}
  BY JobTypes, CheckpointTypes DEF TypeOK
<1>2. r \in JobRecords
  <2> HIDE DEF c
  <2> QED BY <1>1 DEF JobRecords, Phases
<1>4. jobs' = [jobs EXCEPT ![j] = r]
  BY DEF StartResume
<1>5. Replaced(j, r)
  <2> HIDE DEF r
  <2> QED BY <1>2, <1>4, JobReplaced DEF TypeOK
<1>6. /\ r.thread = jobs[j].thread /\ r.kind = jobs[j].kind
      /\ r.phase = "running" /\ r.state = c.state
      /\ r.last = c.last /\ r.next = c.next
  <2> HIDE DEF c
  <2> QED BY <1>1 DEF JobRecords
<1> QED BY <1>2, <1>5, <1>6

\* The job's copy overwrites the checkpoint.
LEMMA SaveEffect ==
    ASSUME TypeOK, NEW j \in JobIds, SaveCheckpoint(j)
    PROVE  /\ Replaced(j, [jobs[j] EXCEPT !.phase = "running"])
           /\ \E c \in Checkpoints :
                 /\ Stored(jobs[j].thread, c)
                 /\ c.saved = TRUE
                 /\ c.state = jobs[j].state
                 /\ c.last = jobs[j].last
                 /\ c.next = jobs[j].next
<1> DEFINE t == jobs[j].thread
           c == [saved |-> TRUE, state |-> jobs[j].state,
                 last |-> jobs[j].last, next |-> jobs[j].next]
<1>1. /\ jobs[j] \in JobRecords /\ t \in Threads
      /\ c \in Checkpoints
  BY JobTypes DEF TypeOK, Checkpoints
<1>2. checkpoint' = [checkpoint EXCEPT ![t] = c] /\ SetPhase(j, "running")
  BY DEF SaveCheckpoint
<1>3. Stored(t, c)
  <2> HIDE DEF c
  <2> QED BY <1>1, <1>2, CheckpointStored DEF TypeOK
<1>4. Replaced(j, [jobs[j] EXCEPT !.phase = "running"])
  BY <1>2, PhaseSet DEF TypeOK, Phases
<1> QED BY <1>1, <1>3, <1>4

\* A new job at the end of the queue.
LEMMA Appended ==
    ASSUME jobs \in Seq(JobRecords), NEW kind \in JobKinds, NEW t \in Threads,
           jobs' = Append(jobs, NewJob(kind, t))
    PROVE  /\ jobs' \in Seq(JobRecords)
           /\ Len(jobs') = Len(jobs) + 1
           /\ \A k \in JobIds : jobs'[k] = jobs[k]
           /\ jobs'[Len(jobs) + 1] = NewJob(kind, t)
           /\ NewJob(kind, t).kind = kind
           /\ NewJob(kind, t).thread = t
           /\ NewJob(kind, t).phase = "queued"
           /\ NewJob(kind, t).state = InitialState
<1>1. NewJob(kind, t) \in JobRecords
  BY InitialType DEF NewJob, JobRecords, Phases
<1>2. /\ NewJob(kind, t).kind = kind
      /\ NewJob(kind, t).thread = t
      /\ NewJob(kind, t).phase = "queued"
      /\ NewJob(kind, t).state = InitialState
  BY DEF NewJob
<1> HIDE DEF NewJob
<1> QED BY <1>1, <1>2 DEF JobIds

\* A restart of the worker puts its jobs back into the queue.
LEMMA Requeued ==
    ASSUME jobs \in Seq(JobRecords), CrashWorker
    PROVE  /\ jobs' \in Seq(JobRecords)
           /\ Len(jobs') = Len(jobs)
           /\ \A k \in JobIds :
                 IF InWorker(k)
                 THEN /\ jobs'[k].phase = "queued"
                      /\ jobs'[k].thread = jobs[k].thread
                      /\ jobs'[k].kind = jobs[k].kind
                      /\ jobs'[k].state = jobs[k].state
                 ELSE jobs'[k] = jobs[k]
<1>1. jobs' = [k \in JobIds |->
                 IF InWorker(k) THEN [jobs[k] EXCEPT !.phase = "queued"]
                 ELSE jobs[k]]
  BY DEF CrashWorker
<1>2. ASSUME NEW k \in JobIds
      PROVE  /\ [jobs[k] EXCEPT !.phase = "queued"] \in JobRecords
             /\ [jobs[k] EXCEPT !.phase = "queued"].phase = "queued"
             /\ [jobs[k] EXCEPT !.phase = "queued"].thread = jobs[k].thread
             /\ [jobs[k] EXCEPT !.phase = "queued"].kind = jobs[k].kind
             /\ [jobs[k] EXCEPT !.phase = "queued"].state = jobs[k].state
  <2>1. jobs[k] \in JobRecords
    BY JobTypes
  <2> QED BY <2>1 DEF JobRecords, Phases
<1>3. \A k \in JobIds : jobs'[k] \in JobRecords
  BY <1>1, <1>2, JobTypes
<1>4. jobs' \in Seq(JobRecords) /\ Len(jobs') = Len(jobs)
  <2>1. Len(jobs) \in Nat /\ DOMAIN jobs' = 1..Len(jobs)
    BY <1>1 DEF JobIds
  <2>2. jobs' \in [1..Len(jobs) -> JobRecords]
    BY <1>1, <1>3 DEF JobIds
  <2> QED BY <2>1, <2>2
<1> QED BY <1>1, <1>2, <1>4

-----------------------------------------------------------------------------
(* Types *)

\* Where a node has returned, a review is asked for or decided, a node of the
\* thread has run: aupdate_state finds an edge to evaluate.
SavedInv ==
    /\ \A j \in JobIds : jobs[j].phase = "saving" => jobs[j].last # "none"
    /\ \A j \in JobIds : jobs[j].state.status = "pending_review" =>
                           jobs[j].last # "none"
    /\ \A t \in Threads : checkpoint[t].state.status = "pending_review" =>
                            checkpoint[t].last # "none"
    /\ \A o \in Operators : requests[o] # NoRequest =>
                              checkpoint[requests[o].thread].last # "none"

LEMMA RequestTypes ==
    ASSUME TypeOK, NEW o \in Operators, requests[o] # NoRequest
    PROVE  /\ requests[o] \in Requests
           /\ requests[o].step \in {"checked", "updated"}
           /\ requests[o].thread \in Threads
<1>1. requests[o] \in Requests
  BY DEF TypeOK
<1> QED BY <1>1 DEF Requests

\* A step other than idle is that of a request.
LEMMA RequestSteps ==
    ASSUME TypeOK, NEW o \in Operators, requests[o].step \in {"checked", "updated"}
    PROVE  requests[o] # NoRequest
BY DEF NoRequest

\* Freeing, updating or making a request keeps the type.
LEMMA RequestUpdates ==
    ASSUME TypeOK, NEW o \in Operators, NEW r \in Requests \cup {NoRequest},
           requests' = [requests EXCEPT ![o] = r]
    PROVE  /\ requests' \in [Operators -> Requests \cup {NoRequest}]
           /\ \A p \in Operators : requests'[p] = IF p = o THEN r ELSE requests[p]
BY DEF TypeOK

LEMMA ServiceTypeInductive ==
    TypeOK /\ SavedInv /\ [Next]_vars => TypeOK' /\ SavedInv'
<1> SUFFICES ASSUME TypeOK, SavedInv, [Next]_vars
             PROVE  TypeOK' /\ SavedInv'
  OBVIOUS
<1>a. /\ jobs \in Seq(JobRecords) /\ checkpoint \in [Threads -> Checkpoints]
      /\ InitialState.status = "processing"
  BY DEF TypeOK, InitialState
\* Steps that replace one job and leave the checkpoints alone.
<1>b. ASSUME NEW j \in JobIds, NEW r \in JobRecords, Replaced(j, r),
             r.phase = "saving" => r.last # "none",
             r.state.status = "pending_review" => r.last # "none",
             UNCHANGED <<checkpoint, requests, rejected, crashes>>,
             quotes' \in [Threads -> Nat]
      PROVE  TypeOK' /\ SavedInv'
  <2>1. TypeOK'
    BY <1>b DEF TypeOK, Replaced
  <2>2. SavedInv'
    BY <1>b DEF SavedInv, Replaced, JobIds
  <2> QED BY <2>1, <2>2
\* Steps that replace one job and one checkpoint.
<1>c. ASSUME NEW j \in JobIds, NEW r \in JobRecords, Replaced(j, r),
             r.phase = "saving" => r.last # "none",
             r.state.status = "pending_review" => r.last # "none",
             NEW c \in Checkpoints, NEW t \in Threads, Stored(t, c),
             c.state.status = "pending_review" => c.last # "none",
             checkpoint[t].last # "none" => c.last # "none",
             UNCHANGED <<requests, quotes, rejected, crashes>>
      PROVE  TypeOK' /\ SavedInv'
  <2>1. TypeOK'
    BY <1>c DEF TypeOK, Replaced, Stored
  <2>2. \A o \in Operators : requests'[o] # NoRequest =>
            /\ requests'[o].thread \in Threads
            /\ checkpoint[requests'[o].thread].last # "none"
    BY <1>c, RequestTypes DEF SavedInv
  <2>3. SavedInv'
    BY <1>c, <2>2 DEF SavedInv, Replaced, JobIds, Stored
  <2> QED BY <2>1, <2>3
\* Steps that change the phase of one job.
<1>d. ASSUME NEW j \in JobIds, NEW phase \in Phases \ {"saving"}, SetPhase(j, phase),
             UNCHANGED <<checkpoint, requests, quotes, rejected, crashes>>
      PROVE  TypeOK' /\ SavedInv'
  <2> DEFINE r == [jobs[j] EXCEPT !.phase = phase]
  <2>1. /\ Replaced(j, r) /\ r.phase # "saving"
        /\ r.state.status = "pending_review" => r.last # "none"
    BY <1>a, <1>d, PhaseSet DEF SavedInv
  <2>2. r \in JobRecords
    <3>1. jobs[j] \in JobRecords
      BY <1>a, JobTypes
    <3> QED BY <1>d, <3>1 DEF JobRecords
  <2>3. quotes' \in [Threads -> Nat]
    BY <1>d DEF TypeOK
  <2> HIDE DEF r
  <2> QED BY <1>b, <1>d, <2>1, <2>2, <2>3
<1>1. ASSUME NEW j \in JobIds, StartQualification(j) PROVE TypeOK' /\ SavedInv'
  <2>1. PICK r \in JobRecords, c \in Checkpoints :
              /\ Replaced(j, r)
              /\ r.phase = "running" /\ r.state = InitialState
              /\ Stored(jobs[j].thread, c)
              /\ c.state = InitialState
              /\ c.last = checkpoint[jobs[j].thread].last
    BY <1>1, StartEffect
  <2>2. UNCHANGED <<requests, quotes, rejected, crashes>>
    BY <1>1 DEF StartQualification
  <2> QED BY <1>a, <1>c, <2>1, <2>2, JobTypes
<1>2. ASSUME NEW j \in JobIds, StartResume(j) PROVE TypeOK' /\ SavedInv'
  <2>1. PICK r \in JobRecords :
              /\ Replaced(j, r)
              /\ r.phase = "running"
              /\ r.state = checkpoint[jobs[j].thread].state
              /\ r.last = checkpoint[jobs[j].thread].last
    BY <1>2, ResumeEffect
  <2>2. UNCHANGED <<checkpoint, requests, quotes, rejected, crashes>>
    BY <1>2 DEF StartResume
  <2>3. quotes' \in [Threads -> Nat]
    BY <2>2 DEF TypeOK
  <2> QED BY <1>a, <1>b, <2>1, <2>2, <2>3, JobTypes DEF SavedInv
<1>3. ASSUME NEW j \in JobIds, RefuseResume(j) PROVE TypeOK' /\ SavedInv'
  BY <1>3, <1>d DEF RefuseResume, Phases
<1>4. ASSUME NEW j \in JobIds, RunNode(j) \/ RunDelivery(j) PROVE TypeOK' /\ SavedInv'
  <2>1. /\ jobs[j].next \in Nodes
        /\ \E s \in AgentState : Return(j, s)
        /\ quotes' \in [Threads -> Nat]
        /\ UNCHANGED <<checkpoint, requests, rejected, crashes>>
    <3>1. CASE RunNode(j)
      BY <1>a, <3>1, NodeEffect, JobTypes DEF RunNode, TypeOK
    <3>2. CASE RunDelivery(j)
      <4>1. jobs[j].next = "delivery" /\ "delivery" \in Nodes
        BY <3>2 DEF RunDelivery, Nodes
      <4>2. quotes' \in [Threads -> Nat]
        BY <1>a, <3>2, JobTypes DEF RunDelivery, TypeOK
      <4>3. \E s \in AgentState : Return(j, s)
        BY <1>a, <3>2, DeliveryOutcomes, JobTypes DEF RunDelivery
      <4> QED BY <3>2, <4>1, <4>2, <4>3 DEF RunDelivery
    <3> QED BY <1>4, <3>1, <3>2
  <2>2. PICK r \in JobRecords : Replaced(j, r) /\ r.last = jobs[j].next
    BY <1>a, <2>1, Returned
  <2>3. "none" \notin Nodes
    BY DEF Nodes
  <2> QED BY <1>b, <2>1, <2>2, <2>3
<1>5. ASSUME NEW j \in JobIds, SaveCheckpoint(j) PROVE TypeOK' /\ SavedInv'
  <2> DEFINE r == [jobs[j] EXCEPT !.phase = "running"]
  <2>1. PICK c \in Checkpoints :
              /\ Stored(jobs[j].thread, c)
              /\ c.last = jobs[j].last
              /\ c.state = jobs[j].state
    BY <1>5, SaveEffect
  <2>2. /\ Replaced(j, r) /\ jobs[j].last # "none"
        /\ UNCHANGED <<requests, quotes, rejected, crashes>>
    BY <1>5, SaveEffect DEF SaveCheckpoint, SavedInv
  <2>3. r \in JobRecords /\ r.phase = "running" /\ r.last = jobs[j].last
    <3>1. jobs[j] \in JobRecords
      BY <1>a, JobTypes
    <3> QED BY <3>1 DEF JobRecords, Phases
  <2> HIDE DEF r
  <2> QED BY <1>a, <1>c, <2>1, <2>2, <2>3, JobTypes
<1>6. ASSUME NEW j \in JobIds, EndJob(j) \/ Raise(j) \/ FailToMarkError(j) \/ TimeOut(j)
      PROVE  TypeOK' /\ SavedInv'
  BY <1>6, <1>d DEF EndJob, Raise, FailToMarkError, TimeOut, Phases
<1>7. ASSUME NEW j \in JobIds, MarkError(j) PROVE TypeOK' /\ SavedInv'
  <2> DEFINE t == jobs[j].thread
             r == [jobs[j] EXCEPT !.phase = "over"]
  <2>1. /\ checkpoint[t].last # "none"
        /\ SetPhase(j, "over")
        /\ UpdateState(t, MarkedError(checkpoint[t].state))
        /\ UNCHANGED <<requests, quotes, rejected, crashes>>
        /\ t \in Threads
        /\ checkpoint[t].state \in AgentState
    BY <1>a, <1>7, JobTypes, CheckpointTypes DEF MarkError
  <2>2. PICK c \in Checkpoints : Stored(t, c) /\ c.last = checkpoint[t].last
    BY <1>a, <2>1, Updated, UpdateEffects
  <2>3. /\ Replaced(j, r) /\ r.phase = "over"
        /\ r.state.status = "pending_review" => r.last # "none"
    <3>1. "over" \in Phases
      BY DEF Phases
    <3> QED BY <1>a, <2>1, <3>1, PhaseSet DEF SavedInv
  <2>4. r \in JobRecords
    <3>1. jobs[j] \in JobRecords
      BY <1>a, JobTypes
    <3> QED BY <3>1 DEF JobRecords, Phases
  <2> HIDE DEF r
  <2> QED BY <1>c, <2>1, <2>2, <2>3, <2>4
<1>8. CASE CrashWorker
  <2>1. /\ UNCHANGED <<checkpoint, requests, quotes, rejected>>
        /\ crashes' \in 0..MaxCrashes
    BY <1>8 DEF CrashWorker, TypeOK
  <2>2. TypeOK'
    BY <1>a, <1>8, <2>1, Requeued DEF TypeOK
  <2>3. \A k \in JobIds :
           /\ jobs'[k].phase = "saving" => jobs'[k].last # "none"
           /\ jobs'[k].state = jobs[k].state
           /\ jobs'[k].last = jobs[k].last
    <3> SUFFICES ASSUME NEW k \in JobIds
                 PROVE  /\ jobs'[k].phase = "saving" => jobs'[k].last # "none"
                        /\ jobs'[k].state = jobs[k].state
                        /\ jobs'[k].last = jobs[k].last
      OBVIOUS
    <3>1. CASE InWorker(k)
      <4>1. jobs'[k] = [jobs[k] EXCEPT !.phase = "queued"]
        BY <1>8, <3>1 DEF CrashWorker
      <4>2. jobs[k] \in JobRecords
        BY <1>a, JobTypes
      <4> QED BY <4>1, <4>2 DEF JobRecords
    <3>2. CASE ~InWorker(k)
      BY <1>a, <1>8, <3>2, Requeued DEF SavedInv
    <3> QED BY <3>1, <3>2
  <2>4. JobIds' = JobIds
    BY <1>a, <1>8, Requeued DEF JobIds
  <2> QED BY <2>1, <2>2, <2>3, <2>4 DEF SavedInv
<1>9. ASSUME NEW o \in Operators, WriteRejection(o) \/ WriteApproval(o)
      PROVE  TypeOK' /\ SavedInv'
  <2> DEFINE t == requests[o].thread
  <2>1. /\ requests[o] # NoRequest /\ requests[o] \in Requests
        /\ t \in Threads /\ checkpoint[t].last # "none"
        /\ checkpoint[t].state \in AgentState
    BY <1>a, <1>9, RequestTypes, RequestSteps, CheckpointTypes
       DEF WriteRejection, WriteApproval, SavedInv
  <2>2. PICK s \in AgentState : UpdateState(t, s) /\ s.status # "pending_review"
    BY <1>9, <2>1, UpdateEffects DEF WriteRejection, WriteApproval
  <2>3. PICK c \in Checkpoints :
              Stored(t, c) /\ c.state = s /\ c.last = checkpoint[t].last
    BY <1>a, <2>1, <2>2, Updated
  <2>4. PICK r \in Requests \cup {NoRequest} :
              /\ requests' = [requests EXCEPT ![o] = r]
              /\ r # NoRequest => r.thread = t
    <3>1. /\ [requests[o] EXCEPT !.step = "updated"] \in Requests
          /\ [requests[o] EXCEPT !.step = "updated"].thread = t
      BY <2>1 DEF Requests
    <3>2. \/ requests' = [requests EXCEPT ![o] = NoRequest]
          \/ requests' = [requests EXCEPT ![o] = [requests[o] EXCEPT !.step = "updated"]]
      BY <1>9 DEF WriteRejection, WriteApproval
    <3> QED BY <3>1, <3>2
  <2>5. /\ UNCHANGED <<jobs, quotes, crashes>>
        /\ rejected' \subseteq Threads
    BY <1>9, <2>1 DEF WriteRejection, WriteApproval, TypeOK
  <2>6. /\ requests' \in [Operators -> Requests \cup {NoRequest}]
        /\ \A p \in Operators : requests'[p] = IF p = o THEN r ELSE requests[p]
    BY <2>4, RequestUpdates
  <2>7. TypeOK'
    BY <2>3, <2>5, <2>6 DEF TypeOK, Stored
  <2>8. \A p \in Operators : requests'[p] # NoRequest =>
            /\ requests'[p].thread \in Threads
            /\ checkpoint[requests'[p].thread].last # "none"
    BY <2>1, <2>4, <2>6, RequestTypes DEF SavedInv
  <2>9. SavedInv'
    BY <2>2, <2>3, <2>5, <2>8 DEF SavedInv, Stored, JobIds
  <2> QED BY <2>7, <2>9
<1>10. ASSUME NEW o \in Operators, EnqueueResume(o) \/ LoseRequest(o)
       PROVE  TypeOK' /\ SavedInv'
  <2>1. /\ requests' \in [Operators -> Requests \cup {NoRequest}]
        /\ \A p \in Operators : requests'[p] # NoRequest => requests'[p] = requests[p]
    BY <1>10, RequestUpdates DEF EnqueueResume, LoseRequest
  <2>2. UNCHANGED <<checkpoint, quotes, rejected, crashes>>
    BY <1>10 DEF EnqueueResume, LoseRequest
  <2>3. /\ jobs' \in Seq(JobRecords)
        /\ \A k \in JobIds' :
              \/ k \in JobIds /\ jobs'[k] = jobs[k]
              \/ jobs'[k].phase = "queued" /\ jobs'[k].state = InitialState
    <3>1. CASE EnqueueResume(o)
      <4>1. requests[o].thread \in Threads
        BY <3>1, RequestTypes, RequestSteps DEF EnqueueResume
      <4>2. jobs' = Append(jobs, NewJob("run_qualification_task_resume",
                                        requests[o].thread))
        BY <3>1 DEF EnqueueResume
      <4> QED BY <1>a, <4>1, <4>2, Appended DEF JobIds, JobKinds
    <3>2. CASE LoseRequest(o)
      BY <1>a, <3>2 DEF LoseRequest, JobIds
    <3> QED BY <1>10, <3>1, <3>2
  <2> QED BY <1>a, <2>1, <2>2, <2>3 DEF TypeOK, SavedInv
<1>11. ASSUME NEW t \in Threads, SubmitLead(t) PROVE TypeOK' /\ SavedInv'
  <2>1. /\ jobs' = Append(jobs, NewJob("run_qualification_task", t))
        /\ UNCHANGED <<checkpoint, requests, quotes, rejected, crashes>>
    BY <1>11 DEF SubmitLead
  <2>2. /\ jobs' \in Seq(JobRecords)
        /\ \A k \in JobIds' :
              \/ k \in JobIds /\ jobs'[k] = jobs[k]
              \/ jobs'[k].phase = "queued" /\ jobs'[k].state = InitialState
    BY <1>a, <2>1, Appended DEF JobIds, JobKinds
  <2> QED BY <1>a, <2>1, <2>2 DEF TypeOK, SavedInv
<1>12. ASSUME NEW o \in Operators, NEW t \in Threads, NEW approved \in BOOLEAN,
              CheckReview(o, t, approved)
       PROVE  TypeOK' /\ SavedInv'
  <2> DEFINE r == [step |-> "checked", thread |-> t, approved |-> approved]
  <2>1. r \in Requests /\ r.thread = t
    BY DEF Requests
  <2>2. /\ requests' = [requests EXCEPT ![o] = r]
        /\ UNCHANGED <<checkpoint, jobs, quotes, rejected, crashes>>
        /\ checkpoint[t].last # "none"
    BY <1>12 DEF CheckReview, SavedInv
  <2> HIDE DEF r
  <2>3. /\ requests' \in [Operators -> Requests \cup {NoRequest}]
        /\ \A p \in Operators : requests'[p] = IF p = o THEN r ELSE requests[p]
    BY <2>1, <2>2, RequestUpdates
  <2>4. TypeOK'
    BY <2>2, <2>3 DEF TypeOK
  <2>5. SavedInv'
    BY <2>1, <2>2, <2>3 DEF SavedInv, JobIds
  <2> QED BY <2>4, <2>5
<1>13. CASE UNCHANGED vars
  BY <1>13 DEF vars, TypeOK, SavedInv, JobIds
<1> QED BY <1>1, <1>2, <1>3, <1>4, <1>5, <1>6, <1>7, <1>8, <1>9, <1>10, <1>11,
           <1>12, <1>13
        DEF Next, WorkerStep, JobStep, ApiStep, FaultStep, ClientStep

LEMMA ServiceTypeInit == Init => TypeOK /\ SavedInv
<1> SUFFICES ASSUME Init PROVE TypeOK /\ SavedInv
  OBVIOUS
<1>1. NoCheckpoint \in Checkpoints /\ NoCheckpoint.state.status = "processing"
  BY InitialType DEF NoCheckpoint, Checkpoints, InitialState
<1>2. TypeOK
  BY <1>1 DEF Init, TypeOK
<1>3. JobIds = {}
  BY DEF Init, JobIds
<1> HIDE DEF NoCheckpoint
<1>4. SavedInv
  BY <1>1, <1>3 DEF Init, SavedInv
<1> QED BY <1>2, <1>4

\* Every reachable state has its type, for any number of leads, operators,
\* slots and submissions and under every fault: in particular aupdate_state is
\* only called where an edge can be evaluated (routes.py:266-288,
\* tasks.py:97-105).
THEOREM TypeCorrect == Spec => []TypeOK
<1>1. TypeOK /\ SavedInv /\ [Next]_vars => (TypeOK /\ SavedInv)'
  BY ServiceTypeInductive
<1> QED BY <1>1, ServiceTypeInit, PTL DEF Spec

-----------------------------------------------------------------------------
(* Quotes, under any fault *)

\* A copy that reads "completed", in Postgres or in a job, has its quote.
QuotedInv ==
    /\ \A t \in Threads : checkpoint[t].state.status = "completed" => quotes[t] > 0
    /\ \A j \in JobIds : jobs[j].state.status = "completed" =>
                            quotes[jobs[j].thread] > 0

\* What every step does to copies and quotes: quotes only grow, and a copy
\* reads "completed" only if one did before or the adapter accepted a quote.
LEMMA QuotedInductive ==
    TypeOK /\ QuotedInv /\ [Next]_vars /\ TypeOK' => QuotedInv'
<1> SUFFICES ASSUME TypeOK, QuotedInv, [Next]_vars, TypeOK'
             PROVE  QuotedInv'
  OBVIOUS
<1>a. /\ jobs \in Seq(JobRecords) /\ checkpoint \in [Threads -> Checkpoints]
      /\ quotes \in [Threads -> Nat]
      /\ InitialState.status = "processing"
  BY DEF TypeOK, InitialState
\* Steps that replace one job, without a quote.
<1>b. ASSUME NEW j \in JobIds, NEW r, Replaced(j, r),
             r.thread = jobs[j].thread,
             r.state.status = "completed" => quotes[r.thread] > 0,
             UNCHANGED <<checkpoint, quotes>>
      PROVE  QuotedInv'
  BY <1>b DEF QuotedInv, Replaced, JobIds
\* Steps that replace one job and its thread's checkpoint.
<1>c. ASSUME NEW j \in JobIds, NEW r, Replaced(j, r),
             r.thread = jobs[j].thread,
             r.state.status = "completed" => quotes[r.thread] > 0,
             NEW c, Stored(r.thread, c),
             c.state.status = "completed" => quotes[r.thread] > 0,
             UNCHANGED quotes
      PROVE  QuotedInv'
  BY <1>c DEF QuotedInv, Replaced, JobIds, Stored
\* Steps that change the phase of one job.
<1>d. ASSUME NEW j \in JobIds, NEW phase \in Phases, SetPhase(j, phase),
             UNCHANGED <<checkpoint, quotes>>
      PROVE  QuotedInv'
  <2> DEFINE r == [jobs[j] EXCEPT !.phase = phase]
  <2>1. Replaced(j, r) /\ r.thread = jobs[j].thread /\ r.state = jobs[j].state
    BY <1>a, <1>d, PhaseSet
  <2> HIDE DEF r
  <2> QED BY <1>b, <1>d, <2>1 DEF QuotedInv
<1>1. ASSUME NEW j \in JobIds, StartQualification(j) PROVE QuotedInv'
  <2>1. PICK r \in JobRecords, c \in Checkpoints :
              /\ Replaced(j, r) /\ r.thread = jobs[j].thread
              /\ r.state = InitialState
              /\ Stored(jobs[j].thread, c)
              /\ c.state = InitialState
    BY <1>1, StartEffect
  <2>2. UNCHANGED quotes
    BY <1>1 DEF StartQualification
  <2> QED BY <1>a, <1>c, <2>1, <2>2
<1>2. ASSUME NEW j \in JobIds, StartResume(j) PROVE QuotedInv'
  <2>1. PICK r \in JobRecords :
              /\ Replaced(j, r) /\ r.thread = jobs[j].thread
              /\ r.state = checkpoint[jobs[j].thread].state
    BY <1>2, ResumeEffect
  <2>2. UNCHANGED <<checkpoint, quotes>>
    BY <1>2 DEF StartResume
  <2> QED BY <1>a, <1>b, <2>1, <2>2, JobTypes DEF QuotedInv
<1>3. ASSUME NEW j \in JobIds,
             RefuseResume(j) \/ EndJob(j) \/ Raise(j) \/ FailToMarkError(j)
               \/ TimeOut(j)
      PROVE  QuotedInv'
  BY <1>3, <1>d DEF RefuseResume, EndJob, Raise, FailToMarkError, TimeOut, Phases
<1>4. ASSUME NEW j \in JobIds, RunNode(j) PROVE QuotedInv'
  <2>1. PICK s \in NodeReturns(jobs[j].next, jobs[j].state) : Return(j, s)
    BY <1>4 DEF RunNode
  <2>2. /\ s \in AgentState
        /\ s.status = "completed" => jobs[j].state.status = "completed"
        /\ jobs[j].next \in Nodes
    BY <1>4, <1>a, NodeEffect, JobTypes DEF RunNode
  <2>3. PICK r \in JobRecords :
              Replaced(j, r) /\ r.thread = jobs[j].thread /\ r.state = s
    BY <1>a, <2>1, <2>2, Returned
  <2>4. UNCHANGED <<checkpoint, quotes>>
    BY <1>4 DEF RunNode
  <2> QED BY <1>b, <2>2, <2>3, <2>4 DEF QuotedInv
<1>5. ASSUME NEW j \in JobIds, RunDelivery(j) PROVE QuotedInv'
  <2> DEFINE t == jobs[j].thread
  <2>1. /\ jobs[j].next = "delivery" /\ "delivery" \in Nodes
        /\ jobs[j].state \in AgentState /\ t \in Threads
        /\ UNCHANGED checkpoint
    BY <1>5, <1>a, JobTypes DEF RunDelivery, Nodes
  <2>2. CASE /\ Return(j, DeliverySucceeded(jobs[j].state))
             /\ quotes' = [quotes EXCEPT ![t] = @ + 1]
    <3>1. PICK r \in JobRecords : Replaced(j, r) /\ r.thread = t
      BY <1>a, <2>1, <2>2, DeliveryOutcomes, Returned
    <3>2. /\ quotes'[t] > 0
          /\ \A u \in Threads : quotes[u] > 0 => quotes'[u] > 0
      BY <1>a, <2>1, <2>2
    <3>3. \A k \in JobIds : jobs[k].thread \in Threads
      BY <1>a, JobTypes
    <3> QED BY <2>1, <3>1, <3>2, <3>3 DEF QuotedInv, Replaced, JobIds
  <2>3. CASE /\ Return(j, DeliveryFailed(jobs[j].state))
             /\ UNCHANGED quotes
    <3>1. PICK r \in JobRecords :
                Replaced(j, r) /\ r.thread = t
                /\ r.state = DeliveryFailed(jobs[j].state)
      BY <1>a, <2>1, <2>3, DeliveryOutcomes, Returned
    <3> QED BY <1>b, <2>1, <2>3, <3>1, DeliveryOutcomes DEF QuotedInv
  <2> QED BY <1>5, <2>2, <2>3 DEF RunDelivery
<1>6. ASSUME NEW j \in JobIds, SaveCheckpoint(j) PROVE QuotedInv'
  <2> DEFINE r == [jobs[j] EXCEPT !.phase = "running"]
  <2>1. PICK c \in Checkpoints :
              Stored(jobs[j].thread, c) /\ c.state = jobs[j].state
    BY <1>6, SaveEffect
  <2>2. Replaced(j, r) /\ UNCHANGED quotes
    BY <1>6, SaveEffect DEF SaveCheckpoint
  <2>3. r.thread = jobs[j].thread /\ r.state = jobs[j].state
    <3>1. jobs[j] \in JobRecords
      BY <1>a, JobTypes
    <3> QED BY <3>1 DEF JobRecords
  <2> HIDE DEF r
  <2> QED BY <1>c, <2>1, <2>2, <2>3 DEF QuotedInv
<1>7. ASSUME NEW j \in JobIds, MarkError(j) PROVE QuotedInv'
  <2> DEFINE t == jobs[j].thread
             r == [jobs[j] EXCEPT !.phase = "over"]
  <2>1. /\ checkpoint[t].last # "none"
        /\ SetPhase(j, "over")
        /\ UpdateState(t, MarkedError(checkpoint[t].state))
        /\ UNCHANGED quotes
        /\ t \in Threads
        /\ checkpoint[t].state \in AgentState
        /\ "over" \in Phases
    BY <1>a, <1>7, JobTypes, CheckpointTypes DEF MarkError, Phases
  <2>2. PICK c \in Checkpoints :
            Stored(t, c) /\ c.state = MarkedError(checkpoint[t].state)
    BY <1>a, <2>1, Updated, UpdateEffects
  <2>3. /\ Replaced(j, r) /\ r.thread = t /\ r.state = jobs[j].state
    BY <1>a, <2>1, PhaseSet
  <2> HIDE DEF r
  <2> QED BY <1>c, <2>1, <2>2, <2>3, UpdateEffects DEF QuotedInv
<1>8. CASE CrashWorker
  <2>1. UNCHANGED <<checkpoint, quotes>>
    BY <1>8 DEF CrashWorker
  <2>2. \A k \in JobIds : /\ jobs'[k].thread = jobs[k].thread
                          /\ jobs'[k].state = jobs[k].state
    BY <1>a, <1>8, Requeued
  <2>3. JobIds' = JobIds
    BY <1>a, <1>8, Requeued DEF JobIds
  <2> QED BY <2>1, <2>2, <2>3 DEF QuotedInv
<1>9. ASSUME NEW o \in Operators, WriteRejection(o) \/ WriteApproval(o)
      PROVE  QuotedInv'
  <2> DEFINE t == requests[o].thread
  <2>1. \E s : checkpoint' = [checkpoint EXCEPT ![t].state = s,
                                 ![t].next = Edge(checkpoint[t].last, s)]
               /\ (s = Rejected(checkpoint[t].state) \/ s = Approved(checkpoint[t].state))
    BY <1>9 DEF WriteRejection, WriteApproval, UpdateState
  <2>2. PICK s : /\ checkpoint' = [checkpoint EXCEPT ![t].state = s,
                                     ![t].next = Edge(checkpoint[t].last, s)]
                 /\ (s = Rejected(checkpoint[t].state) \/ s = Approved(checkpoint[t].state))
    BY <2>1
  <2>3. t \in Threads /\ checkpoint[t] \in Checkpoints /\ checkpoint[t].state \in AgentState
    BY <1>a, <1>9, RequestTypes, RequestSteps, CheckpointTypes
       DEF WriteRejection, WriteApproval
  <2>4. s.status # "completed"
    BY <2>2, <2>3, UpdateEffects
  <2>5. /\ checkpoint'[t].state = s
        /\ \A u \in Threads : u # t => checkpoint'[u] = checkpoint[u]
    BY <1>a, <2>2, <2>3 DEF Checkpoints
  <2>6. UNCHANGED <<jobs, quotes>>
    BY <1>9 DEF WriteRejection, WriteApproval
  <2> QED BY <2>4, <2>5, <2>6 DEF QuotedInv, JobIds
<1>10. ASSUME UNCHANGED <<checkpoint, quotes>>,
              NEW kind \in JobKinds, NEW t \in Threads,
              jobs' = Append(jobs, NewJob(kind, t))
       PROVE  QuotedInv'
  <2>1. \A k \in JobIds' : \/ k \in JobIds /\ jobs'[k] = jobs[k]
                           \/ jobs'[k].state = InitialState
    BY <1>a, <1>10, Appended DEF JobIds
  <2> QED BY <1>a, <1>10, <2>1 DEF QuotedInv
<1>11. ASSUME NEW o \in Operators, EnqueueResume(o) PROVE QuotedInv'
  BY <1>10, <1>11, RequestTypes, RequestSteps DEF EnqueueResume, JobKinds
<1>12. ASSUME NEW t \in Threads, SubmitLead(t) PROVE QuotedInv'
  BY <1>10, <1>12 DEF SubmitLead, JobKinds
<1>13. CASE UNCHANGED <<checkpoint, jobs, quotes>>
  BY <1>13 DEF QuotedInv, JobIds
<1>14. ASSUME NEW o \in Operators, LoseRequest(o) PROVE QuotedInv'
  BY <1>13, <1>14 DEF LoseRequest
<1>15. ASSUME NEW o \in Operators, NEW t \in Threads, NEW approved \in BOOLEAN,
              CheckReview(o, t, approved)
       PROVE  QuotedInv'
  BY <1>13, <1>15 DEF CheckReview
<1>16. CASE UNCHANGED vars
  BY <1>13, <1>16 DEF vars
<1> QED BY <1>1, <1>2, <1>3, <1>4, <1>5, <1>6, <1>7, <1>8, <1>9, <1>11, <1>12,
           <1>14, <1>15, <1>16
        DEF Next, WorkerStep, JobStep, ApiStep, FaultStep, ClientStep

\* Under any fault, and however runs of one lead overlap, a client reads
\* "completed" only after the tenant's system accepted a quote
\* (delivery.py:128-135).
THEOREM CompletedMeansQuoted == Spec => []CompletedIsQuoted
<1>1. Init => QuotedInv
  <2> SUFFICES ASSUME Init PROVE QuotedInv
    OBVIOUS
  <2>1. JobIds = {} /\ NoCheckpoint.state.status = "processing"
    BY DEF Init, JobIds, NoCheckpoint, InitialState
  <2> HIDE DEF NoCheckpoint
  <2> QED BY <2>1 DEF Init, QuotedInv
<1>2. QuotedInv => CompletedIsQuoted
  BY DEF QuotedInv, CompletedIsQuoted, ObservedStatus
<1> QED BY <1>1, <1>2, QuotedInductive, TypeCorrect, PTL DEF Spec

-----------------------------------------------------------------------------
(* Slots and the number of quotes, under any fault *)

\* A job whose run cannot quote any more: it ended, raised, or has left the
\* last node.
Spent(j) ==
    \/ jobs[j].phase \in {"failing", "over"}
    \/ jobs[j].phase \in {"running", "saving"} /\ jobs[j].next = "__end__"

SpentOf(t) == {j \in JobsOf(t) : Spent(j)}

Workers == {j \in JobIds : InWorker(j)}

\* The worker never runs more jobs than it has slots.
SlotInv == Cardinality(Workers) <= MaxJobs

\* A quote is that of a spent job or of a run that a restart repeats.
AccountInv ==
    \A t \in Threads : quotes[t] <= Cardinality(SpentOf(t)) + MaxJobs * crashes

LEMMA JobSetsFinite ==
    ASSUME jobs \in Seq(JobRecords)
    PROVE  /\ IsFiniteSet(JobIds)
           /\ IsFiniteSet(Workers) /\ Cardinality(Workers) \in Nat
           /\ \A t : /\ IsFiniteSet(JobsOf(t)) /\ Cardinality(JobsOf(t)) \in Nat
                     /\ IsFiniteSet(SpentOf(t)) /\ Cardinality(SpentOf(t)) \in Nat
                     /\ Cardinality(SpentOf(t)) <= Cardinality(JobsOf(t))
<1>1. IsFiniteSet(JobIds)
  BY FS_Interval DEF JobIds
<1>2. Workers \in SUBSET JobIds
  BY DEF Workers
<1>3. ASSUME NEW t
      PROVE  JobsOf(t) \in SUBSET JobIds /\ SpentOf(t) \in SUBSET JobsOf(t)
  BY DEF JobsOf, SpentOf
<1> QED BY <1>1, <1>2, <1>3, FS_Subset, FS_CardinalityType

\* Every step but a restart: jobs are added queued, a spent job stays spent,
\* and at most one job enters the worker, into a free slot.
LEMMA JobsMove ==
    ASSUME TypeOK, Next, ~CrashWorker
    PROVE  /\ jobs' \in Seq(JobRecords)
           /\ JobIds \subseteq JobIds'
           /\ \A k \in JobIds' \ JobIds : jobs'[k].phase = "queued"
           /\ \A k \in JobIds : jobs'[k].thread = jobs[k].thread
           /\ \A k \in JobIds : Spent(k) => Spent(k)'
           /\ \/ \A k \in JobIds : InWorker(k)' => InWorker(k)
              \/ \E j \in JobIds :
                    /\ Cardinality(Workers) < MaxJobs
                    /\ \A k \in JobIds \ {j} : InWorker(k)' => InWorker(k)
<1> DEFINE Moves ==
           /\ jobs' \in Seq(JobRecords)
           /\ JobIds \subseteq JobIds'
           /\ \A k \in JobIds' \ JobIds : jobs'[k].phase = "queued"
           /\ \A k \in JobIds : jobs'[k].thread = jobs[k].thread
           /\ \A k \in JobIds : Spent(k) => Spent(k)'
           /\ \/ \A k \in JobIds : InWorker(k)' => InWorker(k)
              \/ \E j \in JobIds :
                    /\ Cardinality(Workers) < MaxJobs
                    /\ \A k \in JobIds \ {j} : InWorker(k)' => InWorker(k)
<1>a. jobs \in Seq(JobRecords)
  BY DEF TypeOK
<1>b. ASSUME NEW j \in JobIds, NEW r, Replaced(j, r),
             r.thread = jobs[j].thread,
             Spent(j) => \/ r.phase \in {"failing", "over"}
                         \/ r.phase \in {"running", "saving"} /\ r.next = "__end__",
             InWorker(j) \/ Cardinality(Workers) < MaxJobs
      PROVE  Moves
  <2>1. JobIds' = JobIds
    BY <1>b DEF Replaced, JobIds
  <2>2. \A k \in JobIds : Spent(k) => Spent(k)'
    BY <1>b DEF Replaced, Spent
  <2>3. \A k \in JobIds \ {j} : InWorker(k)' => InWorker(k)
    BY <1>b DEF Replaced, InWorker
  <2> QED BY <1>b, <2>1, <2>2, <2>3 DEF Replaced
<1>c. ASSUME NEW j \in JobIds, NEW phase \in Phases, SetPhase(j, phase),
             Spent(j) => \/ phase \in {"failing", "over"}
                         \/ phase = "running" /\ jobs[j].next = "__end__",
             InWorker(j) \/ Cardinality(Workers) < MaxJobs
      PROVE  Moves
  <2> DEFINE r == [jobs[j] EXCEPT !.phase = phase]
  <2>1. /\ Replaced(j, r) /\ r.thread = jobs[j].thread
        /\ r.phase = phase /\ r.next = jobs[j].next
    BY <1>a, <1>c, PhaseSet
  <2> HIDE DEF r, Moves
  <2> QED BY <1>b, <1>c, <2>1
<1>d. ASSUME NEW kind \in JobKinds, NEW t \in Threads,
             jobs' = Append(jobs, NewJob(kind, t))
      PROVE  Moves
  <2>1. /\ jobs' \in Seq(JobRecords)
        /\ Len(jobs) \in Nat /\ Len(jobs') = Len(jobs) + 1
        /\ \A k \in JobIds : jobs'[k] = jobs[k]
        /\ jobs'[Len(jobs) + 1].phase = "queued"
    <3>1. Len(jobs) \in Nat
      BY <1>a
    <3> HIDE DEF Moves
    <3> QED BY <1>a, <1>d, <3>1, Appended
  <2>2. /\ JobIds \subseteq JobIds'
        /\ \A k \in JobIds' \ JobIds : jobs'[k].phase = "queued"
    BY <2>1 DEF JobIds
  <2>3. \A k \in JobIds : (Spent(k) => Spent(k)') /\ (InWorker(k)' => InWorker(k))
    BY <2>1 DEF Spent, InWorker
  <2> QED BY <2>1, <2>2, <2>3
<1>e. ASSUME UNCHANGED jobs PROVE Moves
  <2>1. JobIds' = JobIds
    BY <1>e DEF JobIds
  <2>2. \A k \in JobIds : (Spent(k) => Spent(k)') /\ (InWorker(k)' => InWorker(k))
    BY <1>e DEF Spent, InWorker
  <2> QED BY <1>a, <1>e, <2>1, <2>2
<1>f. \A j \in JobIds : CanStart(j) => ~Spent(j) /\ Cardinality(Workers) < MaxJobs
  BY DEF CanStart, Spent, Workers
<1> HIDE DEF Moves
<1>1. ASSUME NEW j \in JobIds, StartQualification(j) PROVE Moves
  <2>1. PICK r \in JobRecords : Replaced(j, r) /\ r.thread = jobs[j].thread
    BY <1>1, StartEffect
  <2> QED BY <1>1, <1>b, <1>f, <2>1 DEF StartQualification
<1>2. ASSUME NEW j \in JobIds, StartResume(j) PROVE Moves
  <2>1. PICK r \in JobRecords : Replaced(j, r) /\ r.thread = jobs[j].thread
    BY <1>2, ResumeEffect
  <2> QED BY <1>2, <1>b, <1>f, <2>1 DEF StartResume
<1>3. ASSUME NEW j \in JobIds, RefuseResume(j) PROVE Moves
  BY <1>3, <1>c, <1>f DEF RefuseResume, Phases
<1>4. ASSUME NEW j \in JobIds, RunNode(j) \/ RunDelivery(j) PROVE Moves
  <2>1. /\ jobs[j].next \in Nodes /\ jobs[j].phase = "running"
        /\ \E s \in AgentState : Return(j, s)
    <3>1. CASE RunNode(j)
      BY <1>a, <3>1, NodeEffect, JobTypes DEF RunNode
    <3>2. CASE RunDelivery(j)
      BY <1>a, <3>2, DeliveryOutcomes, JobTypes DEF RunDelivery, Nodes
    <3> QED BY <1>4, <3>1, <3>2
  <2>2. PICK r \in JobRecords : Replaced(j, r) /\ r.thread = jobs[j].thread
    BY <1>a, <2>1, Returned
  <2>3. ~Spent(j) /\ InWorker(j)
    BY <2>1 DEF Spent, InWorker, Nodes
  <2> QED BY <1>b, <2>2, <2>3
<1>5. ASSUME NEW j \in JobIds, SaveCheckpoint(j) PROVE Moves
  BY <1>5, <1>c DEF SaveCheckpoint, Phases, Spent, InWorker
<1>6. ASSUME NEW j \in JobIds, EndJob(j) \/ MarkError(j) \/ FailToMarkError(j) \/ TimeOut(j)
      PROVE  Moves
  <2>1. InWorker(j) /\ SetPhase(j, "over") /\ "over" \in Phases
    BY <1>6 DEF EndJob, MarkError, FailToMarkError, TimeOut, InWorker, Phases
  <2> QED BY <1>c, <2>1
<1>7. ASSUME NEW j \in JobIds, Raise(j) PROVE Moves
  <2>1. InWorker(j) /\ SetPhase(j, "failing") /\ "failing" \in Phases
    BY <1>7 DEF Raise, InWorker, Phases
  <2> QED BY <1>c, <2>1
<1>8. ASSUME NEW o \in Operators, EnqueueResume(o) PROVE Moves
  BY <1>d, <1>8, RequestTypes, RequestSteps DEF EnqueueResume, JobKinds
<1>9. ASSUME NEW t \in Threads, SubmitLead(t) PROVE Moves
  BY <1>d, <1>9 DEF SubmitLead, JobKinds
<1>10. ASSUME NEW o \in Operators, WriteRejection(o) \/ WriteApproval(o) \/ LoseRequest(o)
       PROVE  Moves
  BY <1>e, <1>10 DEF WriteRejection, WriteApproval, LoseRequest
<1>11. ASSUME NEW o \in Operators, NEW t \in Threads, NEW approved \in BOOLEAN,
              CheckReview(o, t, approved)
       PROVE  Moves
  BY <1>e, <1>11 DEF CheckReview
<1>12. Moves
  BY <1>1, <1>2, <1>3, <1>4, <1>5, <1>6, <1>7, <1>8, <1>9, <1>10, <1>11
     DEF Next, WorkerStep, JobStep, ApiStep, FaultStep, ClientStep
<1> QED BY <1>12 DEF Moves

\* Only an accepted delivery adds a quote, and it spends its job.
LEMMA QuoteSpends ==
    ASSUME TypeOK, Next, NEW t \in Threads, quotes'[t] # quotes[t]
    PROVE  /\ quotes'[t] = quotes[t] + 1
           /\ UNCHANGED crashes
           /\ \E j \in JobsOf(t) : ~Spent(j) /\ Spent(j)'
<1>a. jobs \in Seq(JobRecords) /\ quotes \in [Threads -> Nat]
  BY DEF TypeOK
<1>1. PICK j \in JobIds : RunDelivery(j) /\ ~UNCHANGED quotes
  BY DEF Next, WorkerStep, JobStep, ApiStep, FaultStep, ClientStep,
         StartQualification, StartResume, RefuseResume, RunNode, SaveCheckpoint,
         EndJob, Raise, MarkError, FailToMarkError, TimeOut, CrashWorker,
         WriteRejection, WriteApproval, EnqueueResume, LoseRequest,
         CheckReview, SubmitLead
<1>2. /\ Return(j, DeliverySucceeded(jobs[j].state))
      /\ quotes' = [quotes EXCEPT ![jobs[j].thread] = @ + 1]
      /\ jobs[j].phase = "running" /\ jobs[j].next = "delivery"
      /\ jobs[j].state \in AgentState /\ "delivery" \in Nodes
      /\ UNCHANGED crashes
  BY <1>a, <1>1, JobTypes DEF RunDelivery, Nodes
<1>3. PICK r \in JobRecords :
          /\ Replaced(j, r) /\ r.phase = "saving"
          /\ r.next = Edge("delivery", DeliverySucceeded(jobs[j].state))
  BY <1>a, <1>2, DeliveryOutcomes, Returned
<1>4. ~Spent(j) /\ Spent(j)'
  BY <1>2, <1>3, DeliveryOutcomes DEF Spent, Replaced
<1>5. jobs[j].thread = t
  BY <1>a, <1>2
<1> QED BY <1>a, <1>2, <1>4, <1>5 DEF JobsOf

LEMMA SlotInductive == TypeOK /\ SlotInv /\ [Next]_vars => SlotInv'
<1> SUFFICES ASSUME TypeOK, SlotInv, [Next]_vars PROVE SlotInv'
  OBVIOUS
<1>a. jobs \in Seq(JobRecords)
  BY DEF TypeOK
<1>1. CASE CrashWorker
  <2>1. \A k \in JobIds : ~InWorker(k)'
    BY <1>a, <1>1, Requeued DEF InWorker
  <2>2. JobIds' = JobIds
    BY <1>a, <1>1, Requeued DEF JobIds
  <2>3. Workers' = {}
    BY <2>1, <2>2 DEF Workers
  <2> QED BY <2>3, FS_EmptySet DEF SlotInv
<1>2. CASE Next /\ ~CrashWorker
  <2>1. /\ JobIds \subseteq JobIds'
        /\ \A k \in JobIds' \ JobIds : ~InWorker(k)'
        /\ \/ \A k \in JobIds : InWorker(k)' => InWorker(k)
           \/ \E j \in JobIds :
                 /\ Cardinality(Workers) < MaxJobs
                 /\ \A k \in JobIds \ {j} : InWorker(k)' => InWorker(k)
    BY <1>2, JobsMove DEF InWorker
  <2>2. CASE \A k \in JobIds : InWorker(k)' => InWorker(k)
    <3>1. Workers' \in SUBSET Workers
      BY <2>1, <2>2 DEF Workers
    <3>2. Cardinality(Workers') <= Cardinality(Workers) /\ Cardinality(Workers') \in Nat
      BY <1>a, <3>1, JobSetsFinite, FS_Subset, FS_CardinalityType
    <3> QED BY <1>a, <3>2, JobSetsFinite DEF SlotInv
  <2>3. ASSUME NEW j \in JobIds, Cardinality(Workers) < MaxJobs,
               \A k \in JobIds \ {j} : InWorker(k)' => InWorker(k)
        PROVE  SlotInv'
    <3>1. Workers' \in SUBSET (Workers \cup {j})
      BY <2>1, <2>3 DEF Workers
    <3>2. /\ IsFiniteSet(Workers \cup {j})
          /\ Cardinality(Workers \cup {j}) <= Cardinality(Workers) + 1
          /\ Cardinality(Workers \cup {j}) \in Nat
      <4>1. IsFiniteSet(Workers) /\ Cardinality(Workers) \in Nat
        BY <1>a, JobSetsFinite
      <4>2. /\ IsFiniteSet(Workers \cup {j})
            /\ Cardinality(Workers \cup {j}) =
                 IF j \in Workers THEN Cardinality(Workers) ELSE Cardinality(Workers) + 1
        BY <4>1, FS_AddElement
      <4> QED BY <4>1, <4>2
    <3>3. Cardinality(Workers') <= Cardinality(Workers \cup {j})
          /\ Cardinality(Workers') \in Nat
      BY <3>1, <3>2, FS_Subset, FS_CardinalityType
    <3> QED BY <1>a, <2>3, <3>2, <3>3, JobSetsFinite DEF SlotInv
  <2> QED BY <2>1, <2>2, <2>3
<1>3. CASE UNCHANGED vars
  <2>1. Workers' = Workers
    BY <1>3 DEF vars, Workers, JobIds, InWorker
  <2> QED BY <2>1 DEF SlotInv
<1> QED BY <1>1, <1>2, <1>3

LEMMA AccountInductive ==
    TypeOK /\ SlotInv /\ AccountInv /\ [Next]_vars /\ TypeOK' => AccountInv'
<1> SUFFICES ASSUME TypeOK, SlotInv, AccountInv, [Next]_vars, TypeOK',
                    NEW t \in Threads
             PROVE  quotes'[t] <= Cardinality(SpentOf(t)') + MaxJobs * crashes'
  BY DEF AccountInv
<1>a. /\ jobs \in Seq(JobRecords) /\ jobs' \in Seq(JobRecords)
      /\ quotes[t] \in Nat /\ quotes'[t] \in Nat
      /\ crashes \in Nat /\ crashes' \in Nat
      /\ quotes[t] <= Cardinality(SpentOf(t)) + MaxJobs * crashes
      /\ MaxJobs * crashes \in Nat /\ MaxJobs * crashes' \in Nat
  <2>1. /\ jobs \in Seq(JobRecords) /\ jobs' \in Seq(JobRecords)
        /\ quotes[t] \in Nat /\ quotes'[t] \in Nat
        /\ crashes \in Nat /\ crashes' \in Nat
    BY DEF TypeOK
  <2>2. \A x \in Nat : MaxJobs * x \in Nat
    OBVIOUS
  <2> QED BY <2>1, <2>2 DEF AccountInv
<1>b. /\ IsFiniteSet(SpentOf(t)) /\ Cardinality(SpentOf(t)) \in Nat
      /\ IsFiniteSet(Workers) /\ Cardinality(Workers) \in Nat
  BY <1>a, JobSetsFinite
<1>c. IsFiniteSet(SpentOf(t)') /\ Cardinality(SpentOf(t)') \in Nat
  <2>1. IsFiniteSet(JobIds')
    BY <1>a, FS_Interval DEF JobIds
  <2>2. SpentOf(t)' \in SUBSET JobIds'
    BY DEF SpentOf, JobsOf
  <2> QED BY <2>1, <2>2, FS_Subset, FS_CardinalityType
<1>1. CASE CrashWorker
  <2>1. /\ crashes' = crashes + 1 /\ quotes' = quotes
    BY <1>1 DEF CrashWorker
  <2>2. SpentOf(t) \in SUBSET (SpentOf(t)' \cup Workers)
    <3>1. JobIds' = JobIds
      BY <1>a, <1>1, Requeued DEF JobIds
    <3>2. \A k \in JobIds : ~InWorker(k) => jobs'[k] = jobs[k]
      BY <1>a, <1>1, Requeued
    <3> QED BY <3>1, <3>2 DEF SpentOf, JobsOf, Workers, Spent
  <2>3. Cardinality(SpentOf(t)) <= Cardinality(SpentOf(t)') + Cardinality(Workers)
    <3>1. /\ IsFiniteSet(SpentOf(t)' \cup Workers)
          /\ Cardinality(SpentOf(t)' \cup Workers) =
               Cardinality(SpentOf(t)') + Cardinality(Workers)
                 - Cardinality(SpentOf(t)' \cap Workers)
          /\ Cardinality(SpentOf(t)' \cap Workers) \in Nat
      BY <1>b, <1>c, FS_Union, FS_Intersection, FS_CardinalityType
    <3>2. Cardinality(SpentOf(t)) <= Cardinality(SpentOf(t)' \cup Workers)
      BY <2>2, <3>1, FS_Subset
    <3> QED BY <1>b, <1>c, <3>1, <3>2
  <2>4. Cardinality(Workers) <= MaxJobs
    BY DEF SlotInv
  <2>5. MaxJobs * crashes' = MaxJobs * crashes + MaxJobs
    <3>1. \A x \in Nat : MaxJobs * (x + 1) = MaxJobs * x + MaxJobs
      OBVIOUS
    <3> QED BY <1>a, <2>1, <3>1
  <2> QED BY <1>a, <1>b, <1>c, <2>1, <2>3, <2>4, <2>5
<1>2. CASE Next /\ ~CrashWorker
  <2>1. SpentOf(t) \in SUBSET (SpentOf(t)')
    <3>1. /\ JobIds \subseteq JobIds'
          /\ \A k \in JobIds : jobs'[k].thread = jobs[k].thread
          /\ \A k \in JobIds : Spent(k) => Spent(k)'
      BY <1>2, JobsMove
    <3> QED BY <3>1 DEF SpentOf, JobsOf
  <2>2. Cardinality(SpentOf(t)) <= Cardinality(SpentOf(t)')
    BY <1>c, <2>1, FS_Subset
  <2>3. crashes' = crashes
    BY <1>2 DEF Next, WorkerStep, JobStep, ApiStep, FaultStep, ClientStep,
         StartQualification, StartResume, RefuseResume, RunNode, RunDelivery,
         SaveCheckpoint, EndJob, Raise, MarkError, FailToMarkError, TimeOut,
         WriteRejection, WriteApproval, EnqueueResume, LoseRequest,
         CheckReview, SubmitLead
  <2>4. CASE quotes'[t] = quotes[t]
    BY <1>a, <1>b, <1>c, <2>2, <2>3, <2>4
  <2>5. CASE quotes'[t] # quotes[t]
    <3>1. PICK j \in JobsOf(t) : ~Spent(j) /\ Spent(j)'
      BY <1>2, <2>5, QuoteSpends
    <3>2. quotes'[t] = quotes[t] + 1
      BY <1>2, <2>5, QuoteSpends
    <3>3. j \notin SpentOf(t) /\ SpentOf(t) \cup {j} \in SUBSET (SpentOf(t)')
      <4>1. j \in JobsOf(t)'
        BY <1>2, <3>1, JobsMove DEF JobsOf
      <4> QED BY <2>1, <3>1, <4>1 DEF SpentOf
    <3>4. Cardinality(SpentOf(t)) + 1 <= Cardinality(SpentOf(t)')
      <4>1. Cardinality(SpentOf(t) \cup {j}) = Cardinality(SpentOf(t)) + 1
        BY <1>b, <3>3, FS_AddElement
      <4> QED BY <1>c, <3>3, <4>1, FS_Subset
    <3> QED BY <1>a, <1>b, <1>c, <2>3, <3>2, <3>4
  <2> QED BY <2>4, <2>5
<1>3. CASE UNCHANGED vars
  <2>1. SpentOf(t)' = SpentOf(t) /\ quotes' = quotes /\ crashes' = crashes
    BY <1>3 DEF vars, SpentOf, JobsOf, JobIds, Spent
  <2> QED BY <1>a, <2>1
<1> QED BY <1>1, <1>2, <1>3

\* Under any fault a lead has at most one quote per job, and one more per slot
\* and restart of the worker: nothing else makes the tenant's system receive a
\* quote again (graph.py:118-120, worker_settings.py).
THEOREM QuotesAccounted == Spec => []QuotesAreAccounted
<1>1. Init => SlotInv /\ AccountInv
  <2> SUFFICES ASSUME Init PROVE SlotInv /\ AccountInv
    OBVIOUS
  <2>1. JobIds = {}
    BY DEF Init, JobIds
  <2>2. Workers = {} /\ \A t : SpentOf(t) = {}
    BY <2>1 DEF Workers, SpentOf, JobsOf
  <2>3. quotes = [t \in Threads |-> 0] /\ crashes = 0
    BY DEF Init
  <2> QED BY <2>2, <2>3, FS_EmptySet DEF SlotInv, AccountInv
<1>2. TypeOK /\ AccountInv => QuotesAreAccounted
  <2> SUFFICES ASSUME TypeOK, AccountInv, NEW t \in Threads
               PROVE  quotes[t] <= Cardinality(JobsOf(t)) + MaxJobs * crashes
    BY DEF QuotesAreAccounted
  <2>1. /\ jobs \in Seq(JobRecords) /\ quotes[t] \in Nat /\ crashes \in Nat
        /\ quotes[t] <= Cardinality(SpentOf(t)) + MaxJobs * crashes
    BY DEF TypeOK, AccountInv
  <2>2. \A x \in Nat : MaxJobs * x \in Nat
    OBVIOUS
  <2>3. MaxJobs * crashes \in Nat
    BY <2>1, <2>2
  <2>4. /\ Cardinality(SpentOf(t)) <= Cardinality(JobsOf(t))
        /\ Cardinality(SpentOf(t)) \in Nat /\ Cardinality(JobsOf(t)) \in Nat
    BY <2>1, JobSetsFinite
  <2> QED BY <2>1, <2>3, <2>4
<1> QED BY <1>1, <1>2, SlotInductive, AccountInductive, TypeCorrect, PTL DEF Spec

-----------------------------------------------------------------------------
(* Without faults: every lead has one holder at a time *)

\* No fault, one submission per lead, one operator, and a threshold that is
\* not switched off.
Calm ==
    /\ Faults = {}
    /\ MaxSubmissions <= 1
    /\ \A o, p \in Operators : o = p
    /\ EvaluatorThreshold > 0

\* A job at the interrupt writes nothing any more.
Parked(j) == jobs[j].phase = "running" /\ jobs[j].next = "hitl_interrupt"

Done(j) == jobs[j].phase = "over" \/ Parked(j)

\* What a state holds when its run is about to take node n.
AtNode(s, n) ==
    /\ n \in Nodes \cup {"__end__"}
    /\ n \in {"sanitizer", "mapper", "evaluator"} =>
          s.status = "processing" /\ s.human_approved = "None"
    /\ n = "extractor" =>
          /\ s.human_approved = "None"
          /\ \/ s.status = "processing"
             \/ s.status = "error" /\ s.sanitized_text = "empty"
    /\ n = "hitl_interrupt" =>
          s.status = "pending_review" /\ s.human_approved = "None"
    /\ n = "calculator" =>
          \/ s.status = "processing"
          \/ s.status = "queued" /\ s.human_approved = "True"
    /\ n = "delivery" => s.status = "processing"
    /\ n = "__end__" =>
          \/ s.status = "completed"
          \/ /\ s.status = "processing"
             /\ s.delivery_status = "FAILED"
             /\ s.delivery_attempts >= DeliveryMaxAttempts

\* A quote exactly for a completed state.
QuotesOf(s) == IF s.status = "completed" THEN 1 ELSE 0

\* Operator o has an approve request on the thread in flight.
OnThread(o, t) == requests[o] # NoRequest /\ requests[o].thread = t

Unrequested(t) == \A o \in Operators : ~OnThread(o, t)

\* The approval is in the checkpoint, which leads on to the calculator.
ApprovedIn(c) ==
    /\ c.saved
    /\ c.state.status = "queued"
    /\ c.state.human_approved = "True"
    /\ c.last = "evaluator"
    /\ c.next = "calculator"

\* The holder is the thread's youngest job; the others are done.
Holder(t, j) ==
    /\ j \in JobsOf(t)
    /\ \A k \in JobsOf(t) : k # j => k < j /\ Done(k)

\* The holder is in the queue.
Waits(t, j) ==
    /\ jobs[j].phase = "queued"
    /\ quotes[t] = 0
    /\ \/ jobs[j].kind = "run_qualification_task" /\ checkpoint[t] = NoCheckpoint
       \/ jobs[j].kind = "run_qualification_task_resume" /\ ApprovedIn(checkpoint[t])

\* The holder is between two nodes: its copy is the checkpoint.
Runs(t, j) ==
    /\ jobs[j].phase = "running"
    /\ jobs[j].next # "hitl_interrupt"
    /\ AtNode(jobs[j].state, jobs[j].next)
    /\ jobs[j].next # "sanitizer" => jobs[j].last # "none"
    /\ checkpoint[t].saved
    /\ checkpoint[t].state = jobs[j].state
    /\ checkpoint[t].last = jobs[j].last
    /\ checkpoint[t].next = jobs[j].next
    /\ quotes[t] = QuotesOf(jobs[j].state)

\* The holder has run a node and not yet saved what it returned.
Saves(t, j) ==
    /\ jobs[j].phase = "saving"
    /\ AtNode(jobs[j].state, jobs[j].next)
    /\ jobs[j].last # "none"
    /\ jobs[j].next = "hitl_interrupt" => jobs[j].last = "evaluator"
    /\ jobs[j].state.status # "queued"
    /\ checkpoint[t].saved
    /\ checkpoint[t].state.human_approved = jobs[j].state.human_approved
    /\ \/ checkpoint[t].state.status = "processing"
       \/ checkpoint[t].state.status = "queued" /\ jobs[j].state.status = "processing"
    /\ quotes[t] = QuotesOf(jobs[j].state)

\* The holder has raised: aupdate_state will find an edge.
Fails(t, j) ==
    /\ jobs[j].phase = "failing"
    /\ checkpoint[t].saved
    /\ checkpoint[t].last # "none"
    /\ checkpoint[t].state.status \in {"queued", "processing", "error"}
    /\ quotes[t] = 0

Held(t) ==
    /\ Unrequested(t)
    /\ \E j \in JobIds :
          Holder(t, j) /\ (Waits(t, j) \/ Runs(t, j) \/ Saves(t, j) \/ Fails(t, j))

Fresh(t) ==
    /\ Unrequested(t)
    /\ JobsOf(t) = {}
    /\ checkpoint[t] = NoCheckpoint
    /\ quotes[t] = 0

\* Suspended: the operator may have passed the check.
Reviewed(t) ==
    /\ checkpoint[t].state.status = "pending_review"
    /\ checkpoint[t].state.human_approved = "None"
    /\ checkpoint[t].last = "evaluator"
    /\ quotes[t] = 0
    /\ \A o \in Operators : OnThread(o, t) => requests[o].step = "checked"

\* Approved: the request has yet to enqueue the job.
Decided(t) ==
    /\ ApprovedIn(checkpoint[t])
    /\ quotes[t] = 0
    /\ \E o \in Operators : OnThread(o, t)
    /\ \A o \in Operators : OnThread(o, t) => requests[o].step = "updated"

\* The lead has its last status.
Closed(t) ==
    /\ Unrequested(t)
    /\ \/ checkpoint[t].state.status = "completed" /\ quotes[t] = 1
       \/ checkpoint[t].state.status = "error" /\ quotes[t] = 0
       \/ /\ checkpoint[t].state.status = "processing"
          /\ DeliveryAbandoned(t)
          /\ quotes[t] = 0

Settled(t) ==
    /\ checkpoint[t].saved
    /\ JobsOf(t) # {}
    /\ \A j \in JobsOf(t) : Done(j)
    /\ Reviewed(t) \/ Decided(t) \/ Closed(t)

Situation(t) == Fresh(t) \/ Held(t) \/ Settled(t)

\* A lead has jobs only since it was submitted; a rejected one is closed.
SubmittedInv ==
    \A t \in Threads :
        JobsOf(t) # {} => \E j \in JobsOf(t) : jobs[j].kind = "run_qualification_task"

RejectedInv ==
    \A t \in rejected : Settled(t) /\ checkpoint[t].state.status = "error"

CalmInv ==
    /\ \A t \in Threads : Situation(t)
    /\ SubmittedInv
    /\ RejectedInv

-----------------------------------------------------------------------------
(* What the nodes do to a state that is where the graph says *)

\* A run that is about to take a node goes on to a state that fits the next
\* node; the run of a lead without text ends before (RunsInVain).
LEMMA NodeMoves ==
    ASSUME NEW n \in Nodes \ {"delivery", "hitl_interrupt"},
           NEW s \in AgentState, AtNode(s, n),
           ~(n = "extractor" /\ ~CallsLLM(s)),
           NEW r \in NodeReturns(n, s)
    PROVE  /\ AtNode(r, Edge(n, r))
           /\ Edge(n, r) = "hitl_interrupt" => n = "evaluator"
           /\ r.status \notin {"queued", "completed"}
           /\ \/ s.status = "processing"
              \/ s.status = "queued" /\ r.status = "processing"
<1>a. n \in {"sanitizer", "extractor", "mapper", "evaluator", "calculator"}
  BY DEF Nodes
<1>b. r \in AgentState /\ r.status \in Statuses /\ r.human_approved = s.human_approved
  BY NodeEffect, FieldTypes
<1>1. CASE n = "sanitizer"
  <2>1. /\ \/ r.status = "processing"
           \/ r.status = "error" /\ r.sanitized_text = "empty"
        /\ Edge(n, r) = "extractor"
    BY <1>1, SanitizerEffect, Edges DEF NodeReturns
  <2> QED BY <1>1, <1>b, <2>1 DEF AtNode, Nodes
<1>2. CASE n = "extractor"
  <2>1. s.status = "processing" /\ s.human_approved = "None"
    BY <1>2 DEF AtNode, CallsLLM
  <2>2. r.status = s.status /\ Edge(n, r) = "mapper"
    BY <1>2, ExtractorEffect, Edges DEF NodeReturns
  <2> QED BY <1>2, <1>b, <2>1, <2>2 DEF AtNode, Nodes
<1>3. CASE n = "mapper"
  <2>1. r.status = s.status /\ Edge(n, r) = "evaluator"
    BY <1>3, MapperEffect, Edges DEF NodeReturns
  <2> QED BY <1>3, <1>b, <2>1 DEF AtNode, Nodes
<1>4. CASE n = "evaluator"
  <2>1. s.status = "processing" /\ s.human_approved = "None"
    BY <1>4 DEF AtNode
  <2>2. /\ r.confidence_score = Score(s)
        /\ r.retry_count = s.retry_count
        /\ r.status = IF HeadingToHitl(Score(s), s) THEN "pending_review" ELSE s.status
        /\ Edge(n, r) = RouteAfterEvaluator(r)
    BY <1>4, EvaluatorEffect, Edges DEF NodeReturns
  <2>3. Score(s) \in 0..Scale /\ s.retry_count \in Nat
    BY ScoreType, FieldTypes
  <2>4. Edge(n, r) = "hitl_interrupt" <=> HeadingToHitl(Score(s), s)
    BY <2>2, <2>3 DEF RouteAfterEvaluator, HeadingToHitl
  <2>5. Edge(n, r) \in {"calculator", "extractor", "hitl_interrupt"}
    BY <2>2, Edges
  <2> QED BY <1>4, <1>b, <2>1, <2>2, <2>4, <2>5 DEF AtNode, Nodes
<1>5. CASE n = "calculator"
  <2>1. r.status = "processing" /\ Edge(n, r) = "delivery"
    BY <1>5, CalculatorEffect, Edges DEF NodeReturns
  <2> QED BY <1>5, <1>b, <2>1 DEF AtNode, Nodes
<1> QED BY <1>a, <1>1, <1>2, <1>3, <1>4, <1>5

\* Either outcome of a delivery fits where the graph goes: again to the
\* adapter, or to its end with the quote accepted or the attempts spent.
LEMMA DeliveryMoves ==
    ASSUME NEW s \in AgentState, AtNode(s, "delivery")
    PROVE  /\ s.status = "processing"
           /\ AtNode(DeliverySucceeded(s), Edge("delivery", DeliverySucceeded(s)))
           /\ AtNode(DeliveryFailed(s), Edge("delivery", DeliveryFailed(s)))
           /\ Edge("delivery", DeliveryFailed(s)) # "hitl_interrupt"
<1>1. s.status = "processing"
  BY DEF AtNode
<1>2. AtNode(DeliverySucceeded(s), Edge("delivery", DeliverySucceeded(s)))
  BY DeliveryOutcomes DEF AtNode
<1>3. /\ DeliveryFailed(s).status = "processing"
      /\ DeliveryFailed(s).delivery_status = "FAILED"
      /\ DeliveryFailed(s).delivery_attempts \in Nat
  BY <1>1, DeliveryOutcomes, FieldTypes
<1>4. Edge("delivery", DeliveryFailed(s)) = RouteAfterDelivery(DeliveryFailed(s))
  BY Edges
<1>5. CASE DeliveryFailed(s).delivery_attempts < DeliveryMaxAttempts
  <2>1. Edge("delivery", DeliveryFailed(s)) = "delivery"
    BY <1>3, <1>4, <1>5 DEF RouteAfterDelivery
  <2> QED BY <1>1, <1>2, <1>3, <2>1 DEF AtNode, Nodes
<1>6. CASE ~(DeliveryFailed(s).delivery_attempts < DeliveryMaxAttempts)
  <2>1. Edge("delivery", DeliveryFailed(s)) = "__end__"
    BY <1>3, <1>4, <1>6 DEF RouteAfterDelivery
  <2>2. DeliveryFailed(s).delivery_attempts >= DeliveryMaxAttempts
    BY <1>3, <1>6
  <2> QED BY <1>1, <1>2, <1>3, <2>1, <2>2 DEF AtNode
<1> QED BY <1>5, <1>6

\* An approval leads on to the calculator (routes.py:281-288).
LEMMA ApprovalMoves ==
    ASSUME NEW s \in AgentState
    PROVE  /\ Approved(s).status = "queued"
           /\ Approved(s).human_approved = "True"
           /\ Edge("evaluator", Approved(s)) = "calculator"
<1>1. Edge("evaluator", Approved(s)) = RouteAfterEvaluator(Approved(s))
  BY Edges
<1>2. Approved(s).confidence_score = Scale
  BY ApprovedEffect
<1>3. Edge("evaluator", Approved(s)) = "calculator"
  BY <1>1, <1>2 DEF RouteAfterEvaluator
<1> QED BY <1>3, ApprovedEffect

-----------------------------------------------------------------------------
(* What a step does to one lead *)

\* A decision in the checkpoint stays.
Kept(t) ==
    checkpoint[t].state.human_approved # "None" =>
        checkpoint'[t].state.human_approved = checkpoint[t].state.human_approved

\* Status and quotes take a step of the promised lifecycle, or none.
Lives(t) == [Lifecycle(t)!Next]_(Lifecycle(t)!lifecycleVars)

Advances(t) == Situation(t)' /\ Kept(t) /\ Lives(t)

\* The lifecycle, by the status before and after.
LEMMA LifecycleSteps ==
    ASSUME NEW t \in Threads, NEW before, NEW after,
           before = ObservedStatus(t), after = ObservedStatus(t)',
           \/ before = after /\ quotes'[t] = quotes[t]
           \/ before = "queued" /\ after = "processing" /\ quotes'[t] = quotes[t]
           \/ before = "processing" /\ after = "pending_review" /\ quotes'[t] = quotes[t]
           \/ before = "pending_review" /\ after = "queued" /\ quotes'[t] = quotes[t]
           \/ /\ before \in {"queued", "processing", "pending_review"}
              /\ after = "error" /\ quotes[t] = 0 /\ quotes'[t] = quotes[t]
           \/ /\ before = "processing" /\ after = "processing"
              /\ quotes[t] = 0 /\ quotes'[t] = 1
           \/ before = "processing" /\ after = "completed" /\ quotes'[t] = 1
    PROVE  Lives(t)
<1> USE DEF Lives
<1>1. CASE before = after /\ quotes'[t] = quotes[t]
  BY <1>1 DEF Lifecycle!lifecycleVars
<1>2. CASE before = "queued" /\ after = "processing" /\ quotes'[t] = quotes[t]
  <2>1. Lifecycle(t)!Process
    BY <1>2 DEF Lifecycle!Process
  <2> QED BY <2>1 DEF Lifecycle!Next
<1>3. CASE before = "processing" /\ after = "pending_review" /\ quotes'[t] = quotes[t]
  <2>1. Lifecycle(t)!AskForReview
    BY <1>3 DEF Lifecycle!AskForReview
  <2> QED BY <2>1 DEF Lifecycle!Next
<1>4. CASE before = "pending_review" /\ after = "queued" /\ quotes'[t] = quotes[t]
  <2>1. Lifecycle(t)!Approve
    BY <1>4 DEF Lifecycle!Approve
  <2> QED BY <2>1 DEF Lifecycle!Next
<1>5. CASE /\ before \in {"queued", "processing", "pending_review"}
           /\ after = "error" /\ quotes[t] = 0 /\ quotes'[t] = quotes[t]
  <2>1. Lifecycle(t)!Fail
    BY <1>5 DEF Lifecycle!Fail
  <2> QED BY <2>1 DEF Lifecycle!Next
<1>6. CASE /\ before = "processing" /\ after = "processing"
           /\ quotes[t] = 0 /\ quotes'[t] = 1
  <2>1. Lifecycle(t)!Quote
    BY <1>6 DEF Lifecycle!Quote
  <2> QED BY <2>1 DEF Lifecycle!Next
<1>7. CASE before = "processing" /\ after = "completed" /\ quotes'[t] = 1
  <2>1. Lifecycle(t)!Complete
    BY <1>7 DEF Lifecycle!Complete
  <2> QED BY <2>1 DEF Lifecycle!Next
<1> QED BY <1>1, <1>2, <1>3, <1>4, <1>5, <1>6, <1>7

\* A lead that a step does not touch stays where it is.
LEMMA Untouched ==
    ASSUME NEW t \in Threads, Situation(t),
           JobsOf(t)' = JobsOf(t),
           \A k \in JobsOf(t) : jobs'[k] = jobs[k],
           checkpoint'[t] = checkpoint[t], quotes'[t] = quotes[t],
           \A o \in Operators : /\ OnThread(o, t)' <=> OnThread(o, t)
                                /\ OnThread(o, t) => requests'[o] = requests[o]
    PROVE  Advances(t) /\ (Settled(t) => Settled(t)')
<1>1. Kept(t)
  BY DEF Kept
<1>2. Lives(t)
  <2>1. ObservedStatus(t)' = ObservedStatus(t)
    BY DEF ObservedStatus
  <2> QED BY <2>1, LifecycleSteps
<1>3. Unrequested(t) => Unrequested(t)'
  BY DEF Unrequested
<1>4. Fresh(t) => Fresh(t)'
  BY <1>3 DEF Fresh
<1>5. ASSUME NEW j \in JobsOf(t) PROVE Done(j)' <=> Done(j)
  BY DEF Done, Parked
<1>6. Held(t) => Held(t)'
  <2> SUFFICES ASSUME Held(t) PROVE Held(t)'
    OBVIOUS
  <2>1. PICK j \in JobIds : /\ Holder(t, j)
                            /\ Waits(t, j) \/ Runs(t, j) \/ Saves(t, j) \/ Fails(t, j)
    BY DEF Held
  <2>2. j \in JobsOf(t) /\ j \in JobIds'
    BY <2>1 DEF Holder, JobsOf
  <2>3. Holder(t, j)'
    BY <1>5, <2>1 DEF Holder
  <2>4. (Waits(t, j) \/ Runs(t, j) \/ Saves(t, j) \/ Fails(t, j))'
    BY <2>1, <2>2 DEF Waits, Runs, Saves, Fails
  <2> QED BY <1>3, <2>2, <2>3, <2>4 DEF Held
<1>7. Reviewed(t) => Reviewed(t)'
  BY DEF Reviewed
<1>8. Decided(t) => Decided(t)'
  BY DEF Decided
<1>9. Closed(t) => Closed(t)'
  BY <1>3 DEF Closed, DeliveryAbandoned
<1>10. Settled(t) => Settled(t)'
  BY <1>5, <1>7, <1>8, <1>9 DEF Settled
<1> QED BY <1>1, <1>2, <1>4, <1>6, <1>10 DEF Advances, Situation

\* A job that is not done is its lead's holder.
LEMMA HolderOf ==
    ASSUME TypeOK, CalmInv, NEW j \in JobIds, NEW t, jobs[j].thread = t, ~Done(j)
    PROVE  /\ t \in Threads
           /\ Unrequested(t)
           /\ Holder(t, j)
           /\ Waits(t, j) \/ Runs(t, j) \/ Saves(t, j) \/ Fails(t, j)
           /\ ~Settled(t)
           /\ t \notin rejected
<1>0. t \in Threads /\ Situation(t)
  BY JobTypes DEF TypeOK, CalmInv
<1>1. j \in JobsOf(t)
  BY DEF JobsOf
<1>2. ~Fresh(t) /\ ~Settled(t)
  BY <1>1 DEF Fresh, Settled
<1>3. Held(t)
  BY <1>0, <1>2 DEF Situation
<1>4. PICK h \in JobIds : /\ Holder(t, h)
                          /\ Waits(t, h) \/ Runs(t, h) \/ Saves(t, h) \/ Fails(t, h)
  BY <1>3 DEF Held
<1>5. h = j
  BY <1>1, <1>4 DEF Holder
<1>6. t \notin rejected
  BY <1>2 DEF CalmInv, RejectedInv
<1> QED BY <1>0, <1>2, <1>3, <1>4, <1>5, <1>6 DEF Held

\* Replacing a job by one of the same thread keeps who has which job, and a
\* holder stays one.
LEMMA ReplacedKeeps ==
    ASSUME NEW j \in JobIds, NEW r, Replaced(j, r), r.thread = jobs[j].thread
    PROVE  /\ JobIds' = JobIds
           /\ jobs'[j] = r
           /\ \A t : JobsOf(t)' = JobsOf(t)
           /\ \A t : t # jobs[j].thread => \A k \in JobsOf(t) : jobs'[k] = jobs[k]
           /\ \A k \in JobIds : k # j => (Done(k)' <=> Done(k))
           /\ \A t : Holder(t, j) => Holder(t, j)'
<1>1. JobIds' = JobIds /\ jobs'[j] = r
  BY DEF JobIds, Replaced
<1>2. \A t : JobsOf(t)' = JobsOf(t)
  BY <1>1 DEF JobsOf, Replaced
<1>3. \A t : t # jobs[j].thread => \A k \in JobsOf(t) : jobs'[k] = jobs[k]
  BY DEF JobsOf, Replaced
<1>4. \A k \in JobIds : k # j => (Done(k)' <=> Done(k))
  BY DEF Replaced, Done, Parked
<1>5. \A t : Holder(t, j) => Holder(t, j)'
  BY <1>2, <1>4 DEF Holder, JobsOf
<1> QED BY <1>1, <1>2, <1>3, <1>4, <1>5

\* What a step does to all of them.
CalmStep == CalmInv' /\ \A t \in Threads : Kept(t) /\ Lives(t)

\* A step of one job is accounted for by what it does to the job's lead.
LEMMA JobStepSuffices ==
    ASSUME TypeOK, CalmInv, NEW j \in JobIds, NEW t, jobs[j].thread = t,
           NEW r, Replaced(j, r), r.thread = t, r.kind = jobs[j].kind,
           UNCHANGED <<requests, rejected>>,
           \A u \in Threads : u # t =>
               checkpoint'[u] = checkpoint[u] /\ quotes'[u] = quotes[u],
           Advances(t),
           t \in rejected => Settled(t)' /\ checkpoint'[t] = checkpoint[t]
    PROVE  CalmStep
<1>1. ASSUME NEW u \in Threads, u # t
      PROVE  Advances(u) /\ (Settled(u) => Settled(u)') /\ checkpoint'[u] = checkpoint[u]
  <2>1. /\ JobsOf(u)' = JobsOf(u)
        /\ \A k \in JobsOf(u) : jobs'[k] = jobs[k]
    BY <1>1, ReplacedKeeps
  <2>2. \A o \in Operators : /\ OnThread(o, u)' <=> OnThread(o, u)
                             /\ OnThread(o, u) => requests'[o] = requests[o]
    BY DEF OnThread
  <2>3. Situation(u)
    BY DEF CalmInv
  <2> QED BY <1>1, <2>1, <2>2, <2>3, Untouched
<1>2. \A u \in Threads : Advances(u)
  BY <1>1
<1>3. SubmittedInv'
  <2>1. \A u : JobsOf(u)' = JobsOf(u)
    BY ReplacedKeeps
  <2>2. \A k \in JobIds : jobs'[k].kind = jobs[k].kind
    BY DEF Replaced
  <2> QED BY <2>1, <2>2 DEF CalmInv, SubmittedInv, JobsOf
<1>4. RejectedInv'
  <2>1. rejected \subseteq Threads /\ RejectedInv
    BY DEF TypeOK, CalmInv
  <2> QED BY <1>1, <2>1 DEF RejectedInv
<1> QED BY <1>2, <1>3, <1>4 DEF CalmStep, CalmInv, Advances

\* The holder's lead advances if the job, as it becomes, holds it again.
LEMMA HoldsAgain ==
    ASSUME NEW j \in JobIds, NEW t, jobs[j].thread = t,
           NEW r, Replaced(j, r), r.thread = t,
           UNCHANGED requests, Unrequested(t), Holder(t, j),
           (Waits(t, j) \/ Runs(t, j) \/ Saves(t, j) \/ Fails(t, j))'
    PROVE  Situation(t)'
<1>1. /\ JobIds' = JobIds /\ Holder(t, j)' /\ jobs'[j].thread = t
  BY ReplacedKeeps
<1>2. Unrequested(t)'
  BY DEF Unrequested, OnThread
<1>3. Held(t)'
  BY <1>1, <1>2 DEF Held
<1> QED BY <1>3 DEF Situation

\* The lead of a holder that is done has settled.
LEMMA HolderSettles ==
    ASSUME NEW j \in JobIds, NEW t, jobs[j].thread = t,
           NEW r, Replaced(j, r), r.thread = t, Holder(t, j), Done(j)'
    PROVE  JobsOf(t)' # {} /\ \A k \in JobsOf(t)' : Done(k)'
<1>1. /\ JobsOf(t)' = JobsOf(t) /\ j \in JobsOf(t) /\ JobsOf(t) \subseteq JobIds
      /\ \A k \in JobsOf(t) : k # j => Done(k)
      /\ \A k \in JobIds : k # j => (Done(k)' <=> Done(k))
  BY ReplacedKeeps DEF Holder, JobsOf
<1> QED BY <1>1

LEMMA CalmStart ==
    ASSUME TypeOK, CalmInv, Calm, NEW j \in JobIds,
           NEW t, jobs[j].thread = t, StartQualification(j)
    PROVE  CalmStep
<1>a. /\ jobs \in Seq(JobRecords) /\ checkpoint \in [Threads -> Checkpoints]
      /\ t \in Threads
  BY JobTypes DEF TypeOK
<1>1. PICK r \in JobRecords, c \in Checkpoints :
          /\ Replaced(j, r)
          /\ r.thread = t /\ r.kind = jobs[j].kind
          /\ r.phase = "running" /\ r.state = InitialState
          /\ r.last = checkpoint[t].last /\ r.next = "sanitizer"
          /\ Stored(t, c)
          /\ c.saved = TRUE /\ c.state = InitialState
          /\ c.last = checkpoint[t].last /\ c.next = "sanitizer"
  BY StartEffect
<1>2. /\ jobs[j].phase = "queued" /\ jobs[j].kind = "run_qualification_task"
      /\ UNCHANGED <<requests, quotes, rejected>>
  BY DEF StartQualification, CanStart
<1>3. ~Done(j)
  BY <1>2 DEF Done, Parked
<1>5. /\ Unrequested(t) /\ Holder(t, j) /\ ~Settled(t)
      /\ checkpoint[t] = NoCheckpoint /\ quotes[t] = 0
  <2>1. /\ Unrequested(t) /\ Holder(t, j) /\ ~Settled(t)
        /\ Waits(t, j) \/ Runs(t, j) \/ Saves(t, j) \/ Fails(t, j)
    BY <1>3, HolderOf
  <2> QED BY <1>2, <2>1 DEF Waits, Runs, Saves, Fails
<1>6. /\ InitialState.status = "processing" /\ InitialState.human_approved = "None"
      /\ NoCheckpoint.saved = FALSE /\ NoCheckpoint.state = InitialState
  BY DEF InitialState, NoCheckpoint
<1>7. /\ jobs'[j] = r /\ checkpoint'[t] = c /\ quotes'[t] = 0
      /\ \A u \in Threads : u # t => checkpoint'[u] = checkpoint[u]
  BY <1>a, <1>1, <1>2, <1>5, ReplacedKeeps DEF Stored
<1>8. Situation(t)'
  <2>1. Runs(t, j)'
    BY <1>1, <1>6, <1>7 DEF Runs, AtNode, Nodes, QuotesOf
  <2> QED BY <1>1, <1>2, <1>5, <2>1, HoldsAgain
<1>9. Kept(t)
  BY <1>5, <1>6 DEF Kept
<1>10. Lives(t)
  <2>1. ObservedStatus(t) = "queued" /\ ObservedStatus(t)' = "processing"
    BY <1>1, <1>5, <1>6, <1>7 DEF ObservedStatus
  <2> QED BY <1>a, <1>2, <2>1, LifecycleSteps
<1>11. t \notin rejected
  BY <1>3, HolderOf
<1> QED BY <1>1, <1>2, <1>7, <1>8, <1>9, <1>10, <1>11, JobStepSuffices DEF Advances

LEMMA CalmResume ==
    ASSUME TypeOK, CalmInv, Calm, NEW j \in JobIds,
           NEW t, jobs[j].thread = t, StartResume(j) \/ RefuseResume(j)
    PROVE  CalmStep
<1>a. /\ jobs \in Seq(JobRecords) /\ checkpoint \in [Threads -> Checkpoints]
      /\ t \in Threads
  BY JobTypes DEF TypeOK
<1>2. /\ jobs[j].phase = "queued" /\ jobs[j].kind = "run_qualification_task_resume"
      /\ UNCHANGED <<checkpoint, requests, quotes, rejected>>
  BY DEF StartResume, RefuseResume, CanStart
<1>3. ~Done(j)
  BY <1>2 DEF Done, Parked
<1>5. /\ Unrequested(t) /\ Holder(t, j) /\ ~Settled(t)
      /\ ApprovedIn(checkpoint[t]) /\ quotes[t] = 0
  <2>1. /\ Unrequested(t) /\ Holder(t, j) /\ ~Settled(t)
        /\ Waits(t, j) \/ Runs(t, j) \/ Saves(t, j) \/ Fails(t, j)
    BY <1>3, HolderOf
  <2> QED BY <1>2, <2>1 DEF Waits, Runs, Saves, Fails
<1>6. Kept(t) /\ Lives(t)
  <2>1. ObservedStatus(t)' = ObservedStatus(t)
    BY <1>2 DEF ObservedStatus
  <2> QED BY <1>a, <1>2, <2>1, LifecycleSteps DEF Kept
<1>7. t \notin rejected
  BY <1>3, HolderOf
<1>8. CASE StartResume(j)
  <2>1. PICK r \in JobRecords :
            /\ Replaced(j, r)
            /\ r.thread = t /\ r.kind = jobs[j].kind
            /\ r.phase = "running"
            /\ r.state = checkpoint[t].state
            /\ r.last = checkpoint[t].last
            /\ r.next = checkpoint[t].next
    BY <1>8, ResumeEffect
  <2>2. jobs'[j] = r
    BY <2>1, ReplacedKeeps
  <2>3. Runs(t, j)'
    BY <1>2, <1>5, <2>1, <2>2 DEF Runs, AtNode, Nodes, QuotesOf, ApprovedIn
  <2>4. Situation(t)'
    BY <1>2, <1>5, <2>1, <2>3, HoldsAgain
  <2> QED BY <1>2, <1>6, <1>7, <2>1, <2>4, JobStepSuffices DEF Advances
<1>9. CASE RefuseResume(j)
  <2> DEFINE r == [jobs[j] EXCEPT !.phase = "failing"]
  <2>1. /\ Replaced(j, r) /\ r.thread = t /\ r.kind = jobs[j].kind
        /\ r.phase = "failing"
    BY <1>a, <1>9, PhaseSet DEF RefuseResume, Phases
  <2> HIDE DEF r
  <2>2. jobs'[j] = r
    BY <2>1, ReplacedKeeps
  <2>3. Fails(t, j)'
    BY <1>2, <1>5, <2>1, <2>2 DEF Fails, ApprovedIn
  <2>4. Situation(t)'
    BY <1>2, <1>5, <2>1, <2>3, HoldsAgain
  <2> QED BY <1>2, <1>6, <1>7, <2>1, <2>4, JobStepSuffices DEF Advances
<1> QED BY <1>8, <1>9

LEMMA CalmRunNode ==
    ASSUME TypeOK, CalmInv, Calm, NEW j \in JobIds,
           NEW t, jobs[j].thread = t,
           NEW n, jobs[j].next = n, NEW old, jobs[j].state = old, RunNode(j)
    PROVE  CalmStep
<1>a. /\ jobs \in Seq(JobRecords) /\ checkpoint \in [Threads -> Checkpoints]
      /\ t \in Threads /\ old \in AgentState
  BY JobTypes DEF TypeOK
<1>1. PICK s \in NodeReturns(n, old) : Return(j, s)
  BY DEF RunNode
<1>2. /\ jobs[j].phase = "running" /\ n \in Nodes \ {"delivery", "hitl_interrupt"}
      /\ ~(n = "extractor" /\ ~CallsLLM(old))
      /\ UNCHANGED <<checkpoint, requests, quotes, rejected>>
  BY DEF RunNode, RunsInVain
<1>3. ~Done(j)
  BY <1>2 DEF Done, Parked
<1>4. /\ Unrequested(t) /\ Holder(t, j) /\ ~Settled(t) /\ Runs(t, j)
  <2>1. /\ Unrequested(t) /\ Holder(t, j) /\ ~Settled(t)
        /\ Waits(t, j) \/ Runs(t, j) \/ Saves(t, j) \/ Fails(t, j)
    BY <1>3, HolderOf
  <2> QED BY <1>2, <2>1 DEF Waits, Saves, Fails
<1>5. /\ s \in AgentState /\ s.human_approved = old.human_approved
      /\ AtNode(s, Edge(n, s))
      /\ Edge(n, s) = "hitl_interrupt" => n = "evaluator"
      /\ s.status \notin {"queued", "completed"}
      /\ \/ old.status = "processing"
         \/ old.status = "queued" /\ s.status = "processing"
  <2>1. AtNode(old, n)
    BY <1>4 DEF Runs
  <2> QED BY <1>a, <1>1, <1>2, <2>1, NodeEffect, NodeMoves
<1>6. PICK r \in JobRecords :
          /\ Replaced(j, r)
          /\ r.thread = t /\ r.phase = "saving" /\ r.kind = jobs[j].kind
          /\ r.state = s /\ r.last = n /\ r.next = Edge(n, s)
  BY <1>a, <1>1, <1>2, <1>5, Returned
<1>7. jobs'[j] = r
  BY <1>6, ReplacedKeeps
<1>8. Situation(t)'
  <2>1. n # "none" /\ checkpoint[t].saved /\ checkpoint[t].state = old
        /\ quotes[t] = 0
    BY <1>2, <1>4, <1>5 DEF Runs, Nodes, QuotesOf
  <2>2. Saves(t, j)'
    BY <1>2, <1>5, <1>6, <1>7, <2>1 DEF Saves, QuotesOf
  <2> QED BY <1>2, <1>4, <1>6, <2>2, HoldsAgain
<1>9. Kept(t) /\ Lives(t)
  <2>1. ObservedStatus(t)' = ObservedStatus(t)
    BY <1>2 DEF ObservedStatus
  <2> QED BY <1>a, <1>2, <2>1, LifecycleSteps DEF Kept
<1>10. t \notin rejected
  BY <1>3, HolderOf
<1> QED BY <1>2, <1>6, <1>8, <1>9, <1>10, JobStepSuffices DEF Advances

LEMMA CalmRunDelivery ==
    ASSUME TypeOK, CalmInv, Calm, NEW j \in JobIds,
           NEW t, jobs[j].thread = t,
           NEW old, jobs[j].state = old, RunDelivery(j)
    PROVE  CalmStep
<1>a. /\ jobs \in Seq(JobRecords) /\ checkpoint \in [Threads -> Checkpoints]
      /\ quotes \in [Threads -> Nat]
      /\ t \in Threads /\ old \in AgentState
  BY JobTypes DEF TypeOK
<1>2. /\ jobs[j].phase = "running" /\ jobs[j].next = "delivery"
      /\ "delivery" \in Nodes
      /\ UNCHANGED <<checkpoint, requests, rejected>>
  BY DEF RunDelivery, Nodes
<1>3. ~Done(j)
  BY <1>2 DEF Done, Parked
<1>4. /\ Unrequested(t) /\ Holder(t, j) /\ ~Settled(t) /\ Runs(t, j)
  <2>1. /\ Unrequested(t) /\ Holder(t, j) /\ ~Settled(t)
        /\ Waits(t, j) \/ Runs(t, j) \/ Saves(t, j) \/ Fails(t, j)
    BY <1>3, HolderOf
  <2> QED BY <1>2, <2>1 DEF Waits, Saves, Fails
<1>5. /\ AtNode(old, "delivery") /\ old.status = "processing"
      /\ checkpoint[t].saved /\ checkpoint[t].state = old /\ quotes[t] = 0
  <2>1. /\ AtNode(old, "delivery") /\ checkpoint[t].saved
        /\ checkpoint[t].state = old /\ quotes[t] = QuotesOf(old)
    BY <1>2, <1>4 DEF Runs
  <2>2. old.status = "processing"
    BY <1>a, <2>1, DeliveryMoves
  <2> QED BY <2>1, <2>2 DEF QuotesOf
<1>6. Kept(t) /\ ObservedStatus(t) = "processing" /\ ObservedStatus(t)' = "processing"
  BY <1>2, <1>5 DEF Kept, ObservedStatus
<1>7. t \notin rejected
  BY <1>3, HolderOf
<1>8. CASE /\ Return(j, DeliverySucceeded(old))
           /\ quotes' = [quotes EXCEPT ![t] = @ + 1]
  <2> DEFINE s == DeliverySucceeded(old)
  <2>1. PICK r \in JobRecords :
            /\ Replaced(j, r)
            /\ r.thread = t /\ r.phase = "saving" /\ r.kind = jobs[j].kind
            /\ r.state = s /\ r.last = "delivery" /\ r.next = Edge("delivery", s)
    BY <1>a, <1>2, <1>8, DeliveryOutcomes, Returned
  <2>2. jobs'[j] = r
    BY <2>1, ReplacedKeeps
  <2>3. quotes'[t] = 1 /\ \A u \in Threads : u # t => quotes'[u] = quotes[u]
    BY <1>a, <1>5, <1>8
  <2>4. /\ s.status = "completed" /\ s.human_approved = old.human_approved
        /\ AtNode(s, Edge("delivery", s)) /\ Edge("delivery", s) = "__end__"
    BY <1>a, <1>5, DeliveryOutcomes, DeliveryMoves
  <2> HIDE DEF s
  <2>5. Saves(t, j)'
    BY <1>2, <1>5, <2>1, <2>2, <2>3, <2>4 DEF Saves, QuotesOf
  <2>6. Situation(t)'
    BY <1>2, <1>4, <2>1, <2>5, HoldsAgain
  <2>7. Lives(t)
    BY <1>a, <1>5, <1>6, <2>3, LifecycleSteps
  <2> QED BY <1>2, <1>6, <1>7, <2>1, <2>3, <2>6, <2>7, JobStepSuffices DEF Advances
<1>9. CASE /\ Return(j, DeliveryFailed(old))
           /\ UNCHANGED quotes
  <2> DEFINE s == DeliveryFailed(old)
  <2>1. PICK r \in JobRecords :
            /\ Replaced(j, r)
            /\ r.thread = t /\ r.phase = "saving" /\ r.kind = jobs[j].kind
            /\ r.state = s /\ r.last = "delivery" /\ r.next = Edge("delivery", s)
    BY <1>a, <1>2, <1>9, DeliveryOutcomes, Returned
  <2>2. jobs'[j] = r
    BY <2>1, ReplacedKeeps
  <2>4. /\ s.status = "processing" /\ s.human_approved = old.human_approved
        /\ AtNode(s, Edge("delivery", s)) /\ Edge("delivery", s) # "hitl_interrupt"
    BY <1>a, <1>5, DeliveryOutcomes, DeliveryMoves
  <2> HIDE DEF s
  <2>5. Saves(t, j)'
    BY <1>2, <1>5, <1>9, <2>1, <2>2, <2>4 DEF Saves, QuotesOf
  <2>6. Situation(t)'
    BY <1>2, <1>4, <2>1, <2>5, HoldsAgain
  <2>7. Lives(t)
    BY <1>a, <1>6, <1>9, LifecycleSteps
  <2> QED BY <1>2, <1>6, <1>7, <1>9, <2>1, <2>6, <2>7, JobStepSuffices DEF Advances
<1> QED BY <1>8, <1>9 DEF RunDelivery

LEMMA CalmSave ==
    ASSUME TypeOK, CalmInv, Calm, NEW j \in JobIds,
           NEW t, jobs[j].thread = t, SaveCheckpoint(j)
    PROVE  CalmStep
<1>a. /\ jobs \in Seq(JobRecords) /\ checkpoint \in [Threads -> Checkpoints]
  BY DEF TypeOK
<1>1. PICK r : /\ Replaced(j, r)
               /\ r.thread = t /\ r.kind = jobs[j].kind /\ r.phase = "running"
               /\ r.state = jobs[j].state
               /\ r.last = jobs[j].last /\ r.next = jobs[j].next
  <2> DEFINE r == [jobs[j] EXCEPT !.phase = "running"]
  <2>1. SetPhase(j, "running") /\ "running" \in Phases
    BY DEF SaveCheckpoint, Phases
  <2>2. /\ Replaced(j, r)
        /\ r.thread = t /\ r.kind = jobs[j].kind /\ r.phase = "running"
        /\ r.state = jobs[j].state
        /\ r.last = jobs[j].last /\ r.next = jobs[j].next
    BY <1>a, <2>1, PhaseSet
  <2> HIDE DEF r
  <2> QED
    BY <2>2
<1>2. PICK c \in Checkpoints : /\ Stored(t, c)
                               /\ c.saved = TRUE /\ c.state = r.state
                               /\ c.last = r.last /\ c.next = r.next
  BY <1>1, SaveEffect
<1>3. /\ jobs[j].phase = "saving" /\ UNCHANGED <<requests, quotes, rejected>>
  BY DEF SaveCheckpoint
<1>4. ~Done(j)
  BY <1>3 DEF Done, Parked
<1>5. /\ t \in Threads /\ Unrequested(t) /\ Holder(t, j) /\ t \notin rejected
      /\ Waits(t, j) \/ Runs(t, j) \/ Saves(t, j) \/ Fails(t, j)
  BY <1>4, HolderOf
<1>6. /\ AtNode(r.state, r.next) /\ r.last # "none"
      /\ r.next = "hitl_interrupt" => r.last = "evaluator"
      /\ r.state.status # "queued"
      /\ checkpoint[t].saved
      /\ checkpoint[t].state.human_approved = r.state.human_approved
      /\ \/ checkpoint[t].state.status = "processing"
         \/ checkpoint[t].state.status = "queued" /\ r.state.status = "processing"
      /\ quotes[t] = QuotesOf(r.state)
  <2>1. Saves(t, j)
    BY <1>3, <1>5 DEF Waits, Runs, Fails
  <2> QED BY <1>1, <2>1 DEF Saves
<1>7. /\ jobs'[j] = r /\ checkpoint'[t] = c /\ quotes'[t] = quotes[t]
      /\ \A u \in Threads : u # t => checkpoint'[u] = checkpoint[u] /\ quotes'[u] = quotes[u]
  BY <1>1, <1>2, <1>3, <1>5, ReplacedKeeps DEF Stored
<1>8. Situation(t)'
  <2>1. CASE r.next = "hitl_interrupt"
    <3>1. /\ r.state.status = "pending_review" /\ r.state.human_approved = "None"
          /\ r.last = "evaluator" /\ quotes[t] = 0
      BY <1>6, <2>1 DEF AtNode, QuotesOf
    <3>2. Reviewed(t)'
      BY <1>2, <1>3, <1>5, <1>7, <3>1 DEF Reviewed, Unrequested, OnThread
    <3>3. Done(j)'
      BY <1>1, <1>7, <2>1 DEF Done, Parked
    <3>4. JobsOf(t)' # {} /\ \A k \in JobsOf(t)' : Done(k)'
      BY <1>1, <1>5, <3>3, HolderSettles
    <3> QED BY <1>2, <1>7, <3>2, <3>4 DEF Situation, Settled
  <2>2. CASE r.next # "hitl_interrupt"
    <3>1. Runs(t, j)'
      BY <1>1, <1>2, <1>6, <1>7, <2>2 DEF Runs
    <3> QED BY <1>1, <1>3, <1>5, <3>1, HoldsAgain
  <2> QED BY <2>1, <2>2
<1>9. Kept(t)
  BY <1>2, <1>6, <1>7 DEF Kept
<1>10. Lives(t)
  <2> DEFINE before == checkpoint[t].state.status
             after == r.state.status
  <2>1. before = ObservedStatus(t) /\ after = ObservedStatus(t)'
    BY <1>2, <1>6, <1>7 DEF ObservedStatus
  <2>2. after \in {"processing", "error", "pending_review", "completed"}
    BY <1>6 DEF AtNode, Nodes
  <2>3. /\ after = "error" => quotes[t] = 0
        /\ after = "completed" => quotes'[t] = 1
        /\ before \in {"processing", "queued"}
        /\ before = "queued" => after = "processing"
    BY <1>6, <1>7 DEF QuotesOf
  <2> HIDE DEF before, after
  <2> QED BY <1>5, <1>7, <2>1, <2>2, <2>3, LifecycleSteps
<1> QED BY <1>1, <1>3, <1>5, <1>7, <1>8, <1>9, <1>10, JobStepSuffices DEF Advances

LEMMA CalmEndJob ==
    ASSUME TypeOK, CalmInv, Calm, NEW j \in JobIds,
           NEW t, jobs[j].thread = t, EndJob(j)
    PROVE  CalmStep
<1>a. jobs \in Seq(JobRecords) /\ t \in Threads /\ j \in JobsOf(t)
  BY JobTypes DEF TypeOK, JobsOf
<1>1. PICK r : /\ Replaced(j, r) /\ r.thread = t /\ r.kind = jobs[j].kind
               /\ r.phase = "over"
  <2> DEFINE r == [jobs[j] EXCEPT !.phase = "over"]
  <2>1. SetPhase(j, "over") /\ "over" \in Phases
    BY DEF EndJob, Phases
  <2>2. Replaced(j, r) /\ r.thread = t /\ r.kind = jobs[j].kind /\ r.phase = "over"
    BY <1>a, <2>1, PhaseSet
  <2> HIDE DEF r
  <2> QED
    BY <2>2
<1>2. /\ jobs[j].phase = "running" /\ jobs[j].next \in {"__end__", "hitl_interrupt"}
      /\ UNCHANGED <<checkpoint, requests, quotes, rejected>>
  BY DEF EndJob
<1>3. /\ jobs'[j] = r /\ JobIds' = JobIds /\ JobsOf(t)' = JobsOf(t)
      /\ \A k \in JobIds : k # j => (Done(k)' <=> Done(k)) /\ jobs'[k] = jobs[k]
  BY <1>1, ReplacedKeeps DEF Replaced
<1>4. Done(j)'
  BY <1>1, <1>3 DEF Done
<1>5. \A o \in Operators : OnThread(o, t)' <=> OnThread(o, t)
  BY <1>2 DEF OnThread
<1>6. Kept(t) /\ Lives(t)
  <2>1. ObservedStatus(t)' = ObservedStatus(t)
    BY <1>2 DEF ObservedStatus
  <2> QED BY <1>a, <1>2, <2>1, LifecycleSteps DEF Kept
<1>7. CASE jobs[j].next = "hitl_interrupt"
  <2>1. Done(j)
    BY <1>2, <1>7 DEF Done, Parked
  <2>2. ~Fresh(t)
    BY <1>a DEF Fresh
  <2>3. Settled(t) => Settled(t)'
    BY <1>2, <1>3, <1>4, <1>5
       DEF Settled, Reviewed, Decided, Closed, Unrequested, DeliveryAbandoned, JobsOf
  <2>4. Held(t) => Held(t)'
    <3> SUFFICES ASSUME Held(t) PROVE Held(t)'
      OBVIOUS
    <3>1. PICK h \in JobIds : /\ Holder(t, h)
                              /\ Waits(t, h) \/ Runs(t, h) \/ Saves(t, h) \/ Fails(t, h)
      BY DEF Held
    <3>2. h # j
      BY <1>2, <1>7, <3>1 DEF Waits, Runs, Saves, Fails
    <3>3. Holder(t, h)'
      BY <1>3, <1>4, <3>1 DEF Holder, JobsOf
    <3>4. (Waits(t, h) \/ Runs(t, h) \/ Saves(t, h) \/ Fails(t, h))'
      BY <1>2, <1>3, <3>1, <3>2 DEF Waits, Runs, Saves, Fails
    <3>5. Unrequested(t)'
      BY <1>5 DEF Held, Unrequested
    <3> QED BY <1>3, <3>3, <3>4, <3>5 DEF Held
  <2>5. Situation(t)' /\ (t \in rejected => Settled(t)')
    BY <1>a, <2>2, <2>3, <2>4 DEF Situation, CalmInv, RejectedInv
  <2> QED BY <1>1, <1>2, <1>6, <2>5, JobStepSuffices DEF Advances
<1>8. CASE jobs[j].next = "__end__"
  <2>1. ~Done(j)
    BY <1>2, <1>8 DEF Done, Parked
  <2>2. /\ Unrequested(t) /\ Holder(t, j) /\ t \notin rejected
        /\ Waits(t, j) \/ Runs(t, j) \/ Saves(t, j) \/ Fails(t, j)
    BY <2>1, HolderOf
  <2>3. Runs(t, j)
    BY <1>2, <2>2 DEF Waits, Saves, Fails
  <2>4. Closed(t)'
    <3>1. Closed(t)
      BY <1>8, <2>2, <2>3 DEF Closed, Runs, AtNode, QuotesOf, DeliveryAbandoned
    <3> QED BY <1>2, <1>5, <3>1 DEF Closed, Unrequested, DeliveryAbandoned
  <2>5. JobsOf(t)' # {} /\ \A k \in JobsOf(t)' : Done(k)'
    BY <1>1, <1>4, <2>2, HolderSettles
  <2>6. Situation(t)'
    BY <1>2, <2>3, <2>4, <2>5 DEF Situation, Settled, Runs
  <2> QED BY <1>1, <1>2, <1>6, <2>2, <2>6, JobStepSuffices DEF Advances
<1> QED BY <1>2, <1>7, <1>8

LEMMA CalmRaise ==
    ASSUME TypeOK, CalmInv, Calm, NEW j \in JobIds,
           NEW t, jobs[j].thread = t, Raise(j)
    PROVE  CalmStep
<1>a. jobs \in Seq(JobRecords)
  BY DEF TypeOK
<1>1. PICK r : /\ Replaced(j, r) /\ r.thread = t /\ r.kind = jobs[j].kind
               /\ r.phase = "failing"
  <2> DEFINE r == [jobs[j] EXCEPT !.phase = "failing"]
  <2>1. SetPhase(j, "failing") /\ "failing" \in Phases
    BY DEF Raise, Phases
  <2>2. Replaced(j, r) /\ r.thread = t /\ r.kind = jobs[j].kind /\ r.phase = "failing"
    BY <1>a, <2>1, PhaseSet
  <2> HIDE DEF r
  <2> QED
    BY <2>2
<1>2. /\ jobs[j].phase = "running" /\ jobs[j].next \in {"extractor", "mapper"}
      /\ UNCHANGED <<checkpoint, requests, quotes, rejected>>
  BY DEF Raise, NodeMayRaise, RunsInVain, Calm
<1>3. ~Done(j)
  BY <1>2 DEF Done, Parked
<1>4. /\ t \in Threads /\ Unrequested(t) /\ Holder(t, j) /\ t \notin rejected
      /\ Waits(t, j) \/ Runs(t, j) \/ Saves(t, j) \/ Fails(t, j)
  BY <1>3, HolderOf
<1>5. Runs(t, j)
  BY <1>2, <1>4 DEF Waits, Saves, Fails
<1>6. Situation(t)'
  <2>1. jobs'[j] = r
    BY <1>1, ReplacedKeeps
  <2>2. Fails(t, j)'
    BY <1>1, <1>2, <1>5, <2>1 DEF Runs, AtNode, QuotesOf, Fails
  <2> QED BY <1>1, <1>2, <1>4, <2>2, HoldsAgain
<1>7. Kept(t) /\ Lives(t)
  <2>1. ObservedStatus(t)' = ObservedStatus(t)
    BY <1>2 DEF ObservedStatus
  <2> QED BY <1>2, <1>4, <2>1, LifecycleSteps DEF Kept
<1> QED BY <1>1, <1>2, <1>4, <1>6, <1>7, JobStepSuffices DEF Advances

LEMMA CalmMarkError ==
    ASSUME TypeOK, CalmInv, Calm, NEW j \in JobIds,
           NEW t, jobs[j].thread = t, MarkError(j) \/ FailToMarkError(j)
    PROVE  CalmStep
<1>a. jobs \in Seq(JobRecords) /\ checkpoint \in [Threads -> Checkpoints]
  BY DEF TypeOK
<1>1. PICK r : /\ Replaced(j, r) /\ r.thread = t /\ r.kind = jobs[j].kind
               /\ r.phase = "over"
  <2>1. SetPhase(j, "over")
    BY DEF MarkError, FailToMarkError
  <2> QED BY <1>a, <2>1, PhaseSet DEF Phases
<1>2. jobs[j].phase = "failing" /\ UNCHANGED <<requests, quotes, rejected>>
  BY DEF MarkError, FailToMarkError
<1>3. ~Done(j)
  BY <1>2 DEF Done, Parked
<1>4. /\ t \in Threads /\ Unrequested(t) /\ Holder(t, j) /\ t \notin rejected
      /\ Waits(t, j) \/ Runs(t, j) \/ Saves(t, j) \/ Fails(t, j)
  BY <1>3, HolderOf
<1>5. /\ checkpoint[t].saved /\ checkpoint[t].last # "none"
      /\ checkpoint[t].state.status \in {"queued", "processing", "error"}
      /\ quotes[t] = 0 /\ checkpoint[t].state \in AgentState
  <2>1. Fails(t, j)
    BY <1>2, <1>4 DEF Waits, Runs, Saves
  <2> QED BY <1>a, <1>4, <2>1, CheckpointTypes DEF Fails
<1>6. UpdateState(t, MarkedError(checkpoint[t].state))
  BY <1>5 DEF MarkError, FailToMarkError, Calm
<1>7. PICK c \in Checkpoints :
          /\ Stored(t, c) /\ c.saved = TRUE /\ c.state.status = "error"
          /\ c.state.human_approved = checkpoint[t].state.human_approved
  BY <1>a, <1>4, <1>5, <1>6, Updated, UpdateEffects, CheckpointTypes
<1>8. /\ checkpoint'[t] = c /\ quotes'[t] = 0 /\ jobs'[j] = r
      /\ \A u \in Threads : u # t => checkpoint'[u] = checkpoint[u] /\ quotes'[u] = quotes[u]
  BY <1>1, <1>2, <1>4, <1>5, <1>7, ReplacedKeeps DEF Stored
<1>9. Situation(t)'
  <2>1. Closed(t)'
    BY <1>2, <1>4, <1>7, <1>8 DEF Closed, Unrequested, OnThread
  <2>2. Done(j)'
    BY <1>1, <1>8 DEF Done
  <2>3. JobsOf(t)' # {} /\ \A k \in JobsOf(t)' : Done(k)'
    BY <1>1, <1>4, <2>2, HolderSettles
  <2> QED BY <1>7, <1>8, <2>1, <2>3 DEF Situation, Settled
<1>10. Kept(t)
  BY <1>7, <1>8 DEF Kept
<1>11. Lives(t)
  <2>1. /\ ObservedStatus(t) = checkpoint[t].state.status
        /\ ObservedStatus(t)' = "error"
    BY <1>5, <1>7, <1>8 DEF ObservedStatus
  <2> QED BY <1>4, <1>5, <1>8, <2>1, LifecycleSteps
<1> QED BY <1>1, <1>2, <1>4, <1>8, <1>9, <1>10, <1>11, JobStepSuffices DEF Advances

\* A step of the API or of a client is accounted for by what it does to one
\* lead.
LEMMA LeadStepSuffices ==
    ASSUME TypeOK, CalmInv, NEW t \in Threads,
           \A u \in Threads : u # t =>
               /\ JobsOf(u)' = JobsOf(u)
               /\ \A k \in JobsOf(u) : jobs'[k] = jobs[k]
               /\ checkpoint'[u] = checkpoint[u] /\ quotes'[u] = quotes[u]
               /\ \A o \in Operators : /\ OnThread(o, u)' <=> OnThread(o, u)
                                       /\ OnThread(o, u) => requests'[o] = requests[o],
           Advances(t),
           JobsOf(t)' # {} =>
               \E k \in JobsOf(t)' : jobs'[k].kind = "run_qualification_task",
           rejected' \subseteq rejected \cup {t},
           t \in rejected' => Settled(t)' /\ checkpoint'[t].state.status = "error"
    PROVE  CalmStep
<1>1. \A u \in Threads : u # t => Advances(u) /\ (Settled(u) => Settled(u)')
  BY Untouched DEF CalmInv
<1>2. \A u \in Threads : Advances(u)
  BY <1>1
<1>3. SubmittedInv'
  BY DEF CalmInv, SubmittedInv
<1>4. RejectedInv'
  BY <1>1 DEF TypeOK, CalmInv, RejectedInv
<1> QED BY <1>2, <1>3, <1>4 DEF CalmStep, CalmInv, Advances

\* A new job holds a lead that nothing else holds.
LEMMA JobAdded ==
    ASSUME TypeOK, CalmInv, NEW kind \in JobKinds, NEW t \in Threads,
           jobs' = Append(jobs, NewJob(kind, t)),
           UNCHANGED <<checkpoint, quotes, rejected>>,
           \A k \in JobsOf(t) : Done(k),
           Unrequested(t)', t \notin rejected,
           \A u \in Threads \ {t}, o \in Operators :
               /\ OnThread(o, u)' <=> OnThread(o, u)
               /\ OnThread(o, u) => requests'[o] = requests[o],
           quotes[t] = 0,
           \/ /\ kind = "run_qualification_task"
              /\ JobsOf(t) = {} /\ checkpoint[t] = NoCheckpoint
           \/ /\ kind = "run_qualification_task_resume"
              /\ JobsOf(t) # {} /\ ApprovedIn(checkpoint[t])
    PROVE  CalmStep
<1>a. /\ jobs \in Seq(JobRecords) /\ Len(jobs) \in Nat
  BY DEF TypeOK
<1>1. PICK h, r : /\ h = Len(jobs) + 1 /\ jobs'[h] = r
                  /\ r.kind = kind /\ r.thread = t /\ r.phase = "queued"
                  /\ Len(jobs') = Len(jobs) + 1
                  /\ \A k \in JobIds : jobs'[k] = jobs[k]
  <2>1. PICK h, r : h = Len(jobs) + 1 /\ r = NewJob(kind, t)
    OBVIOUS
  <2>2. /\ r.kind = kind /\ r.thread = t /\ r.phase = "queued"
        /\ jobs'[h] = r /\ Len(jobs') = Len(jobs) + 1
        /\ \A k \in JobIds : jobs'[k] = jobs[k]
    BY <1>a, <2>1, Appended
  <2> QED BY <2>1, <2>2
<1>2. JobIds' = JobIds \cup {h} /\ \A k \in JobIds : k < h
  BY <1>a, <1>1 DEF JobIds
<1>3. /\ JobsOf(t)' = JobsOf(t) \cup {h}
      /\ \A u \in Threads : u # t =>
           JobsOf(u)' = JobsOf(u) /\ \A k \in JobsOf(u) : jobs'[k] = jobs[k]
  BY <1>1, <1>2 DEF JobsOf
<1>4. Holder(t, h)'
  <2>1. \A k \in JobsOf(t) : k < h /\ Done(k)'
    BY <1>1, <1>2 DEF JobsOf, Done, Parked
  <2> QED BY <1>3, <2>1 DEF Holder
<1>5. Waits(t, h)'
  BY <1>1 DEF Waits
<1>6. Situation(t)'
  BY <1>2, <1>4, <1>5 DEF Situation, Held
<1>7. Kept(t) /\ Lives(t)
  <2>1. ObservedStatus(t)' = ObservedStatus(t)
    BY DEF ObservedStatus
  <2> QED BY <2>1, LifecycleSteps DEF Kept
<1>8. \E k \in JobsOf(t)' : jobs'[k].kind = "run_qualification_task"
  <2>1. CASE JobsOf(t) # {}
    <3>1. PICK k \in JobsOf(t) : jobs[k].kind = "run_qualification_task"
      BY <2>1 DEF CalmInv, SubmittedInv
    <3> QED BY <1>1, <1>3, <3>1 DEF JobsOf
  <2>2. CASE JobsOf(t) = {}
    BY <1>1, <1>3, <2>2
  <2> QED BY <2>1, <2>2
<1> QED BY <1>3, <1>6, <1>7, <1>8, LeadStepSuffices DEF Advances

LEMMA CalmSubmit ==
    ASSUME TypeOK, CalmInv, Calm, NEW t \in Threads, SubmitLead(t)
    PROVE  CalmStep
<1>1. JobsOf(t) = {}
  <2> DEFINE S == {j \in JobsOf(t) : jobs[j].kind = "run_qualification_task"}
  <2>1. Cardinality(S) < 1
    <3>1. IsFiniteSet(S)
      BY JobSetsFinite, FS_Subset DEF TypeOK
    <3>2. Cardinality(S) \in Nat
      BY <3>1, FS_CardinalityType
    <3>3. Cardinality(S) < MaxSubmissions
      BY DEF SubmitLead, Submissions
    <3> QED BY <3>2, <3>3, ServiceAssumption DEF Calm
  <2>2. S = {}
    <3>1. IsFiniteSet(S)
      BY JobSetsFinite, FS_Subset DEF TypeOK
    <3> QED BY <2>1, <3>1, FS_EmptySet, FS_CardinalityType
  <2> QED BY <2>2 DEF CalmInv, SubmittedInv
<1>2. Fresh(t)
  BY <1>1 DEF CalmInv, Situation, Held, Holder, Settled
<1>3. t \notin rejected
  BY <1>1 DEF CalmInv, RejectedInv, Settled
<1>4. /\ jobs' = Append(jobs, NewJob("run_qualification_task", t))
      /\ UNCHANGED <<checkpoint, requests, quotes, rejected>>
      /\ "run_qualification_task" \in JobKinds
  BY DEF SubmitLead, JobKinds
<1>5. \A u \in Threads, o \in Operators :
        /\ OnThread(o, u)' <=> OnThread(o, u)
        /\ OnThread(o, u) => requests'[o] = requests[o]
  BY <1>4 DEF OnThread
<1>6. Unrequested(t)'
  BY <1>2, <1>5 DEF Fresh, Unrequested
<1> QED BY <1>1, <1>2, <1>3, <1>4, <1>5, <1>6, JobAdded DEF Fresh

\* A lead whose operator has a request in flight is suspended or approved.
LEMMA RequestOf ==
    ASSUME TypeOK, CalmInv, Calm, NEW o \in Operators, NEW t, requests[o].thread = t,
           requests[o].step \in {"checked", "updated"}
    PROVE  /\ t \in Threads /\ requests[o] \in Requests /\ OnThread(o, t)
           /\ Settled(t)
           /\ requests[o].step = "checked" => Reviewed(t)
           /\ requests[o].step = "updated" => Decided(t)
           /\ t \notin rejected
           /\ \A u : u # t => Unrequested(u)
<1>1. /\ t \in Threads /\ requests[o] \in Requests /\ requests[o] # NoRequest
  BY RequestSteps, RequestTypes
<1>2. OnThread(o, t)
  BY <1>1 DEF OnThread
<1>3. Settled(t) /\ (Reviewed(t) \/ Decided(t))
  BY <1>1, <1>2 DEF CalmInv, Situation, Fresh, Held, Settled, Closed, Unrequested
<1>4. t \notin rejected
  BY <1>3 DEF CalmInv, RejectedInv, Reviewed, Decided, ApprovedIn
<1>5. \A u : u # t => Unrequested(u)
  BY DEF Calm, Unrequested, OnThread
<1>6. /\ requests[o].step = "checked" => Reviewed(t)
      /\ requests[o].step = "updated" => Decided(t)
  BY <1>2, <1>3 DEF Reviewed, Decided
<1> QED BY <1>1, <1>2, <1>3, <1>4, <1>5, <1>6

LEMMA CalmEnqueue ==
    ASSUME TypeOK, CalmInv, Calm, NEW o \in Operators, NEW t, requests[o].thread = t,
           EnqueueResume(o)
    PROVE  CalmStep
<1>1. /\ requests[o].step = "updated"
      /\ jobs' = Append(jobs, NewJob("run_qualification_task_resume", t))
      /\ UNCHANGED <<checkpoint, quotes, rejected>>
      /\ "run_qualification_task_resume" \in JobKinds
  BY DEF EnqueueResume, JobKinds
<1>2. /\ t \in Threads /\ Settled(t) /\ Decided(t) /\ t \notin rejected
      /\ \A u : u # t => Unrequested(u)
  BY <1>1, RequestOf
<1>3. \A p \in Operators : requests'[p] = NoRequest
  <2>1. requests' = [requests EXCEPT ![o] = NoRequest]
    BY DEF EnqueueResume
  <2>2. \A p \in Operators : p = o
    BY DEF Calm
  <2> QED BY <2>1, <2>2 DEF TypeOK
<1>4. \A u : Unrequested(u)'
  BY <1>3 DEF Unrequested, OnThread
<1>5. \A u \in Threads \ {t}, p \in Operators :
        /\ OnThread(p, u)' <=> OnThread(p, u)
        /\ OnThread(p, u) => requests'[p] = requests[p]
  BY <1>2, <1>4 DEF Unrequested
<1> QED BY <1>1, <1>2, <1>4, <1>5, JobAdded DEF Settled, Decided

\* A step of the one operator's request is accounted for by its lead, as long
\* as the jobs stay as they are.
LEMMA RequestStepSuffices ==
    ASSUME TypeOK, CalmInv, NEW t \in Threads, UNCHANGED <<jobs, quotes>>,
           \A u \in Threads : u # t => checkpoint'[u] = checkpoint[u],
           \A u \in Threads : u # t => Unrequested(u) /\ Unrequested(u)',
           JobsOf(t) # {}, \A k \in JobsOf(t) : Done(k),
           checkpoint'[t].saved,
           (Reviewed(t) \/ Decided(t) \/ Closed(t))',
           Kept(t), Lives(t),
           rejected' \subseteq rejected \cup {t},
           t \in rejected' => checkpoint'[t].state.status = "error"
    PROVE  CalmStep
<1>1. \A u \in Threads : /\ JobsOf(u)' = JobsOf(u)
                         /\ \A k \in JobsOf(u) : jobs'[k] = jobs[k]
  BY DEF JobsOf, JobIds
<1>2. Settled(t)'
  <2>1. \A k \in JobsOf(t)' : Done(k)'
    BY <1>1 DEF Done, Parked
  <2> QED BY <1>1, <2>1 DEF Settled
<1>3. \E k \in JobsOf(t)' : jobs'[k].kind = "run_qualification_task"
  BY <1>1 DEF CalmInv, SubmittedInv
<1>4. \A u \in Threads : u # t => \A o \in Operators :
        /\ OnThread(o, u)' <=> OnThread(o, u)
        /\ OnThread(o, u) => requests'[o] = requests[o]
  BY DEF Unrequested
<1>5. Advances(t)
  BY <1>2 DEF Advances, Situation
<1>6. \A u \in Threads : quotes'[u] = quotes[u]
  OBVIOUS
<1> QED BY <1>1, <1>2, <1>3, <1>4, <1>5, <1>6, LeadStepSuffices

LEMMA CalmApprove ==
    ASSUME TypeOK, CalmInv, Calm, NEW o \in Operators, NEW t, requests[o].thread = t,
           WriteApproval(o)
    PROVE  CalmStep
<1>1. /\ requests[o].step = "checked"
      /\ requests' = [requests EXCEPT ![o].step = "updated"]
      /\ UNCHANGED <<jobs, quotes, rejected>>
      /\ checkpoint \in [Threads -> Checkpoints]
  BY DEF WriteApproval, TypeOK
<1>2. /\ t \in Threads /\ Settled(t) /\ Reviewed(t) /\ t \notin rejected
      /\ requests[o] \in Requests
      /\ \A u : u # t => Unrequested(u)
  BY <1>1, RequestOf
<1>3. /\ checkpoint[t].state \in AgentState /\ checkpoint[t].saved
      /\ checkpoint[t].last = "evaluator"
  BY <1>1, <1>2, CheckpointTypes DEF Settled, Reviewed
<1>4. PICK c \in Checkpoints : Stored(t, c) /\ ApprovedIn(c)
  <2>1. UpdateState(t, Approved(checkpoint[t].state))
    BY DEF WriteApproval
  <2>2. /\ Approved(checkpoint[t].state) \in AgentState
        /\ Approved(checkpoint[t].state).status = "queued"
        /\ Approved(checkpoint[t].state).human_approved = "True"
        /\ Edge("evaluator", Approved(checkpoint[t].state)) = "calculator"
    BY <1>3, UpdateEffects, ApprovalMoves
  <2> QED BY <1>1, <1>2, <1>3, <2>1, <2>2, Updated DEF ApprovedIn
<1>5. /\ checkpoint'[t] = c
      /\ \A u \in Threads : u # t => checkpoint'[u] = checkpoint[u]
  BY <1>2, <1>4 DEF Stored
<1>6. /\ \A p \in Operators : p = o
      /\ OnThread(o, t)' /\ requests'[o].step = "updated"
      /\ \A u : u # t => Unrequested(u)'
  <2>1. requests'[o].step = "updated" /\ requests'[o].thread = t
    BY <1>1, <1>2 DEF TypeOK, Requests
  <2>2. \A p \in Operators : p = o
    BY DEF Calm
  <2>3. requests'[o] # NoRequest
    BY <2>1 DEF NoRequest
  <2> QED BY <2>1, <2>2, <2>3 DEF OnThread, Unrequested
<1>7. Decided(t)'
  BY <1>1, <1>2, <1>4, <1>5, <1>6 DEF Decided, Reviewed
<1>8. Kept(t) /\ Lives(t)
  <2>1. ObservedStatus(t) = "pending_review" /\ ObservedStatus(t)' = "queued"
    BY <1>2, <1>3, <1>4, <1>5 DEF ObservedStatus, Reviewed, ApprovedIn
  <2> QED BY <1>1, <1>2, <2>1, LifecycleSteps DEF Kept, Reviewed
<1> QED BY <1>1, <1>2, <1>4, <1>5, <1>6, <1>7, <1>8, RequestStepSuffices
        DEF Settled, ApprovedIn

LEMMA CalmReject ==
    ASSUME TypeOK, CalmInv, Calm, NEW o \in Operators, NEW t, requests[o].thread = t,
           WriteRejection(o)
    PROVE  CalmStep
<1>1. /\ requests[o].step = "checked"
      /\ requests' = [requests EXCEPT ![o] = NoRequest]
      /\ rejected' = rejected \cup {t}
      /\ UNCHANGED <<jobs, quotes>>
      /\ checkpoint \in [Threads -> Checkpoints]
  BY DEF WriteRejection, TypeOK
<1>2. /\ t \in Threads /\ Settled(t) /\ Reviewed(t)
      /\ \A u : u # t => Unrequested(u)
  BY <1>1, RequestOf
<1>3. /\ checkpoint[t].state \in AgentState /\ checkpoint[t].saved
      /\ checkpoint[t].last = "evaluator"
  BY <1>1, <1>2, CheckpointTypes DEF Settled, Reviewed
<1>4. PICK c \in Checkpoints :
          Stored(t, c) /\ c.saved = TRUE /\ c.state.status = "error"
  <2>1. UpdateState(t, Rejected(checkpoint[t].state))
    BY DEF WriteRejection
  <2>2. /\ Rejected(checkpoint[t].state) \in AgentState
        /\ Rejected(checkpoint[t].state).status = "error"
    BY <1>3, UpdateEffects
  <2> QED BY <1>1, <1>2, <1>3, <2>1, <2>2, Updated
<1>5. /\ checkpoint'[t] = c
      /\ \A u \in Threads : u # t => checkpoint'[u] = checkpoint[u]
  BY <1>2, <1>4 DEF Stored
<1>6. \A u : Unrequested(u)'
  BY <1>1 DEF Calm, TypeOK, Unrequested, OnThread
<1>7. Closed(t)'
  BY <1>1, <1>2, <1>4, <1>5, <1>6 DEF Closed, Reviewed
<1>8. Kept(t) /\ Lives(t)
  <2>1. ObservedStatus(t) = "pending_review" /\ ObservedStatus(t)' = "error"
    BY <1>2, <1>3, <1>4, <1>5 DEF ObservedStatus, Reviewed
  <2> QED BY <1>1, <1>2, <2>1, LifecycleSteps DEF Kept, Reviewed
<1> QED BY <1>1, <1>2, <1>4, <1>5, <1>6, <1>7, <1>8, RequestStepSuffices
        DEF Settled

LEMMA CalmCheckReview ==
    ASSUME TypeOK, CalmInv, Calm, NEW o \in Operators, NEW t \in Threads,
           NEW approved \in BOOLEAN, CheckReview(o, t, approved)
    PROVE  CalmStep
<1>1. /\ requests[o] = NoRequest
      /\ checkpoint[t].saved /\ checkpoint[t].state.status = "pending_review"
      /\ UNCHANGED <<checkpoint, jobs, quotes, rejected>>
  BY DEF CheckReview
<1>2. Settled(t) /\ Reviewed(t)
  <2>1. ~Fresh(t)
    BY <1>1 DEF Fresh, NoCheckpoint
  <2>2. ~Held(t)
    <3> SUFFICES ASSUME Held(t) PROVE FALSE
      OBVIOUS
    <3>1. PICK j \in JobIds : Waits(t, j) \/ Runs(t, j) \/ Saves(t, j) \/ Fails(t, j)
      BY DEF Held
    <3>2. CASE Waits(t, j)
      BY <1>1, <3>2 DEF Waits, NoCheckpoint, ApprovedIn
    <3>3. CASE Runs(t, j)
      BY <1>1, <3>3 DEF Runs, AtNode, Nodes
    <3>4. CASE Saves(t, j) \/ Fails(t, j)
      BY <1>1, <3>4 DEF Saves, Fails
    <3> QED BY <3>1, <3>2, <3>3, <3>4
  <2> QED BY <1>1, <2>1, <2>2
          DEF CalmInv, Situation, Settled, Decided, ApprovedIn, Closed
<1>3. /\ requests'[o].step = "checked" /\ requests'[o].thread = t
      /\ \A p \in Operators : p = o
  BY DEF CheckReview, TypeOK, Calm
<1>4. \A u : u # t => Unrequested(u) /\ Unrequested(u)'
  BY <1>1, <1>3 DEF Unrequested, OnThread
<1>5. Reviewed(t)'
  BY <1>1, <1>2, <1>3 DEF Reviewed
<1>6. t \notin rejected
  BY <1>1 DEF CalmInv, RejectedInv
<1>7. Kept(t) /\ Lives(t)
  <2>1. ObservedStatus(t)' = ObservedStatus(t)
    BY <1>1 DEF ObservedStatus
  <2> QED BY <1>1, <2>1, LifecycleSteps DEF Kept
<1> QED BY <1>1, <1>2, <1>4, <1>5, <1>6, <1>7, RequestStepSuffices DEF Settled

LEMMA CalmStutter ==
    ASSUME TypeOK, CalmInv, UNCHANGED vars
    PROVE  CalmStep
<1>1. /\ JobIds' = JobIds
      /\ \A u : JobsOf(u)' = JobsOf(u) /\ \A k \in JobsOf(u) : jobs'[k] = jobs[k]
  BY DEF vars, JobsOf, JobIds
<1>2. \A u \in Threads, o \in Operators :
        /\ OnThread(o, u)' <=> OnThread(o, u)
        /\ OnThread(o, u) => requests'[o] = requests[o]
  BY DEF vars, OnThread
<1>3. \A u \in Threads : Advances(u) /\ (Settled(u) => Settled(u)')
  BY <1>1, <1>2, Untouched DEF vars, CalmInv
<1>4. SubmittedInv'
  BY <1>1 DEF CalmInv, SubmittedInv
<1>5. RejectedInv'
  BY <1>3 DEF vars, TypeOK, CalmInv, RejectedInv
<1> QED BY <1>3, <1>4, <1>5 DEF CalmStep, CalmInv, Advances

LEMMA CalmNext ==
    ASSUME TypeOK, CalmInv, Calm, Next
    PROVE  CalmStep
<1>1. ASSUME NEW j \in JobIds, JobStep(j) PROVE CalmStep
  <2>1. PICK t, n, s : jobs[j].thread = t /\ jobs[j].next = n /\ jobs[j].state = s
    OBVIOUS
  <2>2. CASE StartQualification(j)
    BY <2>1, <2>2, CalmStart
  <2>3. CASE StartResume(j) \/ RefuseResume(j)
    BY <2>1, <2>3, CalmResume
  <2>4. CASE RunNode(j)
    BY <2>1, <2>4, CalmRunNode
  <2>5. CASE RunDelivery(j)
    BY <2>1, <2>5, CalmRunDelivery
  <2>6. CASE SaveCheckpoint(j)
    BY <2>1, <2>6, CalmSave
  <2>7. CASE EndJob(j)
    BY <2>1, <2>7, CalmEndJob
  <2>8. CASE Raise(j)
    BY <2>1, <2>8, CalmRaise
  <2>9. CASE MarkError(j) \/ FailToMarkError(j)
    BY <2>1, <2>9, CalmMarkError
  <2> QED BY <1>1, <2>2, <2>3, <2>4, <2>5, <2>6, <2>7, <2>8, <2>9 DEF JobStep
<1>2. ASSUME NEW o \in Operators, WriteRejection(o) \/ WriteApproval(o) \/ EnqueueResume(o)
      PROVE  CalmStep
  <2>1. PICK t : requests[o].thread = t
    OBVIOUS
  <2>2. CASE WriteRejection(o)
    BY <2>1, <2>2, CalmReject
  <2>3. CASE WriteApproval(o)
    BY <2>1, <2>3, CalmApprove
  <2>4. CASE EnqueueResume(o)
    BY <2>1, <2>4, CalmEnqueue
  <2> QED BY <1>2, <2>2, <2>3, <2>4
<1>3. ~FaultStep
  BY DEF Calm, FaultStep, CrashWorker, TimeOut, LoseRequest
<1>4. ASSUME NEW t \in Threads, SubmitLead(t) PROVE CalmStep
  BY <1>4, CalmSubmit
<1>5. ASSUME NEW o \in Operators, NEW t \in Threads, NEW approved \in BOOLEAN,
             CheckReview(o, t, approved)
      PROVE  CalmStep
  BY <1>5, CalmCheckReview
<1> QED BY <1>1, <1>2, <1>3, <1>4, <1>5 DEF Next, WorkerStep, ApiStep, ClientStep

LEMMA CalmInductive ==
    ASSUME Calm
    PROVE  TypeOK /\ CalmInv /\ [Next]_vars => CalmStep
BY CalmNext, CalmStutter

LEMMA CalmInit == Init => CalmInv
<1> SUFFICES ASSUME Init PROVE CalmInv
  OBVIOUS
<1>1. JobIds = {} /\ \A t : JobsOf(t) = {}
  BY DEF Init, JobIds, JobsOf
<1>2. \A t \in Threads : Fresh(t)
  BY <1>1 DEF Init, Fresh, Unrequested, OnThread
<1> QED BY <1>1, <1>2 DEF Init, CalmInv, Situation, SubmittedInv, RejectedInv

\* Without faults each lead is in one of its situations.
LEMMA CalmAlways == ASSUME Calm PROVE Spec => [](TypeOK /\ CalmInv)
<1>1. Init => CalmInv
  BY CalmInit
<1>2. TypeOK /\ CalmInv /\ [Next]_vars => CalmInv'
  BY CalmInductive DEF CalmStep
<1> QED BY <1>1, <1>2, TypeCorrect, PTL DEF Spec

\* Without faults the checkpoint of a lead has one writer, for any number of
\* leads and worker slots (tasks.py:60-66, routes.py:285-304).
THEOREM OneWriter == ASSUME Calm PROVE Spec => []OneWriterPerThread
<1>1. TypeOK /\ CalmInv => OneWriterPerThread
  <2> SUFFICES ASSUME TypeOK, CalmInv, NEW j \in JobIds, NEW k \in JobIds,
                      jobs[j].thread = jobs[k].thread, j < k, InWorker(j)
               PROVE  Parked(j)
    BY DEF OneWriterPerThread, Parked
  <2>1. PICK t : jobs[j].thread = t
    OBVIOUS
  <2>2. Done(j)
    <3> SUFFICES ASSUME ~Done(j) PROVE FALSE
      OBVIOUS
    <3>1. Holder(t, j)
      BY <2>1, HolderOf
    <3>2. j \in Int /\ k \in Int
      BY DEF JobIds
    <3>3. k \in JobsOf(t)
      BY <2>1 DEF JobsOf
    <3>4. k # j /\ ~(k < j)
      BY <3>2
    <3> QED BY <3>1, <3>3, <3>4 DEF Holder
  <2> QED BY <2>2 DEF Done, InWorker
<1> QED BY <1>1, CalmAlways, PTL

\* Without faults no lead whose client polls is out of everybody's hands.
THEOREM NobodyStranded == ASSUME Calm PROVE Spec => []NothingStranded
<1>1. CalmInv => NothingStranded
  <2> SUFFICES ASSUME CalmInv, NEW t \in Threads,
                      checkpoint[t].saved, ObservedStatus(t) \notin TerminalStatuses
               PROVE  InHand(t) \/ DeliveryAbandoned(t)
    BY DEF NothingStranded
  <2>1. checkpoint[t].state.status \notin TerminalStatuses
    BY DEF ObservedStatus
  <2>2. CASE Fresh(t)
    BY <2>2 DEF Fresh, NoCheckpoint
  <2>3. CASE Held(t)
    <3>1. PICK j \in JobIds :
              Holder(t, j) /\ (Waits(t, j) \/ Runs(t, j) \/ Saves(t, j) \/ Fails(t, j))
      BY <2>3 DEF Held
    <3>2. jobs[j].phase # "over"
      BY <3>1 DEF Waits, Runs, Saves, Fails
    <3> QED BY <3>1, <3>2 DEF Holder, InHand
  <2>4. CASE Settled(t)
    BY <2>1, <2>4 DEF Settled, Reviewed, Decided, Closed, InHand, OnThread,
                      TerminalStatuses
  <2> QED BY <2>2, <2>3, <2>4 DEF CalmInv, Situation
<1> QED BY <1>1, CalmAlways, PTL

\* Without faults a rejected lead keeps its error and gets no quote: what
\* test_hitl_persistence.py:407-408 says holds for one submission per lead.
THEOREM RejectionLasts == ASSUME Calm PROVE Spec => []RejectionIsFinal
<1>1. TypeOK /\ CalmInv => RejectionIsFinal
  BY DEF TypeOK, CalmInv, RejectedInv, RejectionIsFinal, ObservedStatus,
         Settled, Reviewed, Decided, ApprovedIn, Closed
<1> QED BY <1>1, CalmAlways, PTL

\* Without faults no run overwrites a decision in the checkpoint.
THEOREM DecisionsSurvive == ASSUME Calm PROVE Spec => DecisionSurvives
<1>1. TypeOK /\ CalmInv /\ [Next]_vars
        => [\A t \in Threads :
              checkpoint[t].state.human_approved # "None" =>
                 checkpoint'[t].state.human_approved
                     = checkpoint[t].state.human_approved]_checkpoint
  BY CalmInductive DEF CalmStep, Kept
<1> QED BY <1>1, CalmAlways, PTL DEF Spec, DecisionSurvives

\* Without faults the service implements the lifecycle promised to clients,
\* for every lead.
THEOREM LifecycleImplemented == ASSUME Calm PROVE Spec => ImplementsLifecycle
<1>1. Init => \A t \in Threads : Lifecycle(t)!Init
  BY DEF Init, ObservedStatus, NoCheckpoint, Lifecycle!Init
<1>2. TypeOK /\ CalmInv /\ [Next]_vars
        => [\A t \in Threads : [Lifecycle(t)!Next]_(Lifecycle(t)!lifecycleVars)]_vars
  BY CalmInductive DEF CalmStep, Lives
<1> QED BY <1>1, <1>2, CalmAlways, PTL DEF Spec, ImplementsLifecycle

=============================================================================
