---------------------- MODULE LeadServiceFaults_proofs ----------------------
(***************************************************************************)
(* Theorems about LeadService when things go wrong.  The first part is    *)
(* about a worker that is restarted while runs of one lead overlap: no    *)
(* lead falls out of everybody's hands.  The second and the third part    *)
(* are the safety half of LeadsAreAnswered, under any fault: a step of    *)
(* the worker uses up work that only a restart gives back, and a worker   *)
(* with an unfinished job always has a step to take.                       *)
(***************************************************************************)
EXTENDS LeadService_proofs

USE SettingsAssumption, ServiceAssumption

-----------------------------------------------------------------------------
(* Restarts of the worker *)

\* Leads run and nobody reviews them; the worker may be restarted at any
\* time.  A job that is cancelled (timeout) or whose crash handler cannot
\* write (checkpointer) does strand its lead.
RestartsOnly ==
    /\ Operators = {}
    /\ "timeout" \notin Faults
    /\ "checkpointer" \notin Faults

\* The job will still write the checkpoint of its thread.
Acts(j) ==
    \/ jobs[j].phase \in {"queued", "saving", "failing"}
    \/ jobs[j].phase = "running" /\ jobs[j].next \notin {"__end__", "hitl_interrupt"}

\* The run's copy is what the graph says of its node, and from the second
\* node on the thread has a checkpointed node for the crash handler to find.
RunInv(j) ==
    /\ jobs[j].kind = "run_qualification_task"
    /\ jobs[j].phase \in {"running", "saving"} => AtNode(jobs[j].state, jobs[j].next)
    /\ \/ jobs[j].phase = "running" /\ jobs[j].next # "sanitizer"
       \/ jobs[j].phase = "failing"
       => checkpoint[jobs[j].thread].last # "none"

\* What the client reads is final, or some job will still change it.
Pending(t) ==
    /\ checkpoint[t].saved
    /\ checkpoint[t].state.status \notin TerminalStatuses
    /\ ~DeliveryAbandoned(t)

LeadInv(t) == Pending(t) => \E j \in JobsOf(t) : Acts(j)

RestartInv ==
    /\ \A j \in JobIds : RunInv(j)
    /\ \A t \in Threads : LeadInv(t)

\* A run that has come to the interrupt or to the end has nothing to add: its
\* status is terminal or its delivery abandoned.
LEMMA EndIsFinal ==
    ASSUME NEW s \in AgentState, NEW n \in {"__end__", "hitl_interrupt"}, AtNode(s, n)
    PROVE  \/ s.status \in TerminalStatuses
           \/ /\ s.delivery_status = "FAILED"
              /\ s.delivery_attempts >= DeliveryMaxAttempts
BY DEF AtNode, TerminalStatuses

LEMMA RestartInductive ==
    ASSUME RestartsOnly
    PROVE  TypeOK /\ SavedInv /\ RestartInv /\ [Next]_vars => RestartInv'
<1> SUFFICES ASSUME TypeOK, SavedInv, RestartInv, [Next]_vars PROVE RestartInv'
  OBVIOUS
<1>a. /\ jobs \in Seq(JobRecords) /\ checkpoint \in [Threads -> Checkpoints]
      /\ \A j \in JobIds : RunInv(j)
      /\ \A t \in Threads : LeadInv(t)
  BY DEF TypeOK, RestartInv
\* Steps that replace one job, which keeps its thread in hand if it did, and
\* perhaps its thread's checkpoint.
<1>b. ASSUME NEW j \in JobIds, NEW r \in JobRecords, Replaced(j, r),
             r.thread = jobs[j].thread, r.kind = jobs[j].kind,
             r.phase \in {"running", "saving"} => AtNode(r.state, r.next),
             NEW c \in Checkpoints, Stored(r.thread, c),
             checkpoint[r.thread].last # "none" => c.last # "none",
             \/ r.phase = "running" /\ r.next # "sanitizer"
             \/ r.phase = "failing"
             => c.last # "none",
             \/ r.phase \in {"queued", "saving", "failing"}
             \/ r.phase = "running" /\ r.next \notin {"__end__", "hitl_interrupt"}
             \/ ~Acts(j) /\ c = checkpoint[r.thread]
             \/ c.state.status \in TerminalStatuses
             \/ /\ c.state.delivery_status = "FAILED"
                /\ c.state.delivery_attempts >= DeliveryMaxAttempts
      PROVE  RestartInv'
  <2>1. /\ JobIds' = JobIds
        /\ \A t : JobsOf(t)' = JobsOf(t)
        /\ \A k \in JobIds : jobs'[k] = IF k = j THEN r ELSE jobs[k]
        /\ \A u \in Threads : checkpoint'[u] = IF u = r.thread THEN c ELSE checkpoint[u]
    BY <1>b DEF Replaced, Stored, JobIds, JobsOf
  <2>2. ASSUME NEW k \in JobIds PROVE RunInv(k)'
    <3>1. RunInv(k) /\ RunInv(j) /\ jobs[k].thread \in Threads
      BY <1>a, JobTypes
    <3> QED BY <1>b, <2>1, <3>1 DEF RunInv
  <2>3. ASSUME NEW t \in Threads, Pending(t)'
        PROVE  \E k \in JobsOf(t)' : Acts(k)'
    <3>1. CASE t # r.thread
      <4>1. checkpoint'[t] = checkpoint[t]
        BY <2>1, <3>1
      <4>2. Pending(t)
        BY <2>3, <4>1 DEF Pending, DeliveryAbandoned
      <4>3. PICK k \in JobsOf(t) : Acts(k)
        BY <1>a, <4>2 DEF LeadInv
      <4>4. k \in JobIds /\ k # j
        BY <1>b, <3>1, <4>3 DEF JobsOf
      <4> QED BY <2>1, <4>3, <4>4 DEF Acts
    <3>2. CASE t = r.thread
      <4>1. checkpoint'[t] = c /\ jobs'[j] = r /\ j \in JobsOf(t)'
        BY <1>b, <2>1, <3>2 DEF JobsOf
      <4>2. CASE \/ r.phase \in {"queued", "saving", "failing"}
                 \/ r.phase = "running" /\ r.next \notin {"__end__", "hitl_interrupt"}
        BY <4>1, <4>2 DEF Acts
      <4>3. CASE ~Acts(j) /\ c = checkpoint[r.thread]
        <5>1. Pending(t)
          BY <2>3, <3>2, <4>1, <4>3 DEF Pending, DeliveryAbandoned
        <5>2. PICK k \in JobsOf(t) : Acts(k)
          BY <1>a, <5>1 DEF LeadInv
        <5>3. k \in JobIds /\ k # j
          BY <4>3, <5>2 DEF JobsOf
        <5> QED BY <2>1, <5>2, <5>3 DEF Acts
      <4>4. CASE \/ c.state.status \in TerminalStatuses
                 \/ /\ c.state.delivery_status = "FAILED"
                    /\ c.state.delivery_attempts >= DeliveryMaxAttempts
        BY <2>3, <4>1, <4>4 DEF Pending, DeliveryAbandoned
      <4> QED BY <1>b, <4>2, <4>3, <4>4
    <3> QED BY <3>1, <3>2
  <2> QED BY <2>1, <2>2, <2>3 DEF RestartInv, LeadInv
\* Steps that leave the checkpoints alone.
<1>c. ASSUME NEW j \in JobIds, NEW r \in JobRecords, Replaced(j, r),
             r.thread = jobs[j].thread, r.kind = jobs[j].kind,
             UNCHANGED checkpoint,
             r.phase \in {"running", "saving"} => AtNode(r.state, r.next),
             \/ r.phase = "running" /\ r.next # "sanitizer"
             \/ r.phase = "failing"
             => checkpoint[r.thread].last # "none",
             \/ r.phase \in {"queued", "saving", "failing"}
             \/ ~Acts(j)
      PROVE  RestartInv'
  <2>1. /\ r.thread \in Threads
        /\ checkpoint[r.thread] \in Checkpoints
        /\ Stored(r.thread, checkpoint[r.thread])
    BY <1>a, <1>c, JobTypes DEF Stored
  <2> QED BY <1>b, <1>c, <2>1
\* Steps that change the phase of one job.
<1>d. ASSUME NEW j \in JobIds, NEW phase \in {"failing", "over"}, SetPhase(j, phase),
             UNCHANGED checkpoint,
             phase = "failing" => checkpoint[jobs[j].thread].last # "none",
             phase = "over" => ~Acts(j)
      PROVE  RestartInv'
  <2> DEFINE r == [jobs[j] EXCEPT !.phase = phase]
  <2>1. /\ Replaced(j, r) /\ r.thread = jobs[j].thread
        /\ r.phase = phase /\ r.kind = jobs[j].kind
    <3>1. phase \in Phases
      BY <1>d DEF Phases
    <3> QED BY <1>a, <1>d, <3>1, PhaseSet
  <2>2. r \in JobRecords
    <3>1. jobs[j] \in JobRecords
      BY <1>a, JobTypes
    <3> QED BY <1>d, <3>1 DEF JobRecords, Phases
  <2> HIDE DEF r
  <2> QED BY <1>c, <1>d, <2>1, <2>2
<1>1. ASSUME NEW j \in JobIds, StartQualification(j) PROVE RestartInv'
  <2>1. PICK r \in JobRecords, c \in Checkpoints :
              /\ Replaced(j, r)
              /\ r.thread = jobs[j].thread /\ r.kind = jobs[j].kind
              /\ r.phase = "running" /\ r.state = InitialState
              /\ r.next = "sanitizer"
              /\ Stored(jobs[j].thread, c)
              /\ c.last = checkpoint[jobs[j].thread].last
    BY <1>1, StartEffect
  <2>2. AtNode(InitialState, "sanitizer")
    BY DEF AtNode, InitialState, Nodes
  <2> QED BY <1>b, <2>1, <2>2
<1>2. ASSUME NEW j \in JobIds, StartResume(j) \/ RefuseResume(j) PROVE FALSE
  BY <1>a, <1>2 DEF StartResume, RefuseResume, RunInv
\* A run takes its node: what the node returns fits the next one.
<1>3. ASSUME NEW j \in JobIds, RunNode(j) PROVE RestartInv'
  <2>1. PICK s \in NodeReturns(jobs[j].next, jobs[j].state) : Return(j, s)
    BY <1>3 DEF RunNode
  <2>2. /\ s \in AgentState /\ jobs[j].next \in Nodes
        /\ AtNode(s, Edge(jobs[j].next, s))
    BY <1>a, <1>3, NodeEffect, NodeMoves, JobTypes DEF RunNode, RunsInVain, RunInv
  <2>3. PICK r \in JobRecords :
            /\ Replaced(j, r) /\ r.thread = jobs[j].thread
            /\ r.phase = "saving" /\ r.kind = jobs[j].kind
            /\ r.state = s /\ r.next = Edge(jobs[j].next, s)
    BY <1>a, <2>1, <2>2, Returned
  <2>4. UNCHANGED checkpoint
    BY <1>3 DEF RunNode
  <2> QED BY <1>c, <2>2, <2>3, <2>4
<1>4. ASSUME NEW j \in JobIds, RunDelivery(j) PROVE RestartInv'
  <2>1. PICK s \in {DeliverySucceeded(jobs[j].state), DeliveryFailed(jobs[j].state)} :
            Return(j, s)
    BY <1>4 DEF RunDelivery
  <2>2. /\ jobs[j].phase = "running" /\ jobs[j].next = "delivery"
        /\ UNCHANGED checkpoint
    BY <1>4 DEF RunDelivery
  <2>3. /\ s \in AgentState /\ jobs[j].next \in Nodes
        /\ AtNode(s, Edge(jobs[j].next, s))
    BY <1>a, <2>1, <2>2, DeliveryOutcomes, DeliveryMoves, JobTypes DEF RunInv, Nodes
  <2>4. PICK r \in JobRecords :
            /\ Replaced(j, r) /\ r.thread = jobs[j].thread
            /\ r.phase = "saving" /\ r.kind = jobs[j].kind
            /\ r.state = s /\ r.next = Edge(jobs[j].next, s)
    BY <1>a, <2>1, <2>3, Returned
  <2> QED BY <1>c, <2>2, <2>3, <2>4
<1>5. ASSUME NEW j \in JobIds, SaveCheckpoint(j) PROVE RestartInv'
  <2> DEFINE r == [jobs[j] EXCEPT !.phase = "running"]
  <2>1. PICK c \in Checkpoints :
            /\ Stored(jobs[j].thread, c)
            /\ c.state = jobs[j].state
            /\ c.last = jobs[j].last
    BY <1>5, SaveEffect
  <2>2. /\ Replaced(j, r) /\ r \in JobRecords
        /\ r.thread = jobs[j].thread /\ r.kind = jobs[j].kind
        /\ r.phase = "running" /\ r.state = jobs[j].state /\ r.next = jobs[j].next
    <3>1. jobs[j] \in JobRecords
      BY <1>a, JobTypes
    <3>2. Replaced(j, r)
      BY <1>5, SaveEffect
    <3> QED BY <3>1, <3>2 DEF JobRecords, Phases
  <2>3. /\ jobs[j].phase = "saving" /\ c.last # "none"
        /\ AtNode(jobs[j].state, jobs[j].next)
    BY <1>a, <1>5, <2>1 DEF SaveCheckpoint, SavedInv, RunInv
  <2>4. \/ jobs[j].next \notin {"__end__", "hitl_interrupt"}
        \/ c.state.status \in TerminalStatuses
        \/ /\ c.state.delivery_status = "FAILED"
           /\ c.state.delivery_attempts >= DeliveryMaxAttempts
    BY <1>a, <2>1, <2>3, EndIsFinal, JobTypes
  <2> HIDE DEF r
  <2> QED BY <1>b, <2>1, <2>2, <2>3, <2>4
<1>6. ASSUME NEW j \in JobIds, EndJob(j) PROVE RestartInv'
  BY <1>6, <1>d DEF EndJob, Acts
\* A node raises only after the sanitizer.
<1>7. ASSUME NEW j \in JobIds, Raise(j) PROVE RestartInv'
  <2>1. /\ jobs[j].phase = "running" /\ jobs[j].next \in {"extractor", "mapper"}
        /\ SetPhase(j, "failing") /\ UNCHANGED checkpoint
    BY <1>7 DEF Raise, RestartsOnly, NodeMayRaise, RunsInVain
  <2>2. checkpoint[jobs[j].thread].last # "none"
    BY <1>a, <2>1 DEF RunInv
  <2> QED BY <1>d, <2>1, <2>2
<1>8. ASSUME NEW j \in JobIds, MarkError(j) PROVE RestartInv'
  <2> DEFINE t == jobs[j].thread
             r == [jobs[j] EXCEPT !.phase = "over"]
  <2>1. /\ checkpoint[t].last # "none"
        /\ SetPhase(j, "over")
        /\ UpdateState(t, MarkedError(checkpoint[t].state))
        /\ t \in Threads
        /\ checkpoint[t].state \in AgentState
    BY <1>a, <1>8, JobTypes, CheckpointTypes DEF MarkError
  <2>2. PICK c \in Checkpoints :
            /\ Stored(t, c) /\ c.state = MarkedError(checkpoint[t].state)
            /\ c.last = checkpoint[t].last
    BY <1>a, <2>1, Updated, UpdateEffects
  <2>3. /\ Replaced(j, r) /\ r \in JobRecords /\ r.phase = "over"
        /\ r.thread = t /\ r.kind = jobs[j].kind
    <3>1. jobs[j] \in JobRecords
      BY <1>a, JobTypes
    <3>2. Replaced(j, r)
      BY <1>a, <2>1, PhaseSet DEF Phases
    <3> QED BY <3>1, <3>2 DEF JobRecords, Phases
  <2>4. c.state.status \in TerminalStatuses
    BY <2>1, <2>2, UpdateEffects DEF TerminalStatuses
  <2> HIDE DEF r
  <2> QED BY <1>b, <2>1, <2>2, <2>3, <2>4
\* The crash handler always finds a node to update after, and Postgres.
<1>9. ASSUME NEW j \in JobIds, FailToMarkError(j) \/ TimeOut(j) PROVE FALSE
  BY <1>a, <1>9 DEF FailToMarkError, TimeOut, RestartsOnly, RunInv
\* Every job the restart finds in the worker waits in the queue again.
<1>10. CASE CrashWorker
  <2>1. /\ UNCHANGED checkpoint
        /\ JobIds' = JobIds
        /\ \A k \in JobIds : /\ jobs'[k].thread = jobs[k].thread
                             /\ jobs'[k].kind = jobs[k].kind
                             /\ jobs'[k].phase = "queued" \/ jobs'[k] = jobs[k]
    BY <1>a, <1>10, Requeued DEF CrashWorker, JobIds
  <2>2. \A k \in JobIds : RunInv(k)'
    BY <1>a, <2>1 DEF RunInv
  <2>3. /\ \A t : JobsOf(t)' = JobsOf(t) /\ JobsOf(t) \subseteq JobIds
        /\ \A k \in JobIds : Acts(k) => Acts(k)'
        /\ \A t \in Threads : Pending(t)' => Pending(t)
    BY <2>1 DEF JobsOf, Acts, Pending, DeliveryAbandoned
  <2>4. \A t \in Threads : LeadInv(t)'
    BY <1>a, <2>3 DEF LeadInv
  <2> QED BY <2>1, <2>2, <2>4 DEF RestartInv
<1>11. ASSUME NEW t \in Threads, SubmitLead(t) PROVE RestartInv'
  <2>1. /\ UNCHANGED checkpoint
        /\ JobIds \subseteq JobIds'
        /\ \A k \in JobIds : jobs'[k] = jobs[k]
        /\ \A k \in JobIds' \ JobIds : /\ jobs'[k].phase = "queued"
                                      /\ jobs'[k].kind = "run_qualification_task"
    <3>1. /\ Len(jobs) \in Nat /\ "run_qualification_task" \in JobKinds
          /\ jobs' = Append(jobs, NewJob("run_qualification_task", t))
          /\ UNCHANGED checkpoint
      BY <1>a, <1>11 DEF SubmitLead, JobKinds
    <3> QED BY <1>a, <3>1, Appended DEF JobIds
  <2>2. \A k \in JobIds' : RunInv(k)'
    BY <1>a, <2>1 DEF RunInv
  <2>3. /\ \A u : JobsOf(u) \subseteq JobsOf(u)' /\ JobsOf(u) \subseteq JobIds
        /\ \A k \in JobIds : Acts(k) => Acts(k)'
        /\ \A u \in Threads : Pending(u)' => Pending(u)
    BY <2>1 DEF JobsOf, Acts, Pending, DeliveryAbandoned
  <2>4. \A u \in Threads : LeadInv(u)'
    BY <1>a, <2>3 DEF LeadInv
  <2> QED BY <2>2, <2>4 DEF RestartInv
<1>12. CASE UNCHANGED vars
  BY <1>a, <1>12 DEF vars, RestartInv, RunInv, LeadInv, Pending, JobsOf, JobIds, Acts,
                     DeliveryAbandoned
<1> QED BY <1>1, <1>2, <1>3, <1>4, <1>5, <1>6, <1>7, <1>8, <1>9, <1>10, <1>11, <1>12
        DEF Next, WorkerStep, JobStep, ApiStep, FaultStep, ClientStep, RestartsOnly

\* Restarts strand nobody: wherever the worker is restarted while ARQ repeats
\* its jobs, however often a lead is submitted and with any number of slots,
\* a lead whose client has to keep polling is in the hands of a job, although
\* each repeated job starts from a fresh state and overwrites what the others
\* wrote (tasks.py:84-86,120-175).
THEOREM RestartsStrandNobody == ASSUME RestartsOnly PROVE Spec => []NothingStranded
<1>1. Init => RestartInv
  <2> SUFFICES ASSUME Init PROVE RestartInv
    OBVIOUS
  <2>1. JobIds = {} /\ \A t \in Threads : ~checkpoint[t].saved
    BY DEF Init, JobIds, NoCheckpoint
  <2> QED BY <2>1 DEF RestartInv, LeadInv, Pending
<1>2. TypeOK /\ SavedInv /\ RestartInv /\ [Next]_vars => RestartInv'
  BY RestartInductive
<1>3. TypeOK /\ SavedInv /\ [Next]_vars => (TypeOK /\ SavedInv)'
  BY ServiceTypeInductive
<1>4. RestartInv => NothingStranded
  BY DEF RestartInv, LeadInv, Pending, NothingStranded, ObservedStatus, InHand, Acts, JobsOf
<1> QED BY <1>1, <1>2, <1>3, <1>4, ServiceTypeInit, PTL DEF Spec

-----------------------------------------------------------------------------
(* Every step of the worker uses up work *)

\* The extractions the retry counter still allows.
RetriesLeft(s) ==
    IF s.retry_count < MaxRetryCount THEN MaxRetryCount - s.retry_count ELSE 0

\* The first extraction of a retry loop is made even if none is left.
ExtractionsLeft(s) == IF RetriesLeft(s) = 0 THEN 1 ELSE RetriesLeft(s)

\* The attempts a delivery still has: the graph tests the limit after it.
AttemptsLeft(s) ==
    IF s.delivery_attempts < DeliveryMaxAttempts
    THEN DeliveryMaxAttempts - s.delivery_attempts ELSE 1

\* The most nodes a run takes that is about to take n: an extraction is
\* followed by mapper and evaluator, the last evaluator by the calculator.
NodesLeft(n, s) ==
    CASE n = "delivery"   -> AttemptsLeft(s)
      [] n = "calculator" -> DeliveryMaxAttempts + 1
      [] n = "evaluator"  -> DeliveryMaxAttempts + 2 + 3 * RetriesLeft(s)
      [] n = "mapper"     -> DeliveryMaxAttempts + 3 + 3 * RetriesLeft(s)
      [] n = "extractor"  -> DeliveryMaxAttempts + 1 + 3 * ExtractionsLeft(s)
      [] n = "sanitizer"  -> DeliveryMaxAttempts + 2 + 3 * ExtractionsLeft(s)
      [] OTHER            -> 0

\* A run takes no more nodes than this, wherever it starts.
LongestRun == DeliveryMaxAttempts + 3 + 3 * MaxRetryCount

\* The worker steps that job r may still take: nodes and checkpoints alternate.
JobWork(r) ==
    CASE r.phase = "queued"  -> 2 * LongestRun + 3
      [] r.phase = "running" -> 2 * NodesLeft(r.next, r.state) + 2
      [] r.phase = "saving"  -> 2 * NodesLeft(r.next, r.state) + 3
      [] r.phase = "failing" -> 1
      [] r.phase = "over"    -> 0

\* The step is one of job j, and j has less to do after it.
UsesUp(j) ==
    /\ JobWork(jobs'[j]) < JobWork(jobs[j])
    /\ \A k \in JobIds \ {j} : jobs'[k] = jobs[k]

LEMMA CountersLeft ==
    ASSUME NEW s \in AgentState
    PROVE  /\ RetriesLeft(s) \in 0..MaxRetryCount
           /\ ExtractionsLeft(s) \in 1..MaxRetryCount
           /\ AttemptsLeft(s) \in 1..DeliveryMaxAttempts
<1>1. s.retry_count \in Nat /\ s.delivery_attempts \in Nat
  BY FieldTypes
<1> QED BY <1>1 DEF RetriesLeft, ExtractionsLeft, AttemptsLeft

LEMMA NodesLeftOf ==
    ASSUME NEW s
    PROVE  /\ NodesLeft("delivery", s)   = AttemptsLeft(s)
           /\ NodesLeft("calculator", s) = DeliveryMaxAttempts + 1
           /\ NodesLeft("evaluator", s)  = DeliveryMaxAttempts + 2 + 3 * RetriesLeft(s)
           /\ NodesLeft("mapper", s)     = DeliveryMaxAttempts + 3 + 3 * RetriesLeft(s)
           /\ NodesLeft("extractor", s)  = DeliveryMaxAttempts + 1 + 3 * ExtractionsLeft(s)
           /\ NodesLeft("sanitizer", s)  = DeliveryMaxAttempts + 2 + 3 * ExtractionsLeft(s)
           /\ NodesLeft("hitl_interrupt", s) = 0
           /\ NodesLeft("__end__", s)    = 0
           /\ NodesLeft("none", s)       = 0
BY DEF NodesLeft

LEMMA NodesLeftType ==
    ASSUME NEW s \in AgentState, NEW n \in Nodes \cup {"none", "__end__"}
    PROVE  NodesLeft(n, s) \in 0..LongestRun
<1>1. n \in {"sanitizer", "extractor", "mapper", "evaluator", "calculator",
             "delivery", "hitl_interrupt", "none", "__end__"}
  BY DEF Nodes
<1>2. /\ RetriesLeft(s) \in 0..MaxRetryCount
      /\ ExtractionsLeft(s) \in 1..MaxRetryCount
      /\ AttemptsLeft(s) \in 1..DeliveryMaxAttempts
  BY CountersLeft
<1> QED BY <1>1, <1>2, NodesLeftOf DEF LongestRun

\* A node leads to a node that fewer can follow: an extraction that is not
\* short-circuited uses up a retry, and the evaluator goes back only while
\* one is left (extractor.py:204-209,271-275, graph.py:91-100).
LEMMA NodeUsesUp ==
    ASSUME NEW n \in Nodes \ {"delivery", "hitl_interrupt"}, NEW s \in AgentState,
           ~(n = "extractor" /\ ~CallsLLM(s)),
           NEW r \in NodeReturns(n, s)
    PROVE  NodesLeft(Edge(n, r), r) < NodesLeft(n, s)
<1>a. n \in {"sanitizer", "extractor", "mapper", "evaluator", "calculator"}
  BY DEF Nodes
<1>b. r \in AgentState
  BY NodeEffect
<1>c. /\ RetriesLeft(s) \in Nat /\ ExtractionsLeft(s) \in Nat /\ ExtractionsLeft(s) >= 1
      /\ RetriesLeft(r) \in Nat /\ ExtractionsLeft(r) \in Nat
      /\ AttemptsLeft(r) \in Nat /\ AttemptsLeft(r) <= DeliveryMaxAttempts
      /\ s.retry_count \in Nat
  BY <1>b, CountersLeft, FieldTypes
<1>1. CASE n = "sanitizer"
  <2>1. r.retry_count = s.retry_count /\ Edge(n, r) = "extractor"
    BY <1>1, SanitizerEffect, Edges DEF NodeReturns
  <2>2. ExtractionsLeft(r) = ExtractionsLeft(s)
    BY <2>1 DEF ExtractionsLeft, RetriesLeft
  <2> QED BY <1>1, <1>c, <2>1, <2>2, NodesLeftOf
<1>2. CASE n = "extractor"
  <2>1. r.retry_count = s.retry_count + 1 /\ Edge(n, r) = "mapper"
    BY <1>2, ExtractorEffect, Edges DEF NodeReturns
  <2>2. RetriesLeft(r) + 1 <= ExtractionsLeft(s)
    BY <1>c, <2>1 DEF ExtractionsLeft, RetriesLeft
  <2> QED BY <1>2, <1>c, <2>1, <2>2, NodesLeftOf
<1>3. CASE n = "mapper"
  <2>1. r.retry_count = s.retry_count /\ Edge(n, r) = "evaluator"
    BY <1>3, MapperEffect, Edges DEF NodeReturns
  <2>2. RetriesLeft(r) = RetriesLeft(s)
    BY <2>1 DEF RetriesLeft
  <2> QED BY <1>3, <1>c, <2>1, <2>2, NodesLeftOf
<1>4. CASE n = "evaluator"
  <2>1. r.retry_count = s.retry_count /\ Edge(n, r) = RouteAfterEvaluator(r)
    BY <1>4, EvaluatorEffect, Edges DEF NodeReturns
  <2>2. RetriesLeft(r) = RetriesLeft(s)
    BY <2>1 DEF RetriesLeft
  <2>3. CASE RouteAfterEvaluator(r) = "extractor"
    <3>1. r.retry_count < MaxRetryCount
      BY <2>3 DEF RouteAfterEvaluator
    <3>2. ExtractionsLeft(r) = RetriesLeft(s)
      BY <1>c, <2>1, <2>2, <3>1 DEF ExtractionsLeft, RetriesLeft
    <3> QED BY <1>4, <1>c, <2>1, <2>3, <3>2, NodesLeftOf
  <2>4. CASE RouteAfterEvaluator(r) \in {"calculator", "hitl_interrupt"}
    BY <1>4, <1>c, <2>1, <2>4, NodesLeftOf
  <2> QED BY <2>3, <2>4, Edges
<1>5. CASE n = "calculator"
  <2>1. Edge(n, r) = "delivery"
    BY <1>5, Edges
  <2> QED BY <1>5, <1>c, <2>1, NodesLeftOf
<1> QED BY <1>a, <1>1, <1>2, <1>3, <1>4, <1>5

\* A delivery, accepted or refused, uses up an attempt (graph.py:118-138).
LEMMA DeliveryUsesUp ==
    ASSUME NEW s \in AgentState, NEW r \in DeliveryNode(s)
    PROVE  NodesLeft(Edge("delivery", r), r) < NodesLeft("delivery", s)
<1>1. /\ r \in AgentState
      /\ r.delivery_attempts = s.delivery_attempts + 1
      /\ s.delivery_attempts \in Nat
      /\ AttemptsLeft(s) \in Nat /\ AttemptsLeft(s) >= 1
  BY DeliveryEffect, FieldTypes, CountersLeft
<1>2. Edge("delivery", r) = RouteAfterDelivery(r)
  BY Edges
<1>3. CASE RouteAfterDelivery(r) = "delivery"
  <2>1. r.delivery_attempts < DeliveryMaxAttempts
    BY <1>3 DEF RouteAfterDelivery
  <2>2. AttemptsLeft(r) < AttemptsLeft(s)
    BY <1>1, <2>1 DEF AttemptsLeft
  <2> QED BY <1>2, <1>3, <2>2, NodesLeftOf
<1>4. CASE RouteAfterDelivery(r) = "__end__"
  BY <1>1, <1>2, <1>4, NodesLeftOf
<1> QED BY <1>3, <1>4, Edges

LEMMA JobWorkOf ==
    ASSUME NEW r
    PROVE  /\ r.phase = "queued"  => JobWork(r) = 2 * LongestRun + 3
           /\ r.phase = "running" => JobWork(r) = 2 * NodesLeft(r.next, r.state) + 2
           /\ r.phase = "saving"  => JobWork(r) = 2 * NodesLeft(r.next, r.state) + 3
           /\ r.phase = "failing" => JobWork(r) = 1
           /\ r.phase = "over"    => JobWork(r) = 0
BY DEF JobWork

\* A job has at most the work of a queued one, however it got where it is.
LEMMA WorkBounded ==
    ASSUME NEW r \in JobRecords
    PROVE  JobWork(r) \in 0..(2 * LongestRun + 3)
<1>1. /\ r.phase \in Phases /\ r.state \in AgentState
      /\ r.next \in Nodes \cup {"none", "__end__"}
  BY DEF JobRecords
<1>2. NodesLeft(r.next, r.state) \in 0..LongestRun /\ LongestRun \in Nat
  BY <1>1, NodesLeftType DEF LongestRun
<1> QED BY <1>1, <1>2, JobWorkOf DEF Phases

\* Only an unfinished job has work left.
LEMMA WorkLeft ==
    ASSUME NEW r \in JobRecords, r.phase # "over"
    PROVE  JobWork(r) >= 1
<1>1. /\ r.phase \in Phases /\ r.state \in AgentState
      /\ r.next \in Nodes \cup {"none", "__end__"}
  BY DEF JobRecords
<1>2. NodesLeft(r.next, r.state) \in 0..LongestRun /\ LongestRun \in Nat
  BY <1>1, NodesLeftType DEF LongestRun
<1> QED BY <1>1, <1>2, JobWorkOf DEF Phases

\* Whatever step of the worker is taken, it is one job's and uses up work.
LEMMA WorkerUsesUp ==
    ASSUME TypeOK, NEW j \in JobIds, JobStep(j)
    PROVE  UsesUp(j)
<1>a. /\ jobs \in Seq(JobRecords)
      /\ jobs[j] \in JobRecords /\ jobs[j].state \in AgentState
      /\ jobs[j].next \in Nodes \cup {"none", "__end__"}
  BY JobTypes DEF TypeOK
<1>b. /\ LongestRun \in Nat
      /\ NodesLeft(jobs[j].next, jobs[j].state) \in 0..LongestRun
  BY <1>a, NodesLeftType DEF LongestRun
<1>c. ASSUME NEW r, Replaced(j, r), JobWork(r) < JobWork(jobs[j])
      PROVE  UsesUp(j)
  BY <1>c DEF UsesUp, Replaced
\* A job enters the worker.
<1>1. CASE StartQualification(j) \/ StartResume(j)
  <2>1. \E r \in JobRecords : Replaced(j, r) /\ r.phase = "running"
    BY <1>1, StartEffect, ResumeEffect
  <2>2. PICK r \in JobRecords : Replaced(j, r) /\ r.phase = "running"
    BY <2>1
  <2>3. r.state \in AgentState /\ r.next \in Nodes \cup {"none", "__end__"}
    BY DEF JobRecords
  <2>4. NodesLeft(r.next, r.state) \in 0..LongestRun
    BY <2>3, NodesLeftType
  <2>5. jobs[j].phase = "queued"
    BY <1>1 DEF StartQualification, StartResume, CanStart
  <2> QED BY <1>b, <1>c, <2>2, <2>4, <2>5, JobWorkOf
\* The node returned s.
<1>d. ASSUME jobs[j].phase = "running", jobs[j].next \in Nodes, NEW s \in AgentState,
             Return(j, s),
             NodesLeft(Edge(jobs[j].next, s), s) < NodesLeft(jobs[j].next, jobs[j].state)
      PROVE  UsesUp(j)
  <2>1. PICK r \in JobRecords :
            /\ Replaced(j, r) /\ r.phase = "saving"
            /\ r.state = s /\ r.next = Edge(jobs[j].next, s)
    BY <1>a, <1>d, Returned
  <2>2. NodesLeft(r.next, r.state) \in 0..LongestRun
    BY <1>d, <2>1, EdgeType, NodesLeftType
  <2> QED BY <1>b, <1>c, <1>d, <2>1, <2>2, JobWorkOf
<1>2. CASE RunNode(j)
  <2>1. PICK s \in NodeReturns(jobs[j].next, jobs[j].state) : Return(j, s)
    BY <1>2 DEF RunNode
  <2>2. /\ jobs[j].phase = "running" /\ jobs[j].next \in Nodes
        /\ s \in AgentState
        /\ NodesLeft(Edge(jobs[j].next, s), s) < NodesLeft(jobs[j].next, jobs[j].state)
    BY <1>a, <1>2, NodeEffect, NodeUsesUp DEF RunNode, RunsInVain
  <2> QED BY <1>d, <2>1, <2>2
<1>3. CASE RunDelivery(j)
  <2>1. PICK s \in DeliveryNode(jobs[j].state) : Return(j, s)
    BY <1>3 DEF RunDelivery, DeliveryNode
  <2>2. /\ jobs[j].phase = "running" /\ jobs[j].next = "delivery"
        /\ "delivery" \in Nodes /\ s \in AgentState
    BY <1>a, <1>3, <2>1, DeliveryEffect DEF RunDelivery, Nodes
  <2>3. NodesLeft(Edge("delivery", s), s) < NodesLeft("delivery", jobs[j].state)
    BY <1>a, <2>1, DeliveryUsesUp
  <2> QED BY <1>d, <2>1, <2>2, <2>3
\* The remaining steps change the phase of the job alone.
<1>e. ASSUME NEW phase \in Phases, SetPhase(j, phase)
      PROVE  \E r \in JobRecords : /\ Replaced(j, r) /\ r.phase = phase
                                   /\ r.state = jobs[j].state /\ r.next = jobs[j].next
  <2> DEFINE r == [jobs[j] EXCEPT !.phase = phase]
  <2>1. Replaced(j, r) /\ r.phase = phase /\ r.state = jobs[j].state /\ r.next = jobs[j].next
    BY <1>a, <1>e, PhaseSet
  <2>2. r \in JobRecords
    BY <1>a, <1>e DEF JobRecords
  <2> HIDE DEF r
  <2> QED BY <2>1, <2>2
<1>4. CASE SaveCheckpoint(j)
  <2>1. SetPhase(j, "running") /\ jobs[j].phase = "saving" /\ "running" \in Phases
    BY <1>4 DEF SaveCheckpoint, Phases
  <2>2. PICK r \in JobRecords : /\ Replaced(j, r) /\ r.phase = "running"
                                /\ r.state = jobs[j].state /\ r.next = jobs[j].next
    BY <1>e, <2>1
  <2> QED BY <1>b, <1>c, <2>1, <2>2, JobWorkOf
<1>5. CASE EndJob(j) \/ MarkError(j) \/ FailToMarkError(j)
  <2>1. SetPhase(j, "over") /\ jobs[j].phase # "over" /\ "over" \in Phases
    BY <1>5 DEF EndJob, MarkError, FailToMarkError, Phases
  <2>2. PICK r \in JobRecords : Replaced(j, r) /\ r.phase = "over"
    BY <1>e, <2>1
  <2>3. JobWork(r) = 0 /\ JobWork(jobs[j]) >= 1 /\ JobWork(jobs[j]) \in Int
    BY <1>a, <2>1, <2>2, JobWorkOf, WorkLeft, WorkBounded
  <2> QED BY <1>c, <2>2, <2>3
<1>6. CASE RefuseResume(j) \/ Raise(j)
  <2>1. /\ SetPhase(j, "failing") /\ "failing" \in Phases
        /\ jobs[j].phase \in {"queued", "running", "saving"}
    BY <1>6 DEF RefuseResume, Raise, CanStart, Phases
  <2>2. PICK r \in JobRecords : Replaced(j, r) /\ r.phase = "failing"
    BY <1>e, <2>1
  <2> QED BY <1>b, <1>c, <2>1, <2>2, JobWorkOf
<1> QED BY <1>1, <1>2, <1>3, <1>4, <1>5, <1>6 DEF JobStep

\* The first half of why every lead is answered: under any fault each step of
\* the worker is one job's and uses up some of the bounded work of that job
\* (one step per node and one per checkpoint: retries and deliveries are
\* counted, graph.py:91-100,118-138), and no step but a restart gives any job
\* work back.  So between two restarts the worker takes finitely many steps.
THEOREM WorkShrinks ==
    Spec => [][/\ WorkerStep => \E j \in JobIds : UsesUp(j)
               /\ ~CrashWorker =>
                     \A j \in JobIds : JobWork(jobs'[j]) <= JobWork(jobs[j])]_vars
<1> DEFINE Shrinks == /\ WorkerStep => \E j \in JobIds : UsesUp(j)
                      /\ ~CrashWorker =>
                            \A j \in JobIds : JobWork(jobs'[j]) <= JobWork(jobs[j])
<1>1. TypeOK /\ Next => Shrinks
  <2> SUFFICES ASSUME TypeOK, Next PROVE Shrinks
    OBVIOUS
  <2>a. jobs \in Seq(JobRecords)
    BY DEF TypeOK
  <2>b. \A k \in JobIds : JobWork(jobs[k]) \in Int
    BY <2>a, JobTypes, WorkBounded
  <2>1. WorkerStep => \E j \in JobIds : UsesUp(j)
    BY WorkerUsesUp DEF WorkerStep
  <2>2. ASSUME ~CrashWorker, NEW k \in JobIds
        PROVE  JobWork(jobs'[k]) <= JobWork(jobs[k])
    <3>a. /\ jobs'[k] \in JobRecords
          /\ JobWork(jobs'[k]) \in Int /\ JobWork(jobs[k]) \in Int
      <4>1. jobs' \in Seq(JobRecords) /\ JobIds \subseteq JobIds'
        BY <2>2, JobsMove
      <4>2. jobs'[k] \in JobRecords
        BY <2>2, <4>1 DEF JobIds
      <4> QED BY <2>b, <2>2, <4>2, WorkBounded
    <3>1. CASE jobs'[k] = jobs[k]
      BY <3>a, <3>1
    <3>2. CASE WorkerStep
      BY <2>1, <3>a, <3>1, <3>2 DEF UsesUp
    <3>3. ASSUME NEW j \in JobIds, TimeOut(j)
          PROVE  JobWork(jobs'[k]) <= JobWork(jobs[k])
      <4>1. /\ Replaced(j, [jobs[j] EXCEPT !.phase = "over"])
            /\ [jobs[j] EXCEPT !.phase = "over"].phase = "over"
        <5>1. SetPhase(j, "over") /\ "over" \in Phases
          BY <3>3 DEF TimeOut, Phases
        <5> QED BY <2>a, <5>1, PhaseSet
      <4>2. CASE k = j
        <5>1. JobWork(jobs'[k]) = 0 /\ JobWork(jobs[k]) \in 0..(2 * LongestRun + 3)
          BY <2>a, <4>1, <4>2, JobTypes, JobWorkOf, WorkBounded DEF Replaced
        <5> QED BY <5>1
      <4> QED BY <2>2, <3>1, <4>1, <4>2 DEF Replaced
    <3>4. ASSUME NEW kind \in JobKinds, NEW t \in Threads,
                 jobs' = Append(jobs, NewJob(kind, t))
          PROVE  jobs'[k] = jobs[k]
      BY <2>a, <3>4, Appended
    <3>5. ASSUME NEW t \in Threads, SubmitLead(t) PROVE jobs'[k] = jobs[k]
      BY <3>4, <3>5 DEF SubmitLead, JobKinds
    <3>6. ASSUME NEW o \in Operators, EnqueueResume(o) PROVE jobs'[k] = jobs[k]
      BY <3>4, <3>6, RequestTypes, RequestSteps DEF EnqueueResume, JobKinds
    <3> QED BY <2>2, <3>1, <3>2, <3>3, <3>5, <3>6
            DEF Next, ApiStep, FaultStep, ClientStep, WriteRejection, WriteApproval,
                LoseRequest, CheckReview
  <2> QED BY <2>1, <2>2
<1> QED BY <1>1, TypeCorrect, PTL DEF Spec

-----------------------------------------------------------------------------
(* The worker always has a step to take *)

\* A thread that a run has checkpointed says where to go on, and a resume job
\* exists for such threads only.
ReadyInv ==
    /\ \A t \in Threads : checkpoint[t].last # "none" => checkpoint[t].next # "none"
    /\ \A j \in JobIds :
          /\ jobs[j].phase \in {"running", "saving"} => jobs[j].next # "none"
          /\ jobs[j].kind = "run_qualification_task_resume" =>
                checkpoint[jobs[j].thread].last # "none"

\* Every node has an answer to give.
LEMMA NodesAnswer ==
    ASSUME NEW n \in Nodes \ {"delivery", "hitl_interrupt"}, NEW s
    PROVE  NodeReturns(n, s) # {}
<1>a. n \in {"sanitizer", "extractor", "mapper", "evaluator", "calculator"}
  BY DEF Nodes
<1>1. SanitizerNode(s) # {}
  BY DEF SanitizerNode
<1>2. ExtractorNode(s) # {}
  <2>1. 0 \in 0..MaxServices
    OBVIOUS
  <2>2. ExtractorAnswered(s) # {}
    BY <2>1 DEF ExtractorAnswered
  <2> QED BY <2>2 DEF ExtractorNode, ExtractorShortCircuit
<1>3. MapperNode(s) # {}
  BY DEF MapperNode, MapperMatched
<1>4. EvaluatorNode(s) # {} /\ CalculatorNode(s) # {}
  BY DEF EvaluatorNode, CalculatorNode
<1> QED BY <1>a, <1>1, <1>2, <1>3, <1>4 DEF NodeReturns

LEMMA ReadyMeansNeverStuck == TypeOK /\ ReadyInv => WorkerNeverStuck
<1> SUFFICES ASSUME TypeOK, ReadyInv, NEW i \in JobIds, jobs[i].phase # "over"
             PROVE  \E j \in JobIds : Ready(j)
  BY DEF WorkerNeverStuck
<1>a. jobs \in Seq(JobRecords)
  BY DEF TypeOK
\* Inside the worker a job can go on by itself.
<1>1. CASE \E j \in JobIds : InWorker(j)
  <2>1. PICK j \in JobIds : InWorker(j)
    BY <1>1
  <2>2. CASE jobs[j].phase \in {"saving", "failing"}
    BY <2>1, <2>2 DEF Ready
  <2>3. CASE jobs[j].phase = "running"
    <3>1. jobs[j].next \in Nodes \cup {"__end__"}
      BY <1>a, <2>3, JobTypes DEF ReadyInv
    <3>2. CASE jobs[j].next \in {"delivery", "hitl_interrupt", "__end__"}
      BY <2>3, <3>2 DEF Ready
    <3>3. CASE jobs[j].next \in Nodes \ {"delivery", "hitl_interrupt"}
      <4>1. NodeReturns(jobs[j].next, jobs[j].state) # {}
        BY <3>3, NodesAnswer
      <4> QED BY <2>3, <3>3, <4>1 DEF Ready
    <3> QED BY <3>1, <3>2, <3>3
  <2> QED BY <2>1, <2>2, <2>3 DEF InWorker
\* With nobody inside, the first in the queue finds a free slot.
<1>2. CASE \A j \in JobIds : ~InWorker(j)
  <2> DEFINE Waiting == {j \in JobIds : jobs[j].phase = "queued"}
  <2>1. i \in Waiting /\ Waiting \subseteq Nat
    BY <1>a, <1>2, JobTypes DEF InWorker, Phases, JobIds
  <2>2. PICK j \in Waiting : \A k \in Waiting : j <= k
    <3> HIDE DEF Waiting
    <3> QED BY <2>1, LeastOf
  <2>3. {k \in JobIds : InWorker(k)} = {}
    BY <1>2
  <2>4. Cardinality({k \in JobIds : InWorker(k)}) < MaxJobs
    BY <2>3, FS_EmptySet
  <2>5. CanStart(j)
    BY <2>2, <2>4 DEF CanStart
  <2> QED BY <2>2, <2>5 DEF Ready
<1> QED BY <1>1, <1>2

LEMMA ReadyInductive ==
    TypeOK /\ SavedInv /\ ReadyInv /\ [Next]_vars => ReadyInv'
<1> SUFFICES ASSUME TypeOK, SavedInv, ReadyInv, [Next]_vars PROVE ReadyInv'
  OBVIOUS
<1>a. jobs \in Seq(JobRecords) /\ checkpoint \in [Threads -> Checkpoints]
  BY DEF TypeOK
<1>e. \A s : \A n \in Nodes : Edge(n, s) # "none"
  BY EdgeType DEF Nodes
\* Steps that replace one job and perhaps its thread's checkpoint.
<1>b. ASSUME NEW j \in JobIds, NEW r, Replaced(j, r),
             r.thread = jobs[j].thread, r.kind = jobs[j].kind,
             r.phase \in {"running", "saving"} => r.next # "none",
             NEW c, Stored(jobs[j].thread, c),
             c.last # "none" => c.next # "none",
             checkpoint[jobs[j].thread].last # "none" => c.last # "none"
      PROVE  ReadyInv'
  <2>1. \A k \in JobIds : jobs[k].thread \in Threads
    BY <1>a, JobTypes
  <2> QED BY <1>b, <2>1 DEF ReadyInv, Replaced, Stored, JobIds
<1>c. ASSUME NEW j \in JobIds, NEW r, Replaced(j, r),
             r.thread = jobs[j].thread, r.kind = jobs[j].kind,
             r.phase \in {"running", "saving"} => r.next # "none",
             UNCHANGED checkpoint
      PROVE  ReadyInv'
  BY <1>c DEF ReadyInv, Replaced, JobIds
\* Steps that end the job's part in it.
<1>d. ASSUME NEW j \in JobIds, NEW phase \in {"failing", "over"}, SetPhase(j, phase)
      PROVE  \E r : /\ Replaced(j, r) /\ r.phase = phase
                    /\ r.thread = jobs[j].thread /\ r.kind = jobs[j].kind
  <2> DEFINE r == [jobs[j] EXCEPT !.phase = phase]
  <2>1. phase \in Phases
    BY <1>d DEF Phases
  <2>2. /\ Replaced(j, r) /\ r.phase = phase
        /\ r.thread = jobs[j].thread /\ r.kind = jobs[j].kind
    BY <1>a, <1>d, <2>1, PhaseSet
  <2> HIDE DEF r
  <2> QED BY <2>2
\* aupdate_state on a thread of which a node has run.
<1>u. ASSUME NEW t \in Threads, NEW s \in AgentState, checkpoint[t].last # "none",
             UpdateState(t, s)
      PROVE  \E c : /\ Stored(t, c)
                    /\ c.last = checkpoint[t].last /\ c.next # "none"
  <2>1. PICK c \in Checkpoints :
            /\ Stored(t, c) /\ c.last = checkpoint[t].last
            /\ c.next = Edge(checkpoint[t].last, s)
    BY <1>a, <1>u, Updated
  <2>2. checkpoint[t].last \in Nodes
    BY <1>a, <1>u, CheckpointTypes
  <2> QED BY <1>e, <2>1, <2>2
<1>1. ASSUME NEW j \in JobIds, StartQualification(j) PROVE ReadyInv'
  BY <1>1, <1>b, StartEffect
<1>2. ASSUME NEW j \in JobIds, StartResume(j) PROVE ReadyInv'
  <2>1. PICK r \in JobRecords :
              /\ Replaced(j, r)
              /\ r.thread = jobs[j].thread /\ r.kind = jobs[j].kind
              /\ r.next = checkpoint[jobs[j].thread].next
    BY <1>2, ResumeEffect
  <2>2. checkpoint[jobs[j].thread].next # "none" /\ UNCHANGED checkpoint
    BY <1>a, <1>2, JobTypes DEF StartResume, ReadyInv
  <2> QED BY <1>c, <2>1, <2>2
<1>3. ASSUME NEW j \in JobIds,
             RefuseResume(j) \/ EndJob(j) \/ Raise(j) \/ FailToMarkError(j) \/ TimeOut(j)
      PROVE  ReadyInv'
  <2>1. UNCHANGED checkpoint /\ (SetPhase(j, "failing") \/ SetPhase(j, "over"))
    BY <1>3 DEF RefuseResume, EndJob, Raise, FailToMarkError, TimeOut
  <2>2. \E r : /\ Replaced(j, r) /\ r.phase \in {"failing", "over"}
               /\ r.thread = jobs[j].thread /\ r.kind = jobs[j].kind
    BY <1>d, <2>1
  <2> QED BY <1>c, <2>1, <2>2
<1>4. ASSUME NEW j \in JobIds, RunNode(j) \/ RunDelivery(j) PROVE ReadyInv'
  <2>1. /\ jobs[j].next \in Nodes /\ UNCHANGED checkpoint
        /\ \E s \in AgentState : Return(j, s)
    <3>1. CASE RunNode(j)
      BY <1>a, <3>1, NodeEffect, JobTypes DEF RunNode
    <3>2. CASE RunDelivery(j)
      BY <1>a, <3>2, DeliveryOutcomes, JobTypes DEF RunDelivery, Nodes
    <3> QED BY <1>4, <3>1, <3>2
  <2>2. PICK s \in AgentState : Return(j, s)
    BY <2>1
  <2>3. PICK r \in JobRecords : /\ Replaced(j, r)
                                /\ r.thread = jobs[j].thread /\ r.kind = jobs[j].kind
                                /\ r.next = Edge(jobs[j].next, s)
    BY <1>a, <2>1, <2>2, Returned
  <2> QED BY <1>c, <1>e, <2>1, <2>3
<1>5. ASSUME NEW j \in JobIds, SaveCheckpoint(j) PROVE ReadyInv'
  <2> DEFINE r == [jobs[j] EXCEPT !.phase = "running"]
  <2>1. PICK c \in Checkpoints : /\ Stored(jobs[j].thread, c)
                                 /\ c.last = jobs[j].last /\ c.next = jobs[j].next
    BY <1>5, SaveEffect
  <2>2. /\ Replaced(j, r)
        /\ r.thread = jobs[j].thread /\ r.kind = jobs[j].kind /\ r.next = jobs[j].next
    <3>1. jobs[j] \in JobRecords
      BY <1>a, JobTypes
    <3>2. Replaced(j, r)
      BY <1>5, SaveEffect
    <3> QED BY <3>1, <3>2 DEF JobRecords
  <2>3. jobs[j].last # "none" /\ jobs[j].next # "none"
    BY <1>5 DEF SaveCheckpoint, SavedInv, ReadyInv
  <2> HIDE DEF r
  <2> QED BY <1>b, <2>1, <2>2, <2>3
<1>6. ASSUME NEW j \in JobIds, MarkError(j) PROVE ReadyInv'
  <2>1. /\ checkpoint[jobs[j].thread].last # "none"
        /\ UpdateState(jobs[j].thread, MarkedError(checkpoint[jobs[j].thread].state))
        /\ SetPhase(j, "over")
        /\ jobs[j].thread \in Threads
        /\ checkpoint[jobs[j].thread].state \in AgentState
    BY <1>a, <1>6, JobTypes, CheckpointTypes DEF MarkError
  <2>2. PICK c : /\ Stored(jobs[j].thread, c)
                 /\ c.last = checkpoint[jobs[j].thread].last /\ c.next # "none"
    BY <1>u, <2>1, UpdateEffects
  <2>3. PICK r : /\ Replaced(j, r) /\ r.phase = "over"
                 /\ r.thread = jobs[j].thread /\ r.kind = jobs[j].kind
    BY <1>d, <2>1
  <2> QED BY <1>b, <2>1, <2>2, <2>3
<1>7. CASE CrashWorker
  <2>1. /\ JobIds' = JobIds /\ UNCHANGED checkpoint
        /\ \A k \in JobIds : \/ jobs'[k] = jobs[k]
                             \/ /\ jobs'[k].phase = "queued"
                                /\ jobs'[k].thread = jobs[k].thread
                                /\ jobs'[k].kind = jobs[k].kind
    BY <1>a, <1>7, Requeued DEF CrashWorker, JobIds
  <2> QED BY <2>1 DEF ReadyInv
<1>8. ASSUME NEW o \in Operators, WriteRejection(o) \/ WriteApproval(o) PROVE ReadyInv'
  <2> DEFINE t == requests[o].thread
  <2>1. /\ requests[o] # NoRequest
        /\ UpdateState(t, Rejected(checkpoint[t].state))
             \/ UpdateState(t, Approved(checkpoint[t].state))
        /\ UNCHANGED jobs
    BY <1>8, RequestSteps DEF WriteRejection, WriteApproval
  <2>2. /\ t \in Threads /\ checkpoint[t].last # "none"
        /\ checkpoint[t].state \in AgentState
    BY <1>a, <2>1, RequestTypes, CheckpointTypes DEF SavedInv
  <2> HIDE DEF t
  <2>3. PICK c : Stored(t, c) /\ c.last = checkpoint[t].last /\ c.next # "none"
    BY <1>u, <2>1, <2>2, UpdateEffects
  <2>4. \A k \in JobIds : jobs[k].thread \in Threads
    BY <1>a, JobTypes
  <2> QED BY <2>1, <2>2, <2>3, <2>4 DEF ReadyInv, Stored, JobIds
<1>9. ASSUME UNCHANGED checkpoint, NEW kind \in JobKinds, NEW t \in Threads,
             kind = "run_qualification_task_resume" => checkpoint[t].last # "none",
             jobs' = Append(jobs, NewJob(kind, t))
      PROVE  ReadyInv'
  <2>1. \A k \in JobIds' : \/ k \in JobIds /\ jobs'[k] = jobs[k]
                           \/ /\ jobs'[k].phase = "queued"
                              /\ jobs'[k].kind = kind /\ jobs'[k].thread = t
    BY <1>a, <1>9, Appended DEF JobIds
  <2> QED BY <1>9, <2>1 DEF ReadyInv
<1>10. ASSUME NEW o \in Operators, EnqueueResume(o) PROVE ReadyInv'
  BY <1>9, <1>10, RequestTypes, RequestSteps DEF EnqueueResume, SavedInv, JobKinds
<1>11. ASSUME NEW t \in Threads, SubmitLead(t) PROVE ReadyInv'
  BY <1>9, <1>11 DEF SubmitLead, JobKinds
<1>12. CASE UNCHANGED <<checkpoint, jobs>>
  BY <1>12 DEF ReadyInv, JobIds
<1>13. CASE \/ \E o \in Operators : LoseRequest(o)
            \/ \E o \in Operators, t \in Threads, approved \in BOOLEAN :
                  CheckReview(o, t, approved)
            \/ UNCHANGED vars
  BY <1>12, <1>13 DEF LoseRequest, CheckReview, vars
<1> QED BY <1>1, <1>2, <1>3, <1>4, <1>5, <1>6, <1>7, <1>8, <1>10, <1>11, <1>13
        DEF Next, WorkerStep, JobStep, ApiStep, FaultStep, ClientStep

\* The second half of why every lead is answered: under any fault, with any
\* number of slots, leads and operators, a worker with an unfinished job has
\* a step to take.  A slot is never lost, the first job of the queue waits
\* for nothing but a slot, and a resumed run always finds the node its
\* checkpoint leads to (tasks.py:200-218, routes.py:281-296).
THEOREM WorkerGoesOn == Spec => []WorkerNeverStuck
<1>1. Init => ReadyInv
  <2> SUFFICES ASSUME Init PROVE ReadyInv
    OBVIOUS
  <2>1. JobIds = {} /\ \A t \in Threads : checkpoint[t].last = "none"
    BY DEF Init, JobIds, NoCheckpoint
  <2> QED BY <2>1 DEF ReadyInv
<1>2. TypeOK /\ SavedInv /\ [Next]_vars => (TypeOK /\ SavedInv)'
  BY ServiceTypeInductive
<1> QED BY <1>1, <1>2, ServiceTypeInit, ReadyInductive, ReadyMeansNeverStuck, PTL DEF Spec

=============================================================================
