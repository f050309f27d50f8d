--------------------------- MODULE IngestionService ---------------------------
(***************************************************************************)
(* One ingestion of a catalogue: the graph of IngestionNodes run inside   *)
(* the SSE response of POST /ingest/stream, suspended for review, and     *)
(* resumed by POST /ingest/{thread_id}/approve (api/routes.py 336-512).   *)
(* Every stream has a thread of its own, so one is enough.  The client    *)
(* learns the thread from the response's first header and may approve     *)
(* whenever it likes, from several windows; an invocation loads the       *)
(* thread's checkpoint, works on its own copy and writes it back after    *)
(* each superstep.                                                         *)
(***************************************************************************)
EXTENDS IngestionNodes

CONSTANTS
    Reviewers,        \* approve requests, each from a client or a retry of one
    Impatient,        \* those sent without waiting for the event that asks
    RowCounts,        \* numbers of rows the uploaded file may have
    RecursionLimit,   \* LangGraph's supersteps per invocation
    MaxCrashes,       \* bound: restarts of the API process
    Faults            \* which failures of the surroundings happen

ASSUME IngestionServiceAssumption ==
    /\ "stream" \notin Reviewers
    /\ Impatient \subseteq Reviewers
    /\ RowCounts \subseteq Nat
    /\ RecursionLimit \in Nat \ {0}
    /\ MaxCrashes \in Nat
    /\ Faults \subseteq {"checkpointer", "disconnect"}

VARIABLES
    rows,         \* the uploaded file, by its number of rows
    checkpoint,   \* Postgres: the thread's last checkpoint
    runs,         \* API: the invocations of the graph, by who called it
    event,        \* the last event of the stream
    answers,      \* history: answers of POST /approve
    writes,       \* history: what finalizers wrote
    approvals,    \* history: item lists that were approved
    shown,        \* history: item lists whose review the client was sent
    hasty,        \* history: a decision was sent that no event asked for
    rejects,      \* history: a rejection was sent
    crashes       \* restarts so far

histories == <<answers, writes, approvals, shown, hasty, rejects>>
vars == <<rows, checkpoint, runs, event, histories, crashes>>

-----------------------------------------------------------------------------
(* State *)

Callers == {"stream"} \cup Reviewers
Decisions == {"approve", "reject"}

Checkpoints ==
    [saved : BOOLEAN,
     state : IngestionState,
     next  : Nodes \cup {"__end__"}]

\* running: about to run "next"; saving: approval or finalizer has run, its
\* checkpoint is not written; ended: the graph is at END or suspended; raised, exhausted:
\* an exception, GraphRecursionError; over: the caller was answered, or is
\* gone.
Phases == {"idle", "running", "saving", "ended", "raised", "exhausted", "over"}

\* resume is the value interrupt() would return, body the request's decision.
Runs ==
    [phase  : Phases,
     state  : IngestionState,
     next   : Nodes \cup {"__end__"},
     steps  : 0..RecursionLimit,
     resume : Decisions \cup {"none"},
     body   : Decisions \cup {"none"}]

Fresh(phase) ==
    [phase |-> phase, state |-> InitialState, next |-> "chunker",
     steps |-> 0, resume |-> "none", body |-> "none"]

Events ==
    [kind  : {"none", "interrupt", "done", "error", "gone"},
     error : BOOLEAN]

ItemLists == Seq(SUBSET ServiceItem)

TypeOK ==
    /\ rows \in RowCounts
    /\ checkpoint \in Checkpoints
    /\ runs \in [Callers -> Runs]
    /\ event \in Events
    /\ answers \subseteq [status : {"completed", "rejected"}, error : BOOLEAN]
    /\ writes \subseteq [batch    : SUBSET ServiceItem,
                         items    : ItemLists,
                         reviewed : BOOLEAN]
    /\ approvals \subseteq ItemLists
    /\ shown \subseteq ItemLists
    /\ hasty \in BOOLEAN
    /\ rejects \in BOOLEAN
    /\ crashes \in 0..MaxCrashes

Init ==
    /\ rows \in RowCounts
    /\ checkpoint = [saved |-> FALSE, state |-> InitialState, next |-> "chunker"]
    /\ runs = [c \in Callers |-> Fresh("idle")]
    /\ event = [kind |-> "none", error |-> FALSE]
    /\ answers = {}
    /\ writes = {}
    /\ approvals = {}
    /\ shown = {}
    /\ hasty = FALSE
    /\ rejects = FALSE
    /\ crashes = 0

Active(c) ==
    runs[c].phase \in {"running", "saving", "ended", "raised", "exhausted"}

SetPhase(c, phase) == runs' = [runs EXCEPT ![c].phase = phase]

-----------------------------------------------------------------------------
(* The graph, whoever invoked it *)

\* Mutant of At: one superstep too many.
AtOneMore(c, node) ==
    /\ runs[c].phase = "running"
    /\ runs[c].next = node
    /\ runs[c].steps <= RecursionLimit

\* Run c is about to run a node of its budget.
At(c, node) ==
    /\ runs[c].phase = "running"
    /\ runs[c].next = node
    /\ runs[c].steps < RecursionLimit

\* The node returned s.  A resume value is there for the first superstep
\* only, whatever node that runs.
Returned(c, s, phase) ==
    [phase  |-> phase,
     state  |-> s,
     next   |-> Edge(runs[c].next, s),
     steps  |-> runs[c].steps + 1,
     resume |-> "none",
     body   |-> runs[c].body]

CheckpointOf(run) ==
    [saved |-> TRUE, state |-> run.state, next |-> run.next]

\* A superstep of a node that touches nothing outside its run: the node and
\* its checkpoint are one step.
Superstep(c, node, s) ==
    /\ At(c, node)
    /\ runs' = [runs EXCEPT ![c] = Returned(c, s, "running")]
    /\ checkpoint' = CheckpointOf(Returned(c, s, "running"))
    /\ UNCHANGED <<rows, event, histories, crashes>>

RunNode(c) ==
    \/ \E s \in ChunkerNode(runs[c].state, rows) : Superstep(c, "chunker", s)
    \/ \E s \in NormalizerNode(runs[c].state) : Superstep(c, "normalizer", s)
    \/ Superstep(c, "validator", ValidatorNode(runs[c].state))

\* A node whose effect outside the run comes before its checkpoint.
Return(c, s) == runs' = [runs EXCEPT ![c] = Returned(c, s, "saving")]

RunApproval(c) ==
    /\ At(c, "approval")
    /\ runs[c].resume # "none"
    /\ Return(c, ApprovalNode(runs[c].state, runs[c].resume))
    /\ approvals' = IF runs[c].resume = "approve"
                    THEN approvals \cup {runs[c].state.normalized_items}
                    ELSE approvals
    /\ UNCHANGED <<rows, checkpoint, event, answers, writes, shown, hasty,
                   rejects, crashes>>

\* interrupt() suspends the graph: no update, the checkpoint stays.
Suspend(c) ==
    /\ At(c, "approval")
    /\ runs[c].resume = "none"
    /\ SetPhase(c, "ended")
    /\ UNCHANGED <<rows, checkpoint, event, histories, crashes>>

\* The upsert is one transaction.  An empty batch touches no row.
RunFinalizer(c) ==
    LET s == runs[c].state
    IN  /\ At(c, "finalizer")
        /\ \/ /\ Return(c, FinalizerWrote(s))
              /\ writes' = writes \cup {[batch    |-> UniqueItems(s),
                                         items    |-> s.normalized_items,
                                         reviewed |-> NeedsReview(s)]}
           \/ /\ Return(c, FinalizerFailed(s))
              /\ UNCHANGED writes
        /\ UNCHANGED <<rows, checkpoint, event, answers, approvals, shown,
                       hasty, rejects, crashes>>

SaveCheckpoint(c) ==
    /\ runs[c].phase = "saving"
    /\ checkpoint' = CheckpointOf(runs[c])
    /\ SetPhase(c, "running")
    /\ UNCHANGED <<rows, event, histories, crashes>>

Finish(c) ==
    /\ runs[c].phase = "running"
    /\ runs[c].next = "__end__"
    /\ SetPhase(c, "ended")
    /\ UNCHANGED <<rows, checkpoint, event, histories, crashes>>

ExceedRecursion(c) ==
    /\ runs[c].phase = "running"
    /\ runs[c].next # "__end__"
    /\ runs[c].steps = RecursionLimit
    /\ SetPhase(c, "exhausted")
    /\ UNCHANGED <<rows, checkpoint, event, histories, crashes>>

\* The normalizer raises, or a checkpoint cannot be written.
Raise(c) ==
    /\ \/ At(c, "normalizer") /\ NormalizerMayRaise(runs[c].state)
       \/ /\ "checkpointer" \in Faults
          /\ \/ runs[c].phase = "saving"
             \/ \E node \in {"chunker", "normalizer", "validator"} : At(c, node)
    /\ SetPhase(c, "raised")
    /\ UNCHANGED <<rows, checkpoint, event, histories, crashes>>

-----------------------------------------------------------------------------
(* POST /ingest/stream *)

\* A new thread_id; the input is checkpointed before the first node.
StartStream ==
    /\ runs["stream"].phase = "idle"
    /\ SetPhase("stream", "running")
    /\ checkpoint' = CheckpointOf(Fresh("running"))
    /\ UNCHANGED <<rows, event, histories, crashes>>

SendLast(kind, error) ==
    /\ event' = [kind |-> kind, error |-> error]
    /\ SetPhase("stream", "over")

\* Mutant of EndStream: the interrupt event carries no payload.
EndStreamBare ==
    /\ runs["stream"].phase = "ended"
    /\ IF checkpoint.next = "approval"
       THEN /\ SendLast("interrupt", FALSE)
            /\ shown' = shown \cup {<<>>}
       ELSE /\ SendLast("done", runs["stream"].state.error)
            /\ UNCHANGED shown
    /\ UNCHANGED <<rows, checkpoint, answers, writes, approvals, hasty,
                   rejects, crashes>>

\* The generator asks the stored checkpoint whether an interrupt is pending.
\* shown is the list the payload is about, not only the items it carries.
EndStream ==
    /\ runs["stream"].phase = "ended"
    /\ IF checkpoint.next = "approval"
       THEN /\ SendLast("interrupt", FALSE)
            /\ shown' = shown \cup {checkpoint.state.normalized_items}
       ELSE /\ SendLast("done", runs["stream"].state.error)
            /\ UNCHANGED shown
    /\ UNCHANGED <<rows, checkpoint, answers, writes, approvals, hasty,
                   rejects, crashes>>

\* aget_state fails: the handler takes that for "nothing pending".
EndStreamUnasked ==
    /\ "checkpointer" \in Faults
    /\ runs["stream"].phase = "ended"
    /\ SendLast("done", runs["stream"].state.error)
    /\ UNCHANGED <<rows, checkpoint, histories, crashes>>

\* Mutant of FailStream: the generator ends without an event.
FailStreamSilently ==
    /\ runs["stream"].phase \in {"raised", "exhausted"}
    /\ SetPhase("stream", "over")
    /\ UNCHANGED <<rows, checkpoint, event, histories, crashes>>

FailStream ==
    /\ runs["stream"].phase \in {"raised", "exhausted"}
    /\ SendLast("error", TRUE)
    /\ UNCHANGED <<rows, checkpoint, histories, crashes>>

\* The client goes away and the response task is cancelled, at any await.
Disconnect ==
    /\ "disconnect" \in Faults
    /\ Active("stream")
    /\ SendLast("gone", FALSE)
    /\ UNCHANGED <<rows, checkpoint, histories, crashes>>

-----------------------------------------------------------------------------
(* POST /ingest/{thread_id}/approve.  Without a checkpoint it answers 404;  *)
(* whether the thread is suspended is not asked.                            *)

RequestApproval(c, decision) ==
    /\ runs[c].phase = "idle"
    /\ event.kind = "interrupt" \/ c \in Impatient
    /\ checkpoint.saved
    /\ runs' = [runs EXCEPT ![c] = [phase  |-> "running",
                                    state  |-> checkpoint.state,
                                    next   |-> checkpoint.next,
                                    steps  |-> 0,
                                    resume |-> decision,
                                    body   |-> decision]]
    /\ hasty' = (hasty \/ event.kind # "interrupt")
    /\ rejects' = (rejects \/ decision = "reject")
    /\ UNCHANGED <<rows, checkpoint, event, answers, writes, approvals, shown,
                   crashes>>

\* The answer's status is the request's, its error the graph's.
AnswerApproval(c) ==
    /\ runs[c].phase = "ended"
    /\ answers' = answers \cup
         {[status |-> IF runs[c].body = "approve" THEN "completed"
                                                  ELSE "rejected",
           error  |-> runs[c].state.error]}
    /\ runs' = [runs EXCEPT ![c] = Fresh("over")]
    /\ UNCHANGED <<rows, checkpoint, event, writes, approvals, shown, hasty,
                   rejects, crashes>>

\* The graph raised: 500.
FailApproval(c) ==
    /\ runs[c].phase \in {"raised", "exhausted"}
    /\ runs' = [runs EXCEPT ![c] = Fresh("over")]
    /\ UNCHANGED <<rows, checkpoint, event, histories, crashes>>

\* The API process stops: every invocation in it is gone.
CrashApi ==
    /\ crashes < MaxCrashes
    /\ \E c \in Callers : Active(c)
    /\ crashes' = crashes + 1
    /\ runs' = [c \in Callers |->
                  IF ~Active(c) THEN runs[c]
                  ELSE IF c = "stream" THEN [runs[c] EXCEPT !.phase = "over"]
                  ELSE Fresh("over")]
    /\ event' = IF Active("stream") THEN [kind |-> "gone", error |-> FALSE]
                ELSE event
    /\ UNCHANGED <<rows, checkpoint, histories>>

-----------------------------------------------------------------------------

GraphStep(c) ==
    \/ RunNode(c) \/ RunApproval(c) \/ Suspend(c) \/ RunFinalizer(c)
    \/ SaveCheckpoint(c) \/ Finish(c) \/ ExceedRecursion(c) \/ Raise(c)

ApiStep ==
    \/ \E c \in Callers : GraphStep(c)
    \/ EndStream \/ EndStreamUnasked \/ FailStream
    \/ \E r \in Reviewers : AnswerApproval(r) \/ FailApproval(r)

ClientStep ==
    \/ StartStream \/ Disconnect
    \/ \E r \in Reviewers, d \in Decisions : RequestApproval(r, d)

Next == ApiStep \/ ClientStep \/ CrashApi

\* A live API process runs the requests it accepted; the LLM, Postgres and
\* storage answer or raise.  Clients owe nothing.
Spec == Init /\ [][Next]_vars /\ WF_vars(ApiStep)

-----------------------------------------------------------------------------
(* Properties *)

\* The states somebody will go on from.
LiveStates ==
    {runs[c].state : c \in Callers} \cup {checkpoint.state}

\* In every copy of the state the lists added to normalized_items belong to
\* chunks already passed, each chunk to one list at most: over loops, failed
\* chunks, repeated supersteps and resumed runs no row is normalized into the
\* batch twice (operator.add at ingestion/models.py:305, graph.py:520-523).
EachChunkOnce ==
    \A s \in LiveStates :
        LET lists == s.normalized_items
        IN  \A i, j \in DOMAIN lists : \A item \in lists[i] :
              /\ item.chunk <= s.current_chunk_index
              /\ \A other \in lists[j] : other.chunk = item.chunk => i = j

\* A batch with a flagged or suspect item, or of low confidence, is written
\* only if a reviewer's approval reached a run that held exactly these items
\* (graph.py:787-814): not after a lost decision, not by a resumed run that
\* normalized anew, not beside a rejection alone.
WritesAreApproved ==
    \A w \in writes : w.reviewed => w.items \in approvals

\* If every decision came after the event that asked for it, what is written
\* after a review is the very list whose flagged items, counts and confidence
\* the client was shown (graph.py:572-590), also when several reviewers decide
\* at once, requests are repeated and the process restarts in between
\* (routes.py:395-418, 492-496).
WrittenAsShown ==
    ~hasty => \A w \in writes : w.reviewed => w.items \in shown

\* A client told of success without an error finds the batch written: the
\* stream that ran to its end its own list, and an approval nobody else's
\* rejection or haste interfered with a list that was up for review
\* (graph.py:748-763, routes.py:505-512).
SuccessMeansWritten ==
    /\ /\ event.kind = "done" /\ ~event.error
       /\ runs["stream"].next = "__end__"
       => \E w \in writes : w.items = runs["stream"].state.normalized_items
    /\ /\ [status |-> "completed", error |-> FALSE] \in answers
       /\ ~hasty /\ ~rejects
       => \E w \in writes : w.items \in shown

\* LangGraph's limit, which nobody configures, ends a run only if the file
\* has too many chunks for it: chunker, one step per chunk, validator and
\* finalizer or interrupt (graph.py:864-889).
LargestRun == (IF ChunkCount(rows) = 0 THEN 1 ELSE ChunkCount(rows)) + 3

ExhaustedOnlyByLargeFiles ==
    \A c \in Callers :
        runs[c].phase = "exhausted" => LargestRun > RecursionLimit

\* Every stream sends a last event or loses its client, and every decision is
\* answered.
EveryoneIsAnswered ==
    /\ runs["stream"].phase # "idle" ~> event.kind # "none"
    /\ \A r \in Reviewers : runs[r].phase # "idle" ~> runs[r].phase = "over"

-----------------------------------------------------------------------------
(* What the documents say and the code does not do *)

\* ingestion/models.py:346-347: "Set by any node that catches an
\* unrecoverable exception"; graph.py:378: "so the row isn't silently
\* dropped".  A stream that reports no error has every chunk of the file in
\* the list it reports.
NoChunkIsLost ==
    event.kind = "done" /\ ~event.error =>
        Len(runs["stream"].state.normalized_items)
            = runs["stream"].state.raw_chunks

=============================================================================
