# Specifications of AI Lead Qualifier

TLA+ models of the lead qualification service in `src/`: the LangGraph graph that
turns an e-mail into a quote, and the API, queue, worker and checkpoints that
run it; of the catalogue it quotes from, by ingestion of a price list and by
single edits; and of the browser's view that polls for the result. TLC checks them
on small instances; TLAPS proves their safety properties, and that graph and
service implement the promised lifecycle, for all values of the constants.

Paths below are relative to `src/backend` unless they begin with `src/`.

## 1. The system

A client posts an e-mail (`POST /lead`), gets 202 and a `thread_id`, and polls
`GET /status/{thread_id}`. The API only enqueues an ARQ job in Redis. A worker
process runs the graph for it and writes a LangGraph checkpoint to Postgres
after each superstep; the status endpoint reads that checkpoint. A lead whose
score stays low is suspended at `hitl_interrupt` until an operator calls
`POST /lead/{thread_id}/approve`, which writes the decision into the checkpoint
and, if it is an approval, enqueues a second job that resumes the graph.
Separately, a PDF price list is ingested by a second graph that runs inside an
SSE response, is reviewed by the tenant, and fills the catalogue the mapper
searches. Single catalogue items are edited by `PATCH`, which writes an audit
row and enqueues an embedding task. The browser posts a lead, polls its status
every 2.5 s and shows what the last answer said.

### Inventory

| Component (source) | State it keeps | Operations | Interacts with | Hard behaviour | What makes it correct |
|---|---|---|---|---|---|
| Nodes and edges (`agents/`, `core/graph.py`, `core/state.py`) | `AgentState` | sanitizer, extractor, mapper, evaluator, calculator, delivery, hitl_interrupt; two routers | LLM, embeddings, pgvector, adapter | two loops with a counter each, a condition evaluated twice (evaluator and router), errors that do not stop the graph | status and routing agree; counters count; quote only on evidence or approval; every run ends |
| Lead API (`api/routes.py` 1-330) | none of its own | submit, status, approve | Redis, checkpointer | check, write and enqueue are three awaits | a decision is taken once and is final; no lead is left without a job |
| Qualification jobs (`worker/tasks.py`, `worker/worker_settings.py`) | slots, job results | run, resume, crash handler, timeout | Redis, checkpointer, graph | jobs of one thread overlap, restart, cancellation, failure of the failure handler | one writer per thread; every lead is answered; one quote per lead |
| Checkpointer (LangGraph, `core/graph.py` 142-260) | last checkpoint of a thread | write after superstep, `aupdate_state`, read | worker, API | no lock on a thread; lazy singleton | no stale overwrite of a decision |
| Ingestion graph (`ingestion/`) | `IngestionState` with accumulating lists | chunker, normalizer (one chunk), validator, approval, finalizer; three routers | LLM, storage, catalogue | partial failure inside the loop, reducers, dedup by id, a superstep per chunk against a limit | each chunk in the batch once; nothing doubtful is written unreviewed |
| Ingestion API (`api/routes.py` 336-512) | SSE stream, checkpoint | stream, approve, reject | ingestion graph | stream cancelled by the client; approve without check; overlapping invocations of a thread | what is written is what was reviewed; a reported success is one |
| Catalogue items (`api/catalogue_routes.py`, `worker/tasks.py` 266-364) | items, audit rows, vectors | list, patch, re-embed | Postgres, Redis | read outside the transaction, commit before enqueue, unordered tasks | the log tells how the row came about; the vector is eventually that of the row |
| Hybrid pricing (`ingestion/models.py`, migration 004) | price, price_type | coercion, CHECK | catalogue items, ingestion | two layers enforce one rule | a legal request is never refused by the database |
| Vector store, tenant profiles, pool (`database/`) | tables, pool | search, upsert, wipe | mapper, ingestion | lazy pool with an await between check and assignment | one pool |
| Adapters, embeddings, storage (`adapters/`, `services/`) | none | deliver, embed, put | graph nodes | remote failures | failures are reported, not raised, where the node expects it |
| Auth, rate limit, logging, config (`api/dependencies.py`, `core/`) | settings | checks | API | none | - |
| Frontend (`src/frontend/src`) | stores, pollers | submit, poll, stop, logout, ingest | API | a late answer after `stop()`, a tick during a request, a 401 inside a callback | the view shows the lead it was opened for; the button comes back |
| Migrations and scripts | - | one-off | - | none | - |

`PROJECT.json` lists the same components with their status, and every hazard at
its line.

## 2. The modules

    AgentNodes            nodes and edges as operators, no variables
      AgentNodes_proofs   what each node changes and where it leads
      QualificationGraph  one lead, one job after the other
        MCQualificationGraph, QualificationGraph_proofs
      LeadService         API, queue, worker, checkpoints; jobs overlap
        MCLeadService, LeadService_proofs, LeadServiceFaults_proofs
      CatalogueSearch     search, mapper and score row by row, no variables
    HybridPricing         ServiceItem's prices, CHECK, sum, no variables
      CatalogueSearch_proofs   theorems about these two
    CatalogueItems        PATCH, audit log, embedding task, upsert, wipe
      MCCatalogueItems, CatalogueItems_proofs
    IngestionNodes        nodes and edges of the ingestion, no variables
      IngestionService    the stream, approvals, checkpoints; runs overlap
        MCIngestionService, IngestionService_proofs
    QualifyView           the browser: qualify store and pollers
      MCQualifyView, QualifyView_proofs
    LeadLifecycle         abstract: status and quotes of one lead; implemented
                          by QualificationGraph and LeadService, and the
                          service that QualifyView talks to

**AgentNodes.** `AgentState` is the TypedDict of `core/state.py`. A node is an
operator from a state to the set of states it may return; the choice is what
the LLM, the embedding service, pgvector and the adapter answer. `Edge` is
`build_graph`: its static edges and the two routers. `Approved`, `Rejected` and
`MarkedError` are the three dictionaries given to `aupdate_state`. Both state
machines use these operators, so they run the same graph.

**QualificationGraph.** `state`, `next`, `steps` are what LangGraph keeps of a
thread (values, next node, supersteps of this invocation); `run` is where the
job is; `failure` is why an invocation raised. `answers`, `attempts` and
`quotes` are history variables that count LLM answers, adapter calls and
accepted quotes: they are what the state's own counters are compared with. There
is one action per node, plus `Start`/`Resume` (the two task bodies), `Interrupt`,
`Finish`, `ExceedRecursion`, `Raise`, the crash handler's two outcomes, and the
operator's `Approve`/`Reject`.

**LeadService.** `checkpoint` is Postgres, `jobs` is Redis and the worker in one
sequence (a job is never removed, only `over`), `requests` the approve calls in
flight. A job works on its own copy of the state, as an invocation of LangGraph
does. A node's run is two steps, `RunNode` (or `RunDelivery`) and
`SaveCheckpoint`: what happens between them is where restarts duplicate quotes.
`approve_lead` is three steps, `CheckReview`, `WriteRejection`/`WriteApproval`,
`EnqueueResume`: it awaits between them. `StartQualification` is
`run_qualification_task` up to the first node, `MarkError` and
`FailToMarkError` are `_update_state_on_crash`. `TimeOut`, `CrashWorker`,
`LoseRequest` and the checkpointer's failing writes are switched on by `Faults`.

**CatalogueSearch.** The search for one service: `NearestRows` is the `ORDER BY ...
LIMIT k` of `similarity_search`, `SimilaritySearch` its filter, `Relevant` and `Best` the
mapper's own. `MatchLists` are the lists the mapper may return, where each service has a
catalogue of its own: the mapper awaits between two searches, and an ingestion may
write meanwhile. `Confidence` is the evaluator's score of such a list; AgentNodes keeps of it
the length and the average distance. `ClosestRows` and `NodeScore` are what the two are
compared with. MCQualificationGraph evaluates the comparison as assumptions.

**HybridPricing.** From the LLM's price and type to the row: `InferredType`, `Refused` and
`CoercedPrice` are the three validators of `ServiceItem`, in pydantic's order around the
field's default, `WrittenRow` with the placeholder that replaces a refused entry; `Legal` is the
CHECK constraint of migration 004, `SumRaises` the calculator's `float(None)`.
MCIngestionService evaluates that they agree.

**LeadLifecycle.** What a client is promised: the order of statuses, at most one
quote, no quote for a lead that failed, nothing after `completed` or `error`.

**CatalogueItems.** `rows`, `vectors` and `audit` are Postgres: the items of one
tenant by id, the text each vector was computed from, the audit log of each item
and column. `requests` are the PATCH calls in flight, `queue` and `slots` the
embedding tasks. `patch_catalogue_item` is three steps, since it awaits between
them: `ReadItem` (the row the audit compares with), `UpdateItem` or
`RefuseUpdate` (the transaction, refused by the CHECK or the UNIQUE constraint
or because the row was wiped), `EnqueueEmbedding`. `update_embedding_task` is
two: `FetchRow`, then `StoreVector` or `FailEmbedding`. `InsertItem` and
`OverwriteItem` are the two branches of `upsert_items`, `WipeTenant` is
`wipe_tenant`. `inserted`, `overwritten`, `overtaken` and `missed` are history:
what the audit log must be replayed from, which rows no log can explain, which columns
a PATCH changed that were no longer what it had read, and which items lost their last
embedding task.

**IngestionNodes.** `IngestionState` is the TypedDict of `ingestion/models.py`
without logs, messages and feedback. A row is nothing any branch reads, so a
chunk is its number and an item is known by its chunk and its place in the LLM's
answer; what branches do read of it (confidence, flag, a business rule that
objects, a given id) comes from the `Replies` of the LLM. `normalized_items`
keeps the reducer `operator.add`: it is the sequence of what was added, one set of
items per answer, so that a second addition of the same items would show.

**IngestionService.** `checkpoint` is the thread's row in Postgres, `runs` the
invocations of the graph by caller: the stream's and one per approve request, each
with its own copy of the state, its supersteps and the value `interrupt()` would
return. `RunNode` is a node together with its checkpoint where the node touches
nothing else; `RunApproval` and `RunFinalizer` are separate from `SaveCheckpoint`,
because a restart between them is the interesting one. `StartStream`,
`EndStream`, `EndStreamUnasked` and `FailStream` are `_ingest_sse_generator`,
`RequestApproval`, `AnswerApproval` and `FailApproval` are `approve_ingestion`.
`Impatient` reviewers send their decision without waiting for the event that
asks for it, which the endpoint does not refuse. `writes`, `approvals`, `shown`
are history: what was written, what was approved, and the lists whose review was sent to
the client. The payload (`ingestion/graph.py:572-590`) carries the flagged items, the
counts and the confidence, not every item.

**QualifyView.** `view` is the store of `stores/qualify.js`, `pollers` the objects
of `api.js` by lead, `posts` and `gets` the requests in flight. One JavaScript
callback, from one `await` to the next, is one action: `Submit` ends at the POST,
`PostAnswered` makes the poller and its first tick, `Tick` is the interval,
`GetAnswered` runs `onUpdate` and `onDone`, `GetFailed` runs `onError` with or
without the 401 that logs out first. A GET is read by the service (`ServeGet`)
before it is answered, so the status may be old when it is shown. The service is
`LeadLifecycle`, instantiated once per lead: what LeadService was shown to
implement is what the browser relies on. `seen` and `done` are history.

### External behaviour the models assume

The libraries are not in the repository; these are the rules used for them.

- LangGraph checkpoints after every superstep and once for the input. It runs
  on a copy in memory and does not read the checkpoint again during a run.
- `interrupt()` writes no update: the thread stays before the node.
- `aupdate_state` merges into the stored checkpoint and evaluates the outgoing
  edge of the last node that completed; it refuses a thread without one.
- `Command(resume=None)` (`tasks.py:231`) either resumes at the checkpoint's next
  node or is refused with an exception. Both are modelled, since versions differ.
- 25 supersteps per invocation, then `GraphRecursionError`; a node is one superstep and an
  interrupt needs one that is left. `RecursionOnlyWithoutText` and `ExhaustedOnlyByLargeFiles` rest on
  this count, which no code in `src/` fixes.
- ARQ starts jobs in enqueue order up to `max_jobs`; cancels a job at its
  timeout with `CancelledError`, which `except Exception` does not catch; runs a
  job again when its worker died or was redeployed; does not retry an ordinary
  exception (the code never raises `Retry`). For `update_embedding_task` the
  comments say otherwise (`tasks.py:307`, `333-338`; `245-246` agrees): a failed
  embedding is not repeated here.
- Postgres runs each statement, and the transaction of a PATCH, as one step on
  the row as it is then (READ COMMITTED, row lock by the UPDATE). `executemany`
  of an ingestion's upsert is one transaction.
- An invocation loads the thread's checkpoint once. `Command(resume=v)` gives v to
  the first superstep of the invocation only; on a thread that has ended it is a
  no-op that returns the state. A superstep whose checkpoint was not written is
  run again by the next invocation (pending writes are ignored).
- An `interrupt` is pending, for the stream's last question, exactly when the
  stored checkpoint stands before `approval`.
- Starlette cancels a streaming response whose client is gone, at an `await`.
- `fetch` answers or fails; the code sets no timeout. A callback is not
  interrupted by another.

### Abstractions

- Lists of services are lengths. `retrieved_docs` and `mapped_services` grow
  together (`mapper.py:194-208`), so there is one count and one average
  distance. Scores are integers in units of `1/Scale`.
- A text is empty or not. `error_detail` is set or not. Quote amounts, names,
  e-mail bodies, the messages of the adapters are left out, as are
  `review_feedback` and `delivery_error`: no branch reads them.
- AgentNodes leaves out the `except` branch of the calculator: HybridPricing shows that
  what the CHECK admits adds up, and the CHECK holds of every row.
- In HybridPricing a price is of one of six kinds; a NaN, which `json.loads` accepts and no
  comparison refuses, is like a positive price.
- `max_retry_count` is a natural number; a negative one behaves as 0.
- LeadService replaces the loop of a lead without text (extractor, mapper,
  evaluator, until LangGraph raises) by its exception. QualificationGraph counts
  the loop out and proves that nothing else reaches the limit
  (`RecursionOnlyWithoutText`). With `MaxRetryCount = 0` such a lead goes to
  review instead, hence LeadService's assumption `MaxRetryCount > 0`.

- A vector is the text it was computed from. Text is the name, price and
  description; `metadata` is never patched and is left out.
- SQL's NULL and the `"None"` that `str()` writes into `new_value` are one value.
- `upsert_items` writes many rows in one call; here it is one row per step,
  which allows more interleavings. An id is given once.
- In CatalogueItems the ingestion is any row that the CHECK allows, at any time.
- In IngestionService an empty batch counts as a write of nothing, and the store of
  the batch is a set of items, without the rows it replaces (that is CatalogueItems).
  The validators of `ServiceItem` decide whether an entry is valid; what they make of its
  price is HybridPricing.
- In QualifyView `pollingActive`, which nothing renders, the recipient's fields and
  the texts are left out; `result` is the lead whose answer filled it.

## 3. Runs

| Run | Question | States |
|---|---|---|
| `qualification` | one lead, deployed settings: all properties of the graph, the lifecycle, termination | 1,295 |
| `service` | two leads, one operator, three slots, no fault: interleavings of API and worker | 172,000 |
| `service_faults` | one lead submitted twice; timeout, restart, API crash, failing checkpoints | 2,800,000 |
| `service_worker_crash` | a worker restart anywhere, two overlapping jobs of a lead | 35,000 |
| `catalogue` | one item, two clients whose PATCHes overlap, one job slot; lost requests, failing embeddings, ingestions that insert and overwrite, a wipe, a worker restart | 582,000 |
| `ingestion` | files of 0, 2 and 3 chunks, five kinds of answers, two reviewers who decide when asked; restart, disconnect, failing checkpoints | 54,800 |
| `ingestion_haste` | a reviewer who does not wait: up to three runs of one thread overlap | 863,000 |
| `qualify_view` | two leads, one logout, reviews approved in between | 446,000 |
| `delivery_abandoned`, `rejected_lead_runs`, `audit_overlap`, `ingestion_chunk_lost` | the disagreements of section 6, each found by TLC | |

What the passing runs show:

- `ReviewAgreesWithRouting`: `evaluator.py` predicts the router. If they
  disagreed, a suspended lead would read a status that `/approve` refuses.
- `QuotedIffCompleted`, `QuoteIsJustified`, `DeliveriesAreBounded`: the tenant's
  system accepts one quote and only for a `completed` lead; the score that
  justified it is the score of the services quoted, across retries.
- `RetriesAreAccounted`, `ReviewIsLastResort`: the counters are the number of
  LLM answers; an operator is asked only after the last of them.
- `RecursionOnlyWithoutText`: the two loops fit into a limit that nobody
  configures; an empty text is the one exception, since it consumes no retry.
- `NothingStranded`, `LeadsAreAnswered`: between the approval's write and its
  enqueue, and while the first job is still leaving the interrupt, no lead is
  lost, and every one comes to a status on which the client stops.
- `OneWriterPerThread`, `DecisionSurvives`: nothing locks a thread, yet without
  faults and double submissions it has one writer, and no run overwrites a
  decision with an older copy.
- `RejectionIsFinal`: one operator at a time cannot revive a rejected lead; that
  two can is a finding (section 6).
- `CompletedIsQuoted`, `QuotesAreAccounted`: what survives all faults: no quote is
  missing where a client reads `completed`, and overlapping runs, timeouts and
  failing checkpoints add none to the one per job and the one per slot and restart.
- `WorkerNeverStuck`: whatever is cancelled, restarted or not written, slots come
  free in the end and a resumed run finds a node to go on from. TLC also checked
  that `Ready(j)` says when the steps of job j are enabled.
- `VectorFollowsRow`, `VectorCatchesUp`: a PATCH may commit before, between and
  after the steps of a running task, and the task before its own; with one job
  slot the last vector written is still that of the row. A task that was lost or failed
  leaves the old vector until the next task of the item, which makes up for it
  (`missed`).
- `AuditExplainsRows`: the log decides what changed by comparing strings of two
  sources, around a None that is dropped and put back, and its old value was read before
  the transaction. With PATCHes that overlap it still misses no value the row ever had
  from a PATCH; a column no PATCH wrote on a stale reading is the end of an unbroken
  chain; and it logs only changes, but for `price_type`, where an unchanged value is
  logged too. That a stale reading breaks the chain, even leaves a change out, is a
  finding, as is `price_type` (section 6).
- `EachChunkOnce`: the reducer appends, the loop advances on success and on
  failure, restarts repeat supersteps and a hasty approval runs the same thread
  beside the stream; still no copy of the state holds a chunk's items twice.
- `WritesAreApproved`, `WrittenAsShown`: the write follows the review by several
  supersteps and possibly by a restart, and `/approve` does not ask whether the
  thread waits. A doubtful batch needs an approval of exactly its items in any
  case; that a review of those items was *shown* to the client needs decisions that
  waited.
- `SuccessMeansWritten`: no error in the last event of a stream that ran to its end
  means a write of the stream's own list, whatever other runs wrote; no error in the answer
  to an approval nobody interfered with means a write of a list that was up for review.
- `ExhaustedOnlyByLargeFiles`: a failed chunk consumes its superstep and no more.
- `EveryoneIsAnswered`: no stream or request ends without an answer, whichever step
  fails.
- `DoneOnce`, `NoOlderStatus`: the in-flight flag, the cleared interval and the
  callbacks together keep answers from overtaking each other, late answers to
  stopped pollers included.
- `LoadingIsWatched`, `ViewIsReleased`: however a request ends, and whether or not its
  answer clears the flag that makes the next tick skip, the view does not
  stay disabled. `ResultIsOfThread`: the result is never that of an earlier lead.

The pure modules have no states; the runs of the MC modules that extend them evaluate
these assumptions first:

- `MCSearchFindsClosest` (qualification): for every catalogue of up to three rows and limits of 1 to
  4, the search yields exactly the closest rows within the threshold, or none.
- `MCNodesAgree` (qualification): the score of every list the mapper may return, from
  catalogues that differ from one service to the next, is the score AgentNodes computes from its length and
  average, which are in the ranges AgentNodes chooses from. So what is shown with AgentNodes is
  shown of the mapper's lists.
- `MCIngestedPricesAddUp` (ingestion): all 30 combinations of price and type.

### Bounds

- `MCDistances = {0, 9, 10, 16, 18}` with `Scale = 20`: a perfect match, one that
  just reaches the threshold 0.55 at full coverage, one that just misses it, one
  on the mapper's limit and one beyond it. With up to three services, coverage
  takes every value that crosses the threshold.
- LeadService needs of the graph only which way it goes, so scores are all or
  nothing and there is one service, one retry and two deliveries: one loop of
  each kind, both exits of each router.
- Two threads share the queue and the slots; three slots let both jobs of one
  lead run beside another lead's. Threads do not otherwise interact.
- The fault run has one slot (the property is about that setting), two
  submissions and one restart: the smallest history in which a repeated job
  meets a newer one. A second restart only repeats the first.
- CatalogueItems: two values per column, one PATCH body for each case of the
  coercion and of the trigger columns. Three PATCHes are two that overlap and one
  that a task in flight has missed, or that meets the log the two left. The items of a
  tenant meet only in the UNIQUE constraint, which refuses a PATCH as the CHECK does, and in
  the queue, hence one item; the theorems are for any number. One slot
  is the default of `ARQ_MAX_JOBS`. `MaxPatches`, `MaxUpserts`, `MaxWipes` and `MaxCrashes`
  bound the tenant's requests and the restarts, and nothing else.
- IngestionService: two chunks are the least that loop; the third makes the file
  too large for the run's limit of 5 supersteps (25 in the program), two are the
  largest that fits; none is the empty file and the failed download. Confidences
  in quarters have a value on and on both sides of each threshold. Two reviewers
  are a decision and its repetition, or its contradiction.
- QualifyView: a second lead is what a late answer of the first can disturb; one
  logout separates them. `MaxChanges` lets a reviewed lead go back to `queued`
  while its status is still being read.
- `MaxLogouts`, `MaxSubmissions` and `MaxCrashes` bound `Unauthorized`, `SubmitLead` and
  the restarts; every other counter is bounded by the code.

`CHECK_DEADLOCK FALSE` appears in every run but those of QualificationGraph: when
everything is answered and clients are idle, the system rests. QualificationGraph keeps the
deadlock check and marks the rest of an ended job by `Terminated`; a suspended
lead can always be approved or rejected.

### Fairness

`WF(Worker)` and `WF(WorkerStep)`: ARQ's loop keeps polling, and an `await` on
the LLM, the database or the adapter returns or raises (all have timeouts).
`WF(ApiStep)`: the event loop finishes a request it accepted. Nothing is assumed
of operators, clients or faults: a suspended lead may wait for ever, which the
liveness properties allow, and a tenant need not send another PATCH. One weak fairness for all jobs suffices because the
runs allow finitely many jobs, each of finitely many steps; likewise `WF(ApiStep)`
of IngestionService, whose invocations end by the recursion limit.
QualifyView assumes weak fairness of the interval (`setInterval` keeps firing), of
the service's two request handlers, of the arrival of an answer or failure, and of
`ServerStep` while a lead's status is not one the poller stops at: that is
`LeadsAreAnswered`, checked of LeadService, with the abandoned delivery (section 6)
as its exception. Logins, logouts and submissions are the user's.

### Limits of the runs

What the code does *not* guarantee, found while choosing the properties above
and not claimed by any of them:

- An API process that dies between `aupdate_state` and `enqueue_job` leaves the
  lead `queued` with no job, and `/approve` then answers 409. (`NothingStranded`
  is not checked with `api_crash`.)
- A worker restart at the interrupt runs the job again from a fresh state, over
  an approval or rejection made meanwhile; an operator whose check preceded the
  restart then approves a run in progress and the lead may stay `queued`. (The
  restart run therefore has no operator.)
- Two operators who both pass the check start two resumed runs and the lead is
  quoted twice. One restart repeats the run of every slot, which may all be of one
  lead: `QuotesAreAccounted` therefore allows jobs + `MaxJobs` × restarts. It is
  checked with one slot and proved for any number.
- A quote accepted just before its checkpoint write fails ends in `error`.
- An API process that dies, or a Redis that refuses the job, between a PATCH's
  commit and its enqueue leaves the vector of the old row for good, and so does
  one failed embedding, unless a later task of the item succeeds. The vector properties
  leave out items whose last task was lost or failed.
- With several job slots an older vector may be written last and stay; the vector
  properties are checked and proved for one slot (section 6).
- With `MaxRetryCount = 0` or a threshold of 0 the lifecycle is not implemented:
  a lead with a sanitizer error goes on from `error` to review or delivery. The
  refinement theorem assumes both positive, as the defaults are.
- After a decision that did not wait for the review event, the written list need not
  be one the client was shown (hence `~hasty`), and an approval that meets a running
  or rejected ingestion answers `completed` although nothing is written.
- After a logout the view is no longer guarded: the three view properties with
  `logouts = 0` all fail without it (section 6). `DoneOnce` holds regardless.

## 4. Proofs

`QualificationGraph_proofs` proves, for all settings that satisfy
`SettingsAssumption` and `RecursionAssumption`:

| Theorem | Property |
|---|---|
| `TypeCorrect` | `TypeOK` |
| `ReviewAgrees` | `ReviewAgreesWithRouting` |
| `QuotedExactlyOnce` | `QuotedIffCompleted` |
| `QuotesAreJustified` | `QuoteIsJustified` |
| `RetriesAccounted` | `RetriesAreAccounted` |
| `ReviewLastResort` | `ReviewIsLastResort` |
| `DeliveriesBounded` | `DeliveriesAreBounded` |
| `RecursionNeedsEmptyText` | `RecursionOnlyWithoutText` |
| `ErrorsExplained` | `ErrorIsExplained` |
| `GraphImplementsLifecycle` | `ImplementsLifecycle`, with `MaxRetryCount > 0` and `EvaluatorThreshold > 0` |
| `GraphHalts` | every step of a lead, of its jobs and of its operator, decreases a natural number |

None of the properties is inductive: each speaks of a state without saying where
the graph is. The invariant is

    IInv == TypeOK /\ PhaseInv /\ AccountsInv /\ AtNode(next) /\ StepBound

- `PhaseInv`: which nodes and statuses each phase of the job allows.
- `AccountsInv`: the state's counters are the history's.
- `AtNode(n)`: what is known when the graph is about to run node n (before the
  calculator, the score reaches the threshold by evidence or by approval; before
  the interrupt, the retries are spent; after delivery, quotes and status agree).
- `StepBound`: supersteps used, from the retries and deliveries made; this is
  what leaves only the empty text for the recursion limit.

The argument: one `*Effect` lemma per node says what it changes; `Edges` says
where it leads (both in `AgentNodes_proofs`, shared with LeadService); each action preserves `IInv` by the lemma of its node; each
property follows from `IInv`. For the refinement, every action maps to a step of
`LeadLifecycle` or to a stutter, by `IInv` before the step. `ScoreType` shows
that the rounded score stays in `0..Scale`, `ScoreReads` that it depends only on
the services and distances, so that a later node does not invalidate it. TLC
checked `IInv` on five settings before the proof was written.

`GraphHalts` is the safety half of `JobsEnd`. `LeadWork` is what the current job may still
do (its supersteps, then its end or its crash handler) and, while no operator has
decided, one more job. It falls on every step that changes anything: a node does not
decide in the operator's place (`NodesDecideNothing`), and a suspended lead is an undecided
one (`IInv`). What is left to TLC is that a job that is not over has a step (no
deadlock) and takes it (WF).

`LeadService_proofs` proves, under `SettingsAssumption` and `ServiceAssumption`:

| Theorem | Property | Assumes |
|---|---|---|
| `TypeCorrect` | `TypeOK` | |
| `CompletedMeansQuoted` | `CompletedIsQuoted` | |
| `QuotesAccounted` | `QuotesAreAccounted` | |
| `OneWriter` | `OneWriterPerThread` | `Calm` |
| `NobodyStranded` | `NothingStranded` | `Calm` |
| `DecisionsSurvive` | `DecisionSurvives` | `Calm` |
| `RejectionLasts` | `RejectionIsFinal` | `Calm` |
| `LifecycleImplemented` | `ImplementsLifecycle` | `Calm` |

The first three hold under all faults, any number of operators and of submissions.
`SavedInv` says that every update an operator makes finds a last node, hence an
edge. `CompletedMeansQuoted` is about copies: wherever a copy of the state is
`completed`, in the checkpoint or in a job, the lead has a quote, and copies are made
of copies. `QuotesAccounted` counts: a quote belongs to a job that has been spent on
it (`SpentOf`), a restart may put as many jobs back as there are slots (`SlotInv`),
and nothing else makes a spent job fresh.

`Calm` is: no faults, one submission per lead, one operator at a time, a threshold
above 0, for any number of leads, slots and retries. Each of the four parts is needed by
one of the theorems (section 3, limits, and section 6). What makes the service correct is then that each
lead has one holder at a time although nothing locks it, and `CalmInv` says so: a
lead is `Fresh`, `Held` or `Settled`. A held lead is in the hands of its youngest
job, and `Waits`, `Runs`, `Saves` and `Fails` relate that job's copy to the
checkpoint and to the quotes; its older jobs are over or sit at the interrupt, where
they write nothing any more. A settled lead is in the hands of the operator
(`Reviewed`, `Decided`) or of nobody (`Closed`). `AtNode` says what a state
holds before each node; `NodeMoves` and `DeliveryMoves` carry it over each edge.
`JobStepSuffices` and `LeadStepSuffices` reduce every step to the one lead it
touches; there is one lemma per action; each keeps the situation, keeps a decision and
takes a step of the lifecycle. The five properties follow from the situation alone.
TLC checked `CalmInv` on the instance of `service` before the proof.

`LeadServiceFaults_proofs` proves, under the same assumptions:

| Theorem | States | Assumes |
|---|---|---|
| `RestartsStrandNobody` | `NothingStranded` | `RestartsOnly`: nobody reviews, no timeout, no failing checkpoint |
| `WorkShrinks` | every step of the worker uses up work of one job, and only a restart gives work back | |
| `WorkerGoesOn` | `WorkerNeverStuck` | |

Under restarts two jobs may hold a lead together, each repeated from a fresh state
and overwriting the other's checkpoint, so `CalmInv` fails. `RestartInv` asks less:
as long as the checkpoint is `Pending`, some job of the lead `Acts`, i.e. will write
it again. A job stops acting at the end or at the interrupt, where its own copy is
terminal or abandoned (`EndIsFinal`), and it saved that copy before; a later write of
another job comes from one that acts. `RestartsOnly` cannot be widened: a cancelled
job, an unwritten error and an approval that meets a repeated job do strand leads.

The other two are the safety half of `LeadsAreAnswered`, under any fault. `JobWork`
is the number of steps a job may still take: `NodesLeft` counts the nodes a run can
still visit (an extraction uses up a retry, a delivery an attempt; at most three nodes
per extraction, then calculator and deliveries), and a checkpoint follows each.
`NodeUsesUp` and `DeliveryUsesUp` show that it falls along every edge but those of an
empty text, whose run raises. `ReadyInv` says that a checkpoint with a last node has a
next one and that a resume job only exists for such a thread; `LeastOf` finds the
first queued job, for which the slot is free if no job is in the worker. So between
restarts the worker takes finitely many steps, each can be taken as long as a job is
unfinished, and once all are over `NobodyStranded` or `RestartsStrandNobody` gives the
answer. What is left to TLC is that a step which can be taken is taken (WF). TLC
checked `RestartInv`, `ReadyInv` and the action property on the instances of
`service_worker_crash` and `service_faults` before the proofs. `ArqMaxTries` bounds
the restarts in the assumption: ARQ gives a job up at its sixth start
(`tasks.py:335-337`), which the model does not contain.

`CatalogueSearch_proofs` proves, of the operators of the two pure modules:

| Theorem | States |
|---|---|
| `SearchFindsClosest` | for any catalogue, any limit above 0 and any setting of the filter, a service is mapped to a row as close as any, and to none only if every row is beyond the threshold |
| `IngestedPricesAddUp` | whatever price and type the LLM returns, the row that is written satisfies the CHECK constraint, is FREE only if the LLM said so, and does not make the sum raise |
| `MapperFitsNodes` | for any number of services, each with a catalogue of its own, the mapped services and the sum of their distances are in the bounds AgentNodes assumes, and whenever the average is one of `Distances`, the list and the score are those of AgentNodes |

`RelevantRows` is the argument of the first: a row the limit cuts off is no closer than
one it keeps, of which there is one (`LimitKeepsARow`); a row either filter discards is
beyond the threshold, which is the same in both if the setting is positive
(`OneThreshold`).

`MapperFitsNodes` is `MCNodesAgree` without its bounds: it is what allows AgentNodes to
replace the mapper's rows by a number and an average. The sum of the distances is a
fold of the library, whose definition says nothing until its recursive function is
known to exist, and the induction theorems of the library cannot be instantiated. Both
are shown by minimal counterexample: `LeastOf` (in `AgentNodes_proofs`) says that a
nonempty set of naturals has a least element, so the least number of services for which
a claim fails has a predecessor for which it holds. `HaveSums` gives partial sums for
every list that way, `TotalOfSums` says that the fold is their last, and `SumsBounded`
that it is at most the threshold times the mapped services. The rounding of
`evaluator.py:103` is shared by both modules up to the order of a multiplication and a
division, which `QuotientUnique` settles.

`CatalogueItems_proofs` proves, under `CatalogueAssumption`, for any catalogue,
requests, clients and bounds:

| Theorem | Property | Assumes |
|---|---|---|
| `CatalogueTypeCorrect` | `TypeOK` | |
| `VectorsFollowRows` | `VectorFollowsRow` | one job slot |
| `AuditExplained` | `AuditExplainsRows` | |
| `TasksRunOut` | every step but the tenant's and a restart decreases the work left | |

All failures are allowed, and any overlap of PATCHes. With two slots an older vector
may win (section 6). `VectorInv` says where the next vector of a row comes from: a task
is on its way (`Awaited`), or the one in the slot carries the present text
(`TextCurrent`), or no task runs and the vector is current. `InsertedInv` is
needed for new rows: a fresh id meets no old task.

`AuditInv` adds to the property what makes it inductive: whatever a PATCH in flight has
read, it is a value the log knows (`ReadsKnown`), since the row it read was explained and
the log only grows; and an id never given has no log. `UpdateExplains` is the step of the
argument, column by column: an entry with a known old value keeps the log complete
(`CompleteAppended`); one whose old value is the column's present one extends the chain
(`ChainAppended`), and any other makes the column `overtaken`; no entry is written only
if the value read is the value written. `WrittenTyped` shows that the enum's text still
denotes the value.

`TasksRunOut` is the safety half of `VectorCatchesUp`. `Work` counts the requests that have
read, those that have committed, the tasks in Redis and those in slots, each by the
steps it and its task may still take. There are finitely many of each (`WorkInv`),
although items and clients may be infinitely many, and a restart puts back no more
tasks than there are slots. So once the tenant stops the queue runs dry, and then
`VectorsFollowRows` says that every vector is that of its row, but for those whose last
task was lost or failed.

`IngestionService_proofs` proves, under `IngestionAssumption` and
`IngestionServiceAssumption`, for any file sizes, answers of the LLM, reviewers,
restarts and failures:

| Theorem | Property |
|---|---|
| `TypeCorrect` | `TypeOK` |
| `ChunksOnce` | `EachChunkOnce` |
| `ApprovedWrites` | `WritesAreApproved` |
| `ShownWrites` | `WrittenAsShown` |
| `SuccessIsTrue` | `SuccessMeansWritten` |
| `EnoughSupersteps` | `ExhaustedOnlyByLargeFiles` |
| `InvocationsEnd` | every step of the API process uses up work of one invocation, and nothing gives an invocation work back |
| `StreamsAreHeard` | a stream that was opened is still run or has sent its last event |

Any number of invocations hold a copy of the state, and each overwrites the
checkpoint with its own. The invariant is therefore one about a copy,
wherever it is (`CopyInv`, of the checkpoint and of every run): its lists are in
the order of their chunks (`OrderInv`), the chunker runs on empty lists only, and a
copy that is to be written although it needs review has a list that was approved.
A run starts from a copy and saves a copy, so `CopyInv` survives every interleaving;
`ApprovedWrites` and `ChunksOnce` follow. `BudgetInv` counts the supersteps left
against the chunks left. `SeenInv` says that, without haste, a checkpoint that a
second run can start from already holds the list that was shown. `OutcomeInv` says
where a successful run stands between its write and its answer, and that what it wrote
is the list it holds.

The last two are the safety half of `EveryoneIsAnswered`. `RunWork` is what an invocation
may still do: a node and a checkpoint for each superstep of its budget, then the end
of the graph and the answer. No fault enlarges it, a restart of the process included: it
ends the invocation. So the process takes finitely many steps, and when they are over
no invocation runs, hence (`StreamsAreHeard`) no stream ended in silence. What is left to
TLC is that a step that can be taken is taken (WF).

`QualifyView_proofs` proves, for any number of leads, logouts and changes:

| Theorem | Property |
|---|---|
| `TypeCorrect` | `TypeOK` |
| `OneCallback` | `DoneOnce` |
| `LoadingIsWaiting` | `LoadingIsWatched` |
| `ResultMatches` | `ResultIsOfThread` |
| `StatusMovesOn` | `NoOlderStatus` |

`PollInv` is about a poller alone: at most one request of it is in flight and its
flag is set then; before its POST is over and after its last callback it is
`Quiet` (no interval, no request). A callback needs a request, hence a poller that
is not quiet, hence `done = 0` before it. `ViewInv` holds until the first logout and
ties pollers to the store: every poller that is not quiet is the store's
(`WatchedInv`), a loading view has one or a POST (`LoadingInv`), a poller whose
in-flight flag is set has a request to clear it (`FlagInv`), while it runs there
is no result (`PollingInv`), and what is shown is no newer than the answer in flight,
which is no newer than the service (`SeenInv`). Submitting needs a view that does
not load, so it meets no poller. All these invariants were checked with TLC first.

Only model-checked: `JobsEnd`, `LeadsAreAnswered`, `VectorCatchesUp`,
`EveryoneIsAnswered` and `ViewIsReleased` (liveness and ENABLED are out of the
prover's reach; the safety halves of all five are theorems: `GraphHalts`,
`WorkShrinks` with `WorkerGoesOn`, `TasksRunOut`, `InvocationsEnd` with `StreamsAreHeard`, and
`LoadingIsWaiting`), and the disagreements of section 6.

## 5. Not modelled

HTTP, SQL text, prompt and e-mail wording, masking rules, the readers of the four
file formats, rate limits, authentication, tracing and DOM code hold no state whose
order matters. Tenant profiles are a single-row upsert. Migrations and scripts run
once. Uploads write an object under a fresh key.

- `run_ingestion_task` (`worker/tasks.py:342`) is registered with the worker and
  enqueued nowhere, so no behaviour of the program reaches it.
- The lazy singletons (`get_pool`, `get_checkpointer`) have an `await` between check
  and assignment; the API's lifespan awaits each before it serves
  (`main.py:106-120`), so only the first jobs of a worker could race.
- The ingestion view (`stores/ingest.js`) keeps what the page displays of a stream
  that IngestionService models.

## 6. Findings

| Run | Code | Says |
|---|---|---|
| `delivery_abandoned` | `agents/delivery.py:137`: after the last refused delivery the graph ends with status `processing` | `src/README.md:234`, `src/locustfile.py:40`: a lead ends in completed, pending_review or error |
| `rejected_lead_runs` | `api/routes.py:263`: check and write of a decision are not atomic | `tests/integration/test_hitl_persistence.py:407-408`: a rejected lead is not run again |
| `audit_overlap` | `api/catalogue_routes.py:305`: the audit compares the new value with the row read before the transaction, so a PATCH that puts back what it had read, after another has changed it, changes the column and logs nothing | `src/README.md:432`, `migrations/versions/003_audit_log.py:2`: every change is tracked, field by field |
| `ingestion_chunk_lost` | `ingestion/graph.py:433`: a chunk whose LLM call failed is passed over and its error erased by the next step (452, 529) | `ingestion/models.py:347`: error is set by any node that catches an unrecoverable exception; `ingestion/graph.py:378`: a row is not silently dropped |

Smaller disagreements met while modelling, which the models contain but no run
is spent on:

- `agents/mapper.py:160`: a distance filter set to 0 becomes 0.80 and a farther row is
  discarded; `core/config.py:147` says 0 = disabled, keep the closest match regardless of
  distance. (`ClosestRows` is therefore stated with the fallback.)
- `agents/extractor.py:273`: the first extraction counts as a retry;
  `core/config.py:137` says how many times the extractor may retry.
- `worker/tasks.py:174`: a failed LLM call writes `error` into the checkpoint;
  `agents/extractor.py:192-193` says that LangGraph state is not touched.
- `worker/tasks.py:312`: with several job slots the vector of an older row may be
  written last, for good (set `Slots = {s1, s2}` in `catalogue.cfg`);
  `api/catalogue_routes.py:211-213` says eventual consistency.
- `worker/tasks.py:289`: the price is part of the embedded text;
  `api/catalogue_routes.py:326` says that it does not influence the embedding.
- `database/vector_store.py:133`: an ingestion overwrites columns without audit
  rows; `migrations/versions/003_audit_log.py:2` says every field-level change.
- `api/catalogue_routes.py:110`: VARIABLE with a price is coerced;
  `src/README.md:250` says that it answers 422.
- `worker/tasks.py:307`: a failed embedding is said to be retried by ARQ, which
  repeats only jobs that raise `Retry`.
- `worker/tasks.py:163`: cancellation bypasses the except block, so a job that times
  out leaves `processing`; `worker/worker_settings.py:97-98` says that the error
  reaches the client.
- `api/catalogue_routes.py:306`: `str()` of an Enum member is compared with the
  stored string, so an unchanged `price_type` is audited;
  `api/catalogue_routes.py:17-18` says only fields whose value changed, as does 300.
  `AuditExplainsRows` names the column as its one exception: without it (drop
  `f # "price_type"` from `OnlyChanges`) TLC shows such a row after one PATCH.
- `worker/tasks.py:312`: a task in flight overwrites the vector of an ingestion;
  `worker/tasks.py:239-241` says that staleness ends.
- `api/routes.py:492`: an approval of an ingestion that is not suspended (rejected,
  finished, running) is not refused and answers `completed`; the message at 499
  expects a `ValueError` there. A rejection that follows an approval whose run
  crashed before the write finds the approval in the checkpoint and the catalogue
  is written all the same.
- `ingestion/graph.py:66-69` speaks of resuming a run after a crash; nothing does so
  but an approval that no event asked for.
- `ingestion/graph.py:350`: `raw_data` is attached by position, so an answer with a
  row missing gives the later items the wrong rows; 732: ids given twice by the LLM
  drop items.
- `ingestion/graph.py:891`: with 5 rows per chunk a file of more than about 110 rows
  exceeds LangGraph's 25 supersteps and ends in an error event.
- `src/frontend/src/stores/qualify.js:77` says of `reset()` "Stop any running poller
  and wipe all transient state.": a request in flight, or a POST, is not stopped. Its
  late answer makes the view of the next session load without a poller (the button
  stays disabled), or shows the old lead in the view of a new one. After a 401 the
  reset view reads `error`.
- `src/frontend/src/api.js:174`: `onUpdate` is called on terminal ticks too; the
  comment says every non-terminal tick.

## 7. What is left

1. The number of times a poller asks, as a theorem: `LoadingIsWaiting` says that a loading
   view waits for something, not that what it waits for is used up, which depends on
   the lifecycle of the service.
2. `RestartsStrandNobody` with timeouts, for leads whose job was not cancelled.
