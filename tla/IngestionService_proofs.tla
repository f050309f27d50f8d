------------------------ MODULE IngestionService_proofs ------------------------
(***************************************************************************)
(* Theorems about IngestionService, for every file, reply, reviewer,      *)
(* limit and fault its assumptions allow, haste included.                 *)
(***************************************************************************)
EXTENDS IngestionService, TLAPS

USE IngestionAssumption, IngestionServiceAssumption

-----------------------------------------------------------------------------
(* The nodes *)

\* A file has a natural number of chunks.
LEMMA ChunkCountType == ASSUME NEW n \in Nat PROVE ChunkCount(n) \in Nat
<1> DEFINE a == n + ChunkSize - 1
<1>1. a \in Nat /\ ChunkSize \in Nat /\ ChunkSize > 0
  OBVIOUS
<1>2. a \div ChunkSize \in Int
  BY <1>1
<1>3. a \div ChunkSize >= 0
  BY <1>1, SMTT(30)
<1> QED
  BY <1>2, <1>3 DEF ChunkCount

\* An entry that is an object makes an item of its chunk.
LEMMA ItemType ==
  ASSUME NEW entry \in Entries, NEW chunk \in Nat, NEW place \in Nat
  PROVE  /\ Item(entry, chunk, place) \in ServiceItem
         /\ Item(entry, chunk, place).chunk = chunk
  BY DEF Item, Entries, ServiceItem

LEMMA ParsedType ==
  ASSUME NEW reply \in Replies, NEW chunk \in Nat
  PROVE  /\ Parsed(reply, chunk) \subseteq ServiceItem
         /\ \A item \in Parsed(reply, chunk) : item.chunk = chunk
<1>1. /\ DOMAIN reply \subseteq Nat
      /\ \A i \in DOMAIN reply : reply[i] \in Entries
  OBVIOUS
<1> QED
  BY <1>1, ItemType DEF Parsed

LEMMA AllItemsType ==
  ASSUME NEW s \in IngestionState
  PROVE  AllItems(s) \subseteq ServiceItem
  BY DEF AllItems, IngestionState

LEMMA InitialStateType == InitialState \in IngestionState
  BY DEF InitialState, IngestionState

LEMMA ChunkerType ==
  ASSUME NEW s \in IngestionState, NEW n \in Nat, NEW t \in ChunkerNode(s, n)
  PROVE  t \in IngestionState
<1>1. Chunked(s, n) \in IngestionState
  BY ChunkCountType DEF Chunked, IngestionState
<1>2. ChunkerFailed(s) \in IngestionState
  BY DEF ChunkerFailed, IngestionState
<1> QED
  BY <1>1, <1>2 DEF ChunkerNode

LEMMA NormalizerType ==
  ASSUME NEW s \in IngestionState, NEW t \in NormalizerNode(s)
  PROVE  t \in IngestionState
<1> DEFINE k == s.current_chunk_index + 1
<1>1. k \in Nat
  BY DEF IngestionState
<1>2. ASSUME NEW lists \in ItemLists, NEW error \in BOOLEAN
      PROVE  [s EXCEPT !.current_chunk_index = k,
                       !.normalized_items = lists,
                       !.error = error] \in IngestionState
  <2> HIDE DEF k
  <2> QED
    BY <1>1 DEF IngestionState, ItemLists
<1>3. s.normalized_items \in ItemLists /\ s.error \in BOOLEAN
  BY DEF IngestionState, ItemLists
<1>4. ASSUME NEW r \in Replies PROVE Normalized(s, r) \in IngestionState
  <2>1. Append(s.normalized_items, Parsed(r, k)) \in ItemLists
    BY <1>1, <1>3, ParsedType DEF ItemLists
  <2> QED
    BY <1>2, <2>1 DEF Normalized
<1>5. NormalizerSkipped(s) \in IngestionState
  <2>1. NormalizerSkipped(s) = [s EXCEPT !.current_chunk_index = k]
    BY DEF NormalizerSkipped
  <2> HIDE DEF k
  <2> QED
    BY <1>1, <2>1 DEF IngestionState
<1>6. NormalizerFailed(s) \in IngestionState
  <2>1. NormalizerFailed(s) = [s EXCEPT !.current_chunk_index = k,
                                        !.error = TRUE]
    BY DEF NormalizerFailed
  <2> HIDE DEF k
  <2> QED
    BY <1>1, <2>1 DEF IngestionState
<1> QED
  BY <1>4, <1>5, <1>6 DEF NormalizerNode

LEMMA ValidatorType ==
  ASSUME NEW s \in IngestionState
  PROVE  ValidatorNode(s) \in IngestionState
<1>1. {item \in AllItems(s) : NeedsAttention(item)} \in SUBSET ServiceItem
  BY AllItemsType
<1> QED
  BY <1>1 DEF ValidatorNode, Validated, IngestionState

LEMMA ReviewTypes ==
  ASSUME NEW s \in IngestionState, NEW d \in Decisions
  PROVE  /\ ApprovalNode(s, d) \in IngestionState
         /\ FinalizerWrote(s) \in IngestionState
         /\ FinalizerFailed(s) \in IngestionState
  BY DEF ApprovalNode, FinalizerWrote, FinalizerFailed, IngestionState

LEMMA EdgeType ==
  ASSUME NEW node \in Nodes, NEW s
  PROVE  Edge(node, s) \in Nodes \cup {"__end__"}
  BY DEF Edge, Nodes, RouteAfterNormalizer, RouteAfterValidator,
         RouteAfterApproval

-----------------------------------------------------------------------------
(* Types *)

\* The invocations stay of their type when one of them is replaced or
\* changes its phase.
LEMMA RunsType ==
  ASSUME runs \in [Callers -> Runs], NEW c \in Callers
  PROVE  /\ \A run \in Runs : [runs EXCEPT ![c] = run] \in [Callers -> Runs]
         /\ \A p \in Phases :
              [runs EXCEPT ![c].phase = p] \in [Callers -> Runs]
<1>1. ASSUME NEW p \in Phases PROVE [runs[c] EXCEPT !.phase = p] \in Runs
  BY DEF Runs
<1> QED
  BY <1>1

LEMMA FreshType ==
  ASSUME NEW p \in Phases
  PROVE  Fresh(p) \in Runs
<1>1. RecursionLimit \in Nat
  OBVIOUS
<1> QED
  BY <1>1, InitialStateType DEF Fresh, Runs, Nodes, Decisions

LEMMA CallersType ==
  /\ "stream" \in Callers
  /\ Reviewers \subseteq Callers
  BY DEF Callers

LEMMA CheckpointType ==
  ASSUME NEW run \in Runs
  PROVE  CheckpointOf(run) \in Checkpoints
  BY DEF CheckpointOf, Checkpoints, Runs

\* What a node leaves behind is a run, if the budget allowed the node.
LEMMA ReturnedType ==
  ASSUME runs \in [Callers -> Runs], NEW c \in Callers,
         NEW node \in Nodes, At(c, node),
         NEW s \in IngestionState, NEW p \in Phases
  PROVE  Returned(c, s, p) \in Runs
<1> DEFINE k == runs[c].steps + 1
<1>1. k \in 0..RecursionLimit
  BY DEF At, Runs
<1>2. runs[c].next \in Nodes /\ runs[c].body \in Decisions \cup {"none"}
  BY DEF At, Runs
<1>3. Edge(runs[c].next, s) \in Nodes \cup {"__end__"}
  BY <1>2, EdgeType
<1> HIDE DEF k
<1> QED
  BY <1>1, <1>2, <1>3 DEF Returned, Runs, k
\* TypeOK survives an action that replaces invocation c and changes nothing
\* else, or the checkpoint besides.
LEMMA RunsChangeType ==
  ASSUME TypeOK, NEW c \in Callers, NEW run \in Runs,
         runs' = [runs EXCEPT ![c] = run],
         checkpoint' = checkpoint \/ checkpoint' = CheckpointOf(run),
         UNCHANGED <<rows, event, histories, crashes>>
  PROVE  TypeOK'
<1>1. checkpoint' \in Checkpoints
  BY CheckpointType DEF TypeOK
<1>2. runs' \in [Callers -> Runs]
  BY DEF TypeOK
<1> QED
  BY <1>1, <1>2 DEF TypeOK, histories

\* TypeOK survives an action that only changes a phase.
LEMMA PhaseChangeType ==
  ASSUME TypeOK, NEW c \in Callers, NEW p \in Phases, SetPhase(c, p),
         UNCHANGED <<rows, checkpoint, event, histories, crashes>>
  PROVE  TypeOK'
<1>1. runs' \in [Callers -> Runs]
  BY RunsType DEF SetPhase, TypeOK
<1> QED
  BY <1>1 DEF TypeOK, histories

\* TypeOK survives the last event of the stream.
LEMMA SendLastType ==
  ASSUME TypeOK,
         NEW kind \in {"interrupt", "done", "error", "gone"},
         NEW error \in BOOLEAN, SendLast(kind, error),
         UNCHANGED <<rows, checkpoint, histories, crashes>>
  PROVE  TypeOK'
<1>1. runs' \in [Callers -> Runs]
  BY RunsType, CallersType DEF SendLast, SetPhase, TypeOK, Phases
<1>2. event' \in Events
  BY DEF SendLast, Events
<1> QED
  BY <1>1, <1>2 DEF TypeOK, histories

LEMMA StateOfRunType ==
  ASSUME TypeOK, NEW c \in Callers
  PROVE  /\ runs[c] \in Runs
         /\ runs[c].state \in IngestionState
         /\ runs[c].state.error \in BOOLEAN
         /\ runs[c].state.normalized_items \in ItemLists
         /\ checkpoint.state \in IngestionState
         /\ checkpoint.state.normalized_items \in ItemLists
         /\ rows \in Nat
<1>1. /\ runs[c] \in Runs /\ runs[c].state \in IngestionState
      /\ checkpoint.state \in IngestionState /\ rows \in Nat
  BY DEF TypeOK, Runs, Checkpoints
<1> QED
  BY <1>1 DEF IngestionState, ItemLists

LEMMA InitType == Init => TypeOK
<1> SUFFICES ASSUME Init PROVE TypeOK
  OBVIOUS
<1>1. checkpoint \in Checkpoints
  BY InitialStateType DEF Init, Checkpoints, Nodes
<1>2. runs \in [Callers -> Runs]
  BY FreshType DEF Init, Phases
<1>3. event \in Events
  BY DEF Init, Events
<1>4. crashes \in 0..MaxCrashes
  BY DEF Init
<1> QED
  BY <1>1, <1>2, <1>3, <1>4 DEF Init, TypeOK

LEMMA GraphStepType ==
  ASSUME TypeOK, NEW c \in Callers, GraphStep(c)
  PROVE  TypeOK'
<1> DEFINE s == runs[c].state
<1>0. s \in IngestionState /\ rows \in Nat /\ runs \in [Callers -> Runs]
  BY StateOfRunType DEF TypeOK
<1>1. ASSUME NEW node \in Nodes, NEW t \in IngestionState, Superstep(c, node, t)
      PROVE  TypeOK'
  <2>1. Returned(c, t, "running") \in Runs
    BY <1>0, <1>1, ReturnedType DEF Superstep, Phases
  <2> QED
    BY <1>1, <2>1, RunsChangeType DEF Superstep
<1>2. CASE RunNode(c)
  BY <1>0, <1>1, <1>2, ChunkerType, NormalizerType, ValidatorType
     DEF RunNode, Nodes
<1>3. CASE RunApproval(c)
  <2>1. runs[c].resume \in Decisions
    BY <1>0, <1>3 DEF RunApproval, Runs
  <2>2. Returned(c, ApprovalNode(s, runs[c].resume), "saving") \in Runs
    BY <1>0, <1>3, <2>1, ReviewTypes, ReturnedType
       DEF RunApproval, Phases, Nodes
  <2>3. runs' \in [Callers -> Runs]
    BY <1>0, <1>3, <2>2, RunsType DEF RunApproval, Return
  <2>4. approvals' \subseteq ItemLists
    BY <1>3, StateOfRunType DEF RunApproval, TypeOK
  <2> QED
    BY <1>3, <2>3, <2>4 DEF RunApproval, TypeOK
<1>4. CASE Suspend(c)
  BY <1>4, PhaseChangeType DEF Suspend, Phases
<1>5. CASE RunFinalizer(c)
  <2>1. /\ Returned(c, FinalizerWrote(s), "saving") \in Runs
        /\ Returned(c, FinalizerFailed(s), "saving") \in Runs
    BY <1>0, <1>5, ReviewTypes, ReturnedType
       DEF RunFinalizer, Phases, Nodes, Decisions
  <2>2. runs' \in [Callers -> Runs]
    BY <1>0, <1>5, <2>1, RunsType DEF RunFinalizer, Return
  <2>3. /\ UniqueItems(s) \in SUBSET ServiceItem
        /\ s.normalized_items \in ItemLists
        /\ NeedsReview(s) \in BOOLEAN
    BY <1>0, AllItemsType, StateOfRunType DEF UniqueItems, NeedsReview
  <2>4. writes' \subseteq [batch : SUBSET ServiceItem, items : ItemLists,
                           reviewed : BOOLEAN]
    BY <1>5, <2>3 DEF RunFinalizer, TypeOK
  <2> QED
    BY <1>5, <2>2, <2>4 DEF RunFinalizer, TypeOK
<1>6. CASE SaveCheckpoint(c)
  <2>1. checkpoint' \in Checkpoints
    BY <1>6, StateOfRunType, CheckpointType DEF SaveCheckpoint
  <2>2. runs' \in [Callers -> Runs]
    BY <1>0, <1>6, RunsType DEF SaveCheckpoint, SetPhase, Phases
  <2> QED
    BY <1>6, <2>1, <2>2 DEF SaveCheckpoint, TypeOK, histories
<1>7. CASE Finish(c)
  BY <1>7, PhaseChangeType DEF Finish, Phases
<1>8. CASE ExceedRecursion(c)
  BY <1>8, PhaseChangeType DEF ExceedRecursion, Phases
<1>9. CASE Raise(c)
  BY <1>9, PhaseChangeType DEF Raise, Phases
<1> QED
  BY <1>2, <1>3, <1>4, <1>5, <1>6, <1>7, <1>8, <1>9 DEF GraphStep

LEMMA NextType ==
  ASSUME TypeOK, [Next]_vars
  PROVE  TypeOK'
<1>0. runs \in [Callers -> Runs]
  BY DEF TypeOK
<1>1. ASSUME NEW c \in Callers, GraphStep(c) PROVE TypeOK'
  BY <1>1, GraphStepType
<1>2. CASE EndStream
  <2>0. SetPhase("stream", "over")
    BY <1>2 DEF EndStream, SendLast
  <2>1. runs' \in [Callers -> Runs]
    BY <1>0, <2>0, RunsType, CallersType DEF SetPhase, Phases
  <2>3. event' \in Events
    <3>1. ASSUME NEW kind \in {"interrupt", "done"}, NEW error \in BOOLEAN,
                 SendLast(kind, error)
          PROVE  event' \in Events
      BY <3>1 DEF SendLast, Events
    <3>2. runs["stream"].state.error \in BOOLEAN
      BY StateOfRunType, CallersType
    <3> QED
      BY <1>2, <3>1, <3>2 DEF EndStream
  <2>2. shown' \subseteq ItemLists
    BY <1>2, StateOfRunType, CallersType DEF EndStream, TypeOK
  <2> QED
    BY <1>2, <2>1, <2>2, <2>3 DEF EndStream, TypeOK
<1>3. CASE EndStreamUnasked
  BY <1>3, SendLastType, StateOfRunType, CallersType DEF EndStreamUnasked
<1>4. CASE FailStream
  BY <1>4, SendLastType DEF FailStream
<1>5. CASE Disconnect
  BY <1>5, SendLastType DEF Disconnect
<1>6. ASSUME NEW r \in Reviewers, AnswerApproval(r) PROVE TypeOK'
  <2>1. runs' \in [Callers -> Runs]
    BY <1>0, <1>6, RunsType, FreshType, CallersType
       DEF AnswerApproval, Phases
  <2>2. answers' \subseteq [status : {"completed", "rejected"}, error : BOOLEAN]
    BY <1>6, StateOfRunType, CallersType DEF AnswerApproval, TypeOK
  <2> QED
    BY <1>6, <2>1, <2>2 DEF AnswerApproval, TypeOK
<1>7. ASSUME NEW r \in Reviewers, FailApproval(r) PROVE TypeOK'
  BY <1>7, RunsChangeType, FreshType, CallersType DEF FailApproval, Phases
<1>8. CASE StartStream
  <2>1. runs' \in [Callers -> Runs]
    BY <1>0, <1>8, RunsType, CallersType DEF StartStream, SetPhase, Phases
  <2>2. checkpoint' \in Checkpoints
    BY <1>8, FreshType, CheckpointType DEF StartStream, Phases
  <2> QED
    BY <1>8, <2>1, <2>2 DEF StartStream, TypeOK, histories
<1>9. ASSUME NEW r \in Reviewers, NEW d \in Decisions, RequestApproval(r, d)
      PROVE  TypeOK'
  <2>1. [phase |-> "running", state |-> checkpoint.state,
         next |-> checkpoint.next, steps |-> 0, resume |-> d, body |-> d]
          \in Runs
    BY DEF TypeOK, Checkpoints, Runs, Phases
  <2>2. runs' \in [Callers -> Runs]
    BY <1>0, <1>9, <2>1, CallersType DEF RequestApproval
  <2>3. hasty' \in BOOLEAN /\ rejects' \in BOOLEAN
    BY <1>9 DEF RequestApproval, TypeOK
  <2> QED
    BY <1>9, <2>2, <2>3 DEF RequestApproval, TypeOK
<1>10. CASE CrashApi
  <2>1. ASSUME NEW c \in Callers PROVE [runs[c] EXCEPT !.phase = "over"] \in Runs
    BY <1>0 DEF Runs, Phases
  <2>2. Fresh("over") \in Runs
    BY FreshType DEF Phases
  <2>3. runs' \in [Callers -> Runs]
    BY <1>0, <1>10, <2>1, <2>2 DEF CrashApi
  <2>4. event' \in Events
    BY <1>10 DEF CrashApi, Events, TypeOK
  <2>5. crashes' \in 0..MaxCrashes
    BY <1>10 DEF CrashApi, TypeOK
  <2> QED
    BY <1>10, <2>3, <2>4, <2>5 DEF CrashApi, TypeOK, histories
<1>11. CASE UNCHANGED vars
  BY <1>11 DEF vars, histories, TypeOK
<1> QED
  BY <1>1, <1>2, <1>3, <1>4, <1>5, <1>6, <1>7, <1>8, <1>9, <1>10, <1>11,
     CallersType DEF Next, ApiStep, ClientStep

\* Every variable keeps its type: the records of the thread, its invocations
\* and the histories have the fields the code gives them.
THEOREM TypeCorrect == Spec => []TypeOK
<1>1. Init => TypeOK
  BY InitType
<1>2. TypeOK /\ [Next]_vars => TypeOK'
  BY NextType
<1> QED
  BY <1>1, <1>2, PTL DEF Spec

-----------------------------------------------------------------------------
(* Every copy of the state: the checkpoint's, and each invocation's *)

\* The body of EachChunkOnce for one state.
OrderInv(s) ==
    LET lists == s.normalized_items
    IN  \A i, j \in DOMAIN lists : \A item \in lists[i] :
          /\ item.chunk <= s.current_chunk_index
          /\ \A other \in lists[j] : other.chunk = item.chunk => i = j

\* What holds of a state about to enter "next" when "approved" are the lists
\* approved so far.
CopyInv(next, s, approved) ==
    /\ OrderInv(s)
    /\ next = "chunker" => s.normalized_items = <<>>
    /\ next = "finalizer" /\ NeedsReview(s) => s.normalized_items \in approved

CopiesInv ==
    /\ CopyInv(checkpoint.next, checkpoint.state, approvals)
    /\ \A c \in Callers : CopyInv(runs[c].next, runs[c].state, approvals)

\* Appending the items of the chunk after the current one keeps the order.
LEMMA NormalizedOrder ==
  ASSUME NEW s \in IngestionState, OrderInv(s), NEW reply \in Replies
  PROVE  OrderInv(Normalized(s, reply))
<1> DEFINE k     == s.current_chunk_index + 1
           new   == Parsed(reply, k)
           lists == s.normalized_items
           all   == Append(lists, new)
           t     == Normalized(s, reply)
<1>1. k \in Nat /\ s.current_chunk_index < k
  BY DEF IngestionState
<1>2. new \subseteq ServiceItem /\ \A item \in new : item.chunk = k
  BY <1>1, ParsedType
<1>3. t.normalized_items = all /\ t.current_chunk_index = k
  BY DEF Normalized, IngestionState
<1>4. lists \in Seq(SUBSET ServiceItem)
  BY DEF IngestionState
<1>5. ASSUME NEW i \in DOMAIN all
      PROVE  \/ i \in DOMAIN lists /\ all[i] = lists[i]
             \/ i = Len(lists) + 1 /\ all[i] = new
  <2> HIDE DEF new, lists
  <2> QED
    BY <1>2, <1>4 DEF all
<1>6. ASSUME NEW i \in DOMAIN lists, NEW item \in lists[i]
      PROVE  item.chunk \in Nat /\ item.chunk < k
  <2>1. item \in ServiceItem
    BY <1>4
  <2>2. item.chunk \in Nat
    BY <2>1 DEF ServiceItem
  <2>3. item.chunk <= s.current_chunk_index
    BY DEF OrderInv
  <2> QED
    BY <1>1, <2>2, <2>3 DEF IngestionState
<1>7. ASSUME NEW i \in DOMAIN all, NEW j \in DOMAIN all, NEW item \in all[i]
      PROVE  /\ item.chunk <= k
             /\ \A other \in all[j] : other.chunk = item.chunk => i = j
  <2> HIDE DEF k, new, all
  <2>1. CASE i \in DOMAIN lists /\ all[i] = lists[i]
    <3>1. item.chunk \in Nat /\ item.chunk < k
      BY <1>6, <2>1
    <3>2. ASSUME NEW other \in all[j], other.chunk = item.chunk PROVE i = j
      <4>1. CASE j \in DOMAIN lists /\ all[j] = lists[j]
        BY <2>1, <3>2, <4>1 DEF OrderInv
      <4>2. CASE all[j] = new
        <5>1. other.chunk = k
          BY <1>2, <4>2
        <5> QED
          BY <1>1, <3>1, <3>2, <5>1
      <4> QED
        BY <1>5, <4>1, <4>2
    <3> QED
      BY <1>1, <3>1, <3>2
  <2>2. CASE i = Len(lists) + 1 /\ all[i] = new
    <3>1. item.chunk = k
      BY <1>2, <2>2
    <3>2. ASSUME NEW other \in all[j], other.chunk = item.chunk PROVE i = j
      <4>1. ~(j \in DOMAIN lists /\ all[j] = lists[j])
        BY <1>1, <1>6, <3>1, <3>2
      <4> QED
        BY <1>5, <2>2, <4>1
    <3> QED
      BY <1>1, <3>1, <3>2
  <2> QED
    BY <1>5, <2>1, <2>2
<1> HIDE DEF k, all, t, new
<1>8. \A i, j \in DOMAIN all : \A item \in all[i] :
          /\ item.chunk <= k
          /\ \A other \in all[j] : other.chunk = item.chunk => i = j
  BY <1>7
<1>9. OrderInv(t)
  BY <1>3, <1>8 DEF OrderInv
<1> QED
  BY <1>9 DEF t

LEMMA CopyInvMonotone ==
  ASSUME NEW next, NEW s, NEW seen, NEW more, CopyInv(next, s, seen),
         seen \subseteq more
  PROVE  CopyInv(next, s, more)
  BY DEF CopyInv

LEMMA EmptyOrder ==
  ASSUME NEW s, s.normalized_items = <<>>
  PROVE  OrderInv(s)
  BY DEF OrderInv

LEMMA InitialCopy == \A seen : CopyInv("chunker", InitialState, seen)
<1>1. InitialState.normalized_items = <<>>
  BY DEF InitialState
<1> QED
  BY <1>1, EmptyOrder DEF CopyInv

\* The nodes that ask nobody keep the order, and go to the finalizer only
\* from the validator and without a review.
LEMMA NodeCopy ==
  ASSUME NEW s \in IngestionState, NEW seen, NEW n \in Nat
  PROVE  /\ CopyInv("chunker", s, seen) =>
              \A t \in ChunkerNode(s, n) : CopyInv(Edge("chunker", t), t, seen)
         /\ CopyInv("normalizer", s, seen) =>
              \A t \in NormalizerNode(s) : CopyInv(Edge("normalizer", t), t, seen)
         /\ CopyInv("validator", s, seen) =>
              CopyInv(Edge("validator", ValidatorNode(s)), ValidatorNode(s), seen)
<1>1. ASSUME CopyInv("chunker", s, seen), NEW t \in ChunkerNode(s, n)
      PROVE  CopyInv(Edge("chunker", t), t, seen)
  <2>1. t.normalized_items = <<>>
    BY <1>1 DEF CopyInv, ChunkerNode, Chunked, ChunkerFailed, IngestionState
  <2>2. Edge("chunker", t) = "normalizer"
    BY DEF Edge
  <2> QED
    BY <2>1, <2>2, EmptyOrder DEF CopyInv
<1>2. ASSUME CopyInv("normalizer", s, seen), NEW t \in NormalizerNode(s)
      PROVE  CopyInv(Edge("normalizer", t), t, seen)
  <2>1. OrderInv(s)
    BY <1>2 DEF CopyInv
  <2>2. ASSUME t.normalized_items = s.normalized_items,
               t.current_chunk_index = s.current_chunk_index + 1
        PROVE  OrderInv(t)
    <3>1. \A i \in DOMAIN s.normalized_items :
              \A item \in s.normalized_items[i] : item.chunk \in Nat
      BY DEF IngestionState, ServiceItem
    <3>2. s.current_chunk_index \in Nat
      BY DEF IngestionState
    <3> QED
      BY <2>1, <2>2, <3>1, <3>2 DEF OrderInv
  <2>3. OrderInv(t)
    <3>1. CASE t = NormalizerSkipped(s) \/ t = NormalizerFailed(s)
      BY <2>2, <3>1 DEF NormalizerSkipped, NormalizerFailed, IngestionState
    <3>2. CASE \E r \in Replies : t = Normalized(s, r)
      BY <2>1, <3>2, NormalizedOrder
    <3> QED
      BY <1>2, <3>1, <3>2 DEF NormalizerNode
  <2>4. Edge("normalizer", t) \in {"validator", "normalizer"}
    BY DEF Edge, RouteAfterNormalizer
  <2> QED
    BY <2>3, <2>4 DEF CopyInv
<1>3. ASSUME CopyInv("validator", s, seen)
      PROVE  CopyInv(Edge("validator", ValidatorNode(s)), ValidatorNode(s), seen)
  <2> DEFINE t == ValidatorNode(s)
  <2>1. /\ t.normalized_items = s.normalized_items
        /\ t.current_chunk_index = s.current_chunk_index
    BY DEF ValidatorNode, Validated, IngestionState
  <2>2. OrderInv(t)
    BY <1>3, <2>1 DEF CopyInv, OrderInv
  <2>3. /\ Edge("validator", t) \in {"approval", "finalizer"}
        /\ Edge("validator", t) = "finalizer" => ~NeedsReview(t)
    BY DEF Edge, RouteAfterValidator
  <2> QED
    BY <2>2, <2>3 DEF CopyInv
<1> QED
  BY <1>1, <1>2, <1>3

\* A decision changes neither the items nor the need for a review; approval
\* leads to the finalizer only if the decision was to approve.
LEMMA ReviewCopy ==
  ASSUME NEW s \in IngestionState, NEW seen, NEW d \in Decisions, OrderInv(s),
         d = "approve" => s.normalized_items \in seen
  PROVE  CopyInv(Edge("approval", ApprovalNode(s, d)), ApprovalNode(s, d), seen)
<1> DEFINE t == ApprovalNode(s, d)
<1>1. /\ t.normalized_items = s.normalized_items
      /\ t.current_chunk_index = s.current_chunk_index
      /\ t.approved = "True" => d = "approve"
  BY DEF ApprovalNode, IngestionState
<1>2. /\ Edge("approval", t) \in {"finalizer", "__end__"}
      /\ Edge("approval", t) = "finalizer" => t.approved = "True"
  BY DEF Edge, RouteAfterApproval
<1> QED
  BY <1>1, <1>2 DEF CopyInv, OrderInv

LEMMA FinalizerCopy ==
  ASSUME NEW s \in IngestionState, NEW seen, OrderInv(s),
         NEW t \in {FinalizerWrote(s), FinalizerFailed(s)}
  PROVE  CopyInv(Edge("finalizer", t), t, seen)
<1>1. /\ t.normalized_items = s.normalized_items
      /\ t.current_chunk_index = s.current_chunk_index
  BY DEF FinalizerWrote, FinalizerFailed, IngestionState
<1>2. Edge("finalizer", t) = "__end__"
  BY DEF Edge
<1> QED
  BY <1>1, <1>2 DEF CopyInv, OrderInv

\* The fields of an invocation that changes only its phase, of one replaced,
\* and of the others.
LEMMA RunFields ==
  ASSUME runs \in [Callers -> Runs], NEW c \in Callers
  PROVE  /\ \A p : SetPhase(c, p) =>
              /\ runs'[c] = [runs[c] EXCEPT !.phase = p]
              /\ runs'[c].phase = p
              /\ runs'[c].state = runs[c].state
              /\ runs'[c].next = runs[c].next
              /\ runs'[c].steps = runs[c].steps
              /\ runs'[c].resume = runs[c].resume
              /\ runs'[c].body = runs[c].body
              /\ \A d \in Callers \ {c} : runs'[d] = runs[d]
         /\ \A run : runs' = [runs EXCEPT ![c] = run] =>
              /\ runs'[c] = run
              /\ \A d \in Callers \ {c} : runs'[d] = runs[d]
  BY DEF SetPhase, Runs

LEMMA FreshFields ==
  ASSUME NEW p
  PROVE  /\ Fresh(p).phase = p /\ Fresh(p).state = InitialState
         /\ Fresh(p).next = "chunker" /\ Fresh(p).steps = 0
         /\ Fresh(p).resume = "none" /\ Fresh(p).body = "none"
  BY DEF Fresh

LEMMA ReturnedFields ==
  ASSUME NEW c, NEW s, NEW p
  PROVE  /\ Returned(c, s, p).phase = p
         /\ Returned(c, s, p).state = s
         /\ Returned(c, s, p).next = Edge(runs[c].next, s)
         /\ Returned(c, s, p).steps = runs[c].steps + 1
         /\ Returned(c, s, p).resume = "none"
         /\ Returned(c, s, p).body = runs[c].body
  BY DEF Returned

LEMMA CheckpointFields ==
  ASSUME NEW run
  PROVE  /\ CheckpointOf(run).saved = TRUE
         /\ CheckpointOf(run).state = run.state
         /\ CheckpointOf(run).next = run.next
  BY DEF CheckpointOf

\* CopiesInv survives a step that leaves every copy where it was or puts a
\* good one, or one that was there, in its place.
LEMMA CopiesKept ==
  ASSUME CopiesInv, approvals \subseteq approvals',
         \A c \in Callers :
            \/ /\ runs'[c].next = runs[c].next
               /\ runs'[c].state = runs[c].state
            \/ CopyInv(runs'[c].next, runs'[c].state, approvals'),
         \/ /\ checkpoint'.next = checkpoint.next
            /\ checkpoint'.state = checkpoint.state
         \/ CopyInv(checkpoint'.next, checkpoint'.state, approvals')
  PROVE  CopiesInv'
<1>1. CopyInv(checkpoint'.next, checkpoint'.state, approvals')
  BY CopyInvMonotone DEF CopiesInv
<1>2. \A c \in Callers : CopyInv(runs'[c].next, runs'[c].state, approvals')
  BY CopyInvMonotone DEF CopiesInv
<1> QED
  BY <1>1, <1>2 DEF CopiesInv

\* A run that only changes its phase.
LEMMA PhaseCopies ==
  ASSUME TypeOK, CopiesInv, NEW c \in Callers, NEW p, SetPhase(c, p),
         UNCHANGED <<checkpoint, approvals>>
  PROVE  CopiesInv'
<1>1. \A d \in Callers : /\ runs'[d].next = runs[d].next
                         /\ runs'[d].state = runs[d].state
  BY RunFields DEF TypeOK
<1> QED
  BY <1>1, CopiesKept

LEMMA SuperstepCopies ==
  ASSUME TypeOK, CopiesInv, NEW c \in Callers, NEW node, NEW s,
         Superstep(c, node, s), CopyInv(Edge(node, s), s, approvals)
  PROVE  CopiesInv'
<1> DEFINE run == Returned(c, s, "running")
<1>1. /\ runs[c].next = node /\ approvals' = approvals
      /\ runs' = [runs EXCEPT ![c] = run] /\ checkpoint' = CheckpointOf(run)
  BY DEF Superstep, At, histories
<1>2. CopyInv(run.next, run.state, approvals')
  BY <1>1, ReturnedFields
<1> HIDE DEF run
<1>3. \A d \in Callers \ {c} : runs'[d] = runs[d]
  BY <1>1, RunFields DEF TypeOK
<1>4. runs'[c] = run
  BY <1>1, RunFields DEF TypeOK
<1> QED
  BY <1>1, <1>2, <1>3, <1>4, CopiesKept, CheckpointFields

LEMMA ReturnCopies ==
  ASSUME TypeOK, CopiesInv, NEW c \in Callers, NEW s, Return(c, s),
         approvals \subseteq approvals', UNCHANGED checkpoint,
         CopyInv(Edge(runs[c].next, s), s, approvals')
  PROVE  CopiesInv'
<1> DEFINE run == Returned(c, s, "saving")
<1>1. runs' = [runs EXCEPT ![c] = run]
  BY DEF Return
<1>2. CopyInv(run.next, run.state, approvals')
  BY ReturnedFields
<1> HIDE DEF run
<1>3. runs'[c] = run /\ \A d \in Callers \ {c} : runs'[d] = runs[d]
  BY <1>1, RunFields DEF TypeOK
<1> QED
  BY <1>2, <1>3, CopiesKept

LEMMA GraphStepCopies ==
  ASSUME TypeOK, CopiesInv, NEW c \in Callers, GraphStep(c)
  PROVE  CopiesInv'
<1> DEFINE s == runs[c].state
<1>0. /\ s \in IngestionState /\ rows \in Nat
      /\ CopyInv(runs[c].next, s, approvals)
  BY StateOfRunType DEF CopiesInv
<1>1. CASE RunNode(c)
  <2>1. CASE \E t \in ChunkerNode(s, rows) : Superstep(c, "chunker", t)
    BY <1>0, <2>1, NodeCopy, SuperstepCopies DEF Superstep, At
  <2>2. CASE \E t \in NormalizerNode(s) : Superstep(c, "normalizer", t)
    BY <1>0, <2>2, NodeCopy, SuperstepCopies DEF Superstep, At
  <2>3. CASE Superstep(c, "validator", ValidatorNode(s))
    BY <1>0, <2>3, NodeCopy, SuperstepCopies DEF Superstep, At
  <2> QED
    BY <1>1, <2>1, <2>2, <2>3 DEF RunNode
<1>2. CASE RunApproval(c)
  <2>1. runs[c].resume \in Decisions /\ runs[c].next = "approval"
    BY <1>2, StateOfRunType DEF RunApproval, Runs, At
  <2>2. /\ approvals \subseteq approvals'
        /\ runs[c].resume = "approve" => s.normalized_items \in approvals'
    BY <1>2 DEF RunApproval
  <2>3. CopyInv(Edge(runs[c].next, ApprovalNode(s, runs[c].resume)),
                ApprovalNode(s, runs[c].resume), approvals')
    BY <1>0, <2>1, <2>2, ReviewCopy DEF CopyInv
  <2> QED
    BY <1>2, <2>2, <2>3, ReturnCopies DEF RunApproval
<1>3. CASE RunFinalizer(c)
  BY <1>0, <1>3, FinalizerCopy, ReturnCopies DEF RunFinalizer, CopyInv, At
<1>4. CASE SaveCheckpoint(c)
  <2>1. SetPhase(c, "running") /\ checkpoint' = CheckpointOf(runs[c])
        /\ approvals' = approvals
    BY <1>4 DEF SaveCheckpoint, histories
  <2>2. \A d \in Callers : /\ runs'[d].next = runs[d].next
                           /\ runs'[d].state = runs[d].state
    BY <2>1, RunFields DEF TypeOK
  <2>3. CopyInv(checkpoint'.next, checkpoint'.state, approvals')
    BY <1>0, <2>1, CheckpointFields
  <2> QED
    BY <2>1, <2>2, <2>3, CopiesKept
<1>5. CASE Suspend(c) \/ Finish(c) \/ ExceedRecursion(c) \/ Raise(c)
  BY <1>5, PhaseCopies DEF Suspend, Finish, ExceedRecursion, Raise, histories
<1> QED
  BY <1>1, <1>2, <1>3, <1>4, <1>5 DEF GraphStep

LEMMA InitCopies == Init => CopiesInv
  BY InitialCopy, FreshFields, CallersType DEF Init, CopiesInv

LEMMA NextCopies ==
  ASSUME TypeOK, CopiesInv, [Next]_vars
  PROVE  CopiesInv'
<1>1. ASSUME NEW c \in Callers, GraphStep(c) PROVE CopiesInv'
  BY <1>1, GraphStepCopies
<1>2. CASE EndStream \/ EndStreamUnasked \/ FailStream \/ Disconnect
  <2>1. SetPhase("stream", "over") /\ UNCHANGED <<checkpoint, approvals>>
    BY <1>2 DEF EndStream, EndStreamUnasked, FailStream, Disconnect, SendLast,
                histories
  <2> QED
    BY <2>1, PhaseCopies, CallersType
<1>3. ASSUME NEW r \in Reviewers, AnswerApproval(r) \/ FailApproval(r)
      PROVE  CopiesInv'
  <2>1. /\ runs' = [runs EXCEPT ![r] = Fresh("over")]
        /\ UNCHANGED <<checkpoint, approvals>>
    BY <1>3 DEF AnswerApproval, FailApproval, histories
  <2>2. /\ runs'[r] = Fresh("over")
        /\ \A d \in Callers \ {r} : runs'[d] = runs[d]
    BY <2>1, RunFields, CallersType DEF TypeOK
  <2> QED
    BY <2>1, <2>2, CopiesKept, FreshFields, InitialCopy
<1>4. CASE StartStream
  <2>1. SetPhase("stream", "running") /\ approvals' = approvals
        /\ checkpoint' = CheckpointOf(Fresh("running"))
    BY <1>4 DEF StartStream, histories
  <2>2. \A d \in Callers : /\ runs'[d].next = runs[d].next
                           /\ runs'[d].state = runs[d].state
    BY <2>1, RunFields, CallersType DEF TypeOK
  <2>3. CopyInv(checkpoint'.next, checkpoint'.state, approvals')
    <3>1. /\ Fresh("running").next = "chunker"
          /\ Fresh("running").state = InitialState
      BY FreshFields
    <3>2. checkpoint'.next = "chunker" /\ checkpoint'.state = InitialState
      BY <2>1, <3>1, CheckpointFields
    <3> QED
      BY <3>2, InitialCopy
  <2> QED
    BY <2>1, <2>2, <2>3, CopiesKept
<1>5. ASSUME NEW r \in Reviewers, NEW d \in Decisions, RequestApproval(r, d)
      PROVE  CopiesInv'
  <2>1. /\ runs'[r].next = checkpoint.next /\ runs'[r].state = checkpoint.state
        /\ \A e \in Callers \ {r} : runs'[e] = runs[e]
        /\ UNCHANGED <<checkpoint, approvals>>
    BY <1>5, CallersType DEF RequestApproval, TypeOK
  <2> QED
    BY <2>1, CopiesKept DEF CopiesInv
<1>6. CASE CrashApi
  <2>1. UNCHANGED <<checkpoint, approvals>>
    BY <1>6 DEF CrashApi, histories
  <2>2. ASSUME NEW c \in Callers
        PROVE  \/ /\ runs'[c].next = runs[c].next
                  /\ runs'[c].state = runs[c].state
               \/ runs'[c] = Fresh("over")
    <3>1. [runs[c] EXCEPT !.phase = "over"].next = runs[c].next
          /\ [runs[c] EXCEPT !.phase = "over"].state = runs[c].state
      BY DEF TypeOK, Runs
    <3> QED
      BY <1>6, <3>1 DEF CrashApi
  <2>3. ASSUME NEW c \in Callers
        PROVE  \/ /\ runs'[c].next = runs[c].next
                  /\ runs'[c].state = runs[c].state
               \/ CopyInv(runs'[c].next, runs'[c].state, approvals')
    BY <2>2, FreshFields, InitialCopy
  <2> QED
    BY <2>1, <2>3, CopiesKept
<1>7. CASE UNCHANGED vars
  BY <1>7 DEF vars, histories, CopiesInv
<1> QED
  BY <1>1, <1>2, <1>3, <1>4, <1>5, <1>6, <1>7 DEF Next, ApiStep, ClientStep

LEMMA CopiesCorrect == Spec => [](TypeOK /\ CopiesInv)
<1>1. TypeOK /\ CopiesInv /\ [Next]_vars => CopiesInv'
  BY NextCopies
<1> QED
  BY <1>1, TypeCorrect, InitCopies, PTL DEF Spec

\* No row is normalized into the batch twice, whatever is repeated, resumed,
\* lost or run beside another invocation.
THEOREM ChunksOnce == Spec => []EachChunkOnce
<1>1. CopiesInv => EachChunkOnce
  BY DEF CopiesInv, CopyInv, OrderInv, EachChunkOnce, LiveStates
<1> QED
  BY <1>1, CopiesCorrect, PTL

LEMMA NextApproved ==
  ASSUME CopiesInv, WritesAreApproved, [Next]_vars
  PROVE  WritesAreApproved'
<1>1. CASE UNCHANGED writes /\ approvals \subseteq approvals'
  BY <1>1 DEF WritesAreApproved
<1>2. ASSUME NEW c \in Callers, RunFinalizer(c) PROVE WritesAreApproved'
  <2>1. NeedsReview(runs[c].state) => runs[c].state.normalized_items \in approvals
    BY <1>2 DEF RunFinalizer, At, CopiesInv, CopyInv
  <2>2. approvals' = approvals
    BY <1>2 DEF RunFinalizer
  <2>3. ASSUME NEW w \in writes', w.reviewed PROVE w.items \in approvals'
    <3>1. CASE w \in writes
      BY <2>2, <2>3, <3>1 DEF WritesAreApproved
    <3>2. CASE w \notin writes
      BY <1>2, <2>1, <2>2, <2>3, <3>2 DEF RunFinalizer
    <3> QED
      BY <3>1, <3>2
  <2> QED
    BY <2>3 DEF WritesAreApproved
<1>3. ASSUME NEW c \in Callers, GraphStep(c), ~RunFinalizer(c)
      PROVE  UNCHANGED writes /\ approvals \subseteq approvals'
  BY <1>3 DEF GraphStep, RunNode, Superstep, RunApproval, Suspend,
              SaveCheckpoint, Finish, ExceedRecursion, Raise, histories
<1>4. ASSUME NEW r \in Reviewers, AnswerApproval(r) \/ FailApproval(r)
      PROVE  UNCHANGED <<writes, approvals>>
  BY <1>4 DEF AnswerApproval, FailApproval, histories
<1>5. ASSUME NEW r \in Reviewers, NEW d \in Decisions, RequestApproval(r, d)
      PROVE  UNCHANGED <<writes, approvals>>
  BY <1>5 DEF RequestApproval
<1>6. CASE \/ EndStream \/ EndStreamUnasked \/ FailStream \/ Disconnect
           \/ StartStream \/ CrashApi \/ UNCHANGED vars
  BY <1>1, <1>6 DEF EndStream, EndStreamUnasked, FailStream, Disconnect,
                    StartStream, CrashApi, vars, histories
<1> QED
  BY <1>1, <1>2, <1>3, <1>4, <1>5, <1>6 DEF Next, ApiStep, ClientStep

\* What needed a review is written only after the approval of exactly this
\* list reached the graph.
THEOREM ApprovedWrites == Spec => []WritesAreApproved
<1>1. Init => WritesAreApproved
  BY DEF Init, WritesAreApproved
<1>2. CopiesInv /\ WritesAreApproved /\ [Next]_vars => WritesAreApproved'
  BY NextApproved
<1> QED
  BY <1>1, <1>2, CopiesCorrect, PTL DEF Spec

-----------------------------------------------------------------------------
(* The supersteps of an invocation *)

\* The bounds of the loop over the chunks, in a state about to enter "next",
\* for a file of n rows.
LoopInv(next, s, n) ==
    /\ s.raw_chunks <= ChunkCount(n)
    /\ next = "chunker" => s.current_chunk_index = 0
    /\ next = "normalizer" => \/ s.current_chunk_index = 0
                              \/ s.current_chunk_index < s.raw_chunks

\* What a run that takes "most" supersteps from the start has left.
StepsInv(run, most) ==
    /\ run.resume # "none" => run.steps = 0
    /\ run.next = "chunker" => run.steps = 0
    /\ run.next = "normalizer" => run.steps <= run.state.current_chunk_index + 1
    /\ run.next = "validator" => run.steps <= most - 2
    /\ run.next \in {"approval", "finalizer"} => run.steps <= most - 1

BudgetInv ==
    /\ LoopInv(checkpoint.next, checkpoint.state, rows)
    /\ \A c \in Callers : /\ LoopInv(runs[c].next, runs[c].state, rows)
                          /\ StepsInv(runs[c], LargestRun)
    /\ ExhaustedOnlyByLargeFiles

LEMMA LargestRunType ==
  ASSUME TypeOK
  PROVE  /\ ChunkCount(rows) \in Nat
         /\ LargestRun \in Nat /\ LargestRun >= 4
         /\ LargestRun >= ChunkCount(rows) + 3
<1>1. rows \in Nat
  BY DEF TypeOK
<1>2. ChunkCount(rows) \in Nat
  BY <1>1, ChunkCountType
<1> QED
  BY <1>2 DEF LargestRun

\* Each node of the stream takes one superstep of those LargestRun counts.
LEMMA NodeBudget ==
  ASSUME NEW s \in IngestionState, NEW n \in Nat, NEW most \in Nat,
         most >= 4, most >= ChunkCount(n) + 3,
         NEW steps \in Nat
  PROVE  /\ LoopInv("chunker", s, n) /\ steps = 0 =>
              \A t \in ChunkerNode(s, n) :
                 /\ LoopInv("normalizer", t, n)
                 /\ steps + 1 <= t.current_chunk_index + 1
         /\ LoopInv("normalizer", s, n) /\ steps <= s.current_chunk_index + 1 =>
              \A t \in NormalizerNode(s) :
                 /\ LoopInv(Edge("normalizer", t), t, n)
                 /\ Edge("normalizer", t) = "normalizer" =>
                       steps + 1 <= t.current_chunk_index + 1
                 /\ Edge("normalizer", t) # "normalizer" =>
                       /\ Edge("normalizer", t) = "validator"
                       /\ steps + 1 <= most - 2
<1>0. ChunkCount(n) \in Nat
  BY ChunkCountType
<1>1. ASSUME LoopInv("chunker", s, n), steps = 0, NEW t \in ChunkerNode(s, n)
      PROVE  /\ LoopInv("normalizer", t, n)
             /\ steps + 1 <= t.current_chunk_index + 1
  <2>1. t.current_chunk_index = 0 /\ t.raw_chunks \in {0, ChunkCount(n)}
    BY <1>1 DEF ChunkerNode, Chunked, ChunkerFailed, IngestionState, LoopInv
  <2> QED
    BY <1>0, <1>1, <2>1 DEF LoopInv
<1>2. ASSUME LoopInv("normalizer", s, n), steps <= s.current_chunk_index + 1,
             NEW t \in NormalizerNode(s)
      PROVE  /\ LoopInv(Edge("normalizer", t), t, n)
             /\ Edge("normalizer", t) = "normalizer" =>
                   steps + 1 <= t.current_chunk_index + 1
             /\ Edge("normalizer", t) # "normalizer" =>
                   /\ Edge("normalizer", t) = "validator"
                   /\ steps + 1 <= most - 2
  <2> DEFINE i == s.current_chunk_index
             k == s.raw_chunks
  <2>1. i \in Nat /\ k \in Nat /\ k <= ChunkCount(n) /\ (i = 0 \/ i < k)
    BY <1>2 DEF LoopInv, IngestionState
  <2>2. t.current_chunk_index = i + 1 /\ t.raw_chunks = k
    BY <1>2 DEF NormalizerNode, NormalizerSkipped, NormalizerFailed,
                Normalized, IngestionState
  <2>3. CASE i + 1 >= k
    <3>1. Edge("normalizer", t) = "validator"
      BY <2>2, <2>3 DEF Edge, RouteAfterNormalizer, OutOfRange
    <3>2. steps + 1 <= most - 2
      <4>1. i + 1 <= most - 3
        BY <1>0, <2>1
      <4> HIDE DEF i, k
      <4> QED
        BY <1>2, <2>1, <4>1 DEF i
    <3> QED
      BY <2>1, <2>2, <3>1, <3>2 DEF LoopInv
  <2>4. CASE ~(i + 1 >= k)
    <3>1. Edge("normalizer", t) = "normalizer"
      BY <2>2, <2>4 DEF Edge, RouteAfterNormalizer, OutOfRange
    <3>2. i + 1 < k
      BY <2>1, <2>4
    <3> QED
      BY <1>2, <2>1, <2>2, <3>1, <3>2 DEF LoopInv
  <2> QED
    BY <2>3, <2>4
<1> QED
  BY <1>1, <1>2

\* BudgetInv survives a step that leaves the file, and every copy where it was
\* or puts a good one in its place.
LEMMA BudgetKept ==
  ASSUME BudgetInv, rows' = rows,
         \/ /\ checkpoint'.next = checkpoint.next
            /\ checkpoint'.state = checkpoint.state
         \/ LoopInv(checkpoint'.next, checkpoint'.state, rows),
         \A c \in Callers :
            \/ runs'[c] = runs[c]
            \/ /\ LoopInv(runs'[c].next, runs'[c].state, rows)
               /\ StepsInv(runs'[c], LargestRun)
               /\ runs'[c].phase = "exhausted" => LargestRun > RecursionLimit
  PROVE  BudgetInv'
<1>1. LargestRun' = LargestRun
  BY DEF LargestRun
<1>2. LoopInv(checkpoint'.next, checkpoint'.state, rows')
  BY DEF BudgetInv
<1>3. ASSUME NEW c \in Callers
      PROVE  /\ LoopInv(runs'[c].next, runs'[c].state, rows')
             /\ StepsInv(runs'[c], LargestRun)
             /\ runs'[c].phase = "exhausted" => LargestRun > RecursionLimit
  BY DEF BudgetInv, ExhaustedOnlyByLargeFiles
<1> QED
  BY <1>1, <1>2, <1>3 DEF BudgetInv, ExhaustedOnlyByLargeFiles

\* A run that only changes its phase, and is not exhausted too early.
LEMMA PhaseBudget ==
  ASSUME TypeOK, BudgetInv, NEW c \in Callers, NEW p, SetPhase(c, p),
         p = "exhausted" => LargestRun > RecursionLimit,
         UNCHANGED <<rows, checkpoint>>
  PROVE  BudgetInv'
<1>1. /\ runs'[c].phase = p /\ runs'[c].state = runs[c].state
      /\ runs'[c].next = runs[c].next /\ runs'[c].steps = runs[c].steps
      /\ runs'[c].resume = runs[c].resume
      /\ \A d \in Callers \ {c} : runs'[d] = runs[d]
  BY RunFields DEF TypeOK
<1>2. /\ LoopInv(runs[c].next, runs[c].state, rows)
      /\ StepsInv(runs[c], LargestRun)
  BY DEF BudgetInv
<1>3. /\ LoopInv(runs'[c].next, runs'[c].state, rows)
      /\ StepsInv(runs'[c], LargestRun)
  BY <1>1, <1>2 DEF StepsInv
<1> QED
  BY <1>1, <1>3, BudgetKept

LEMMA FreshBudget ==
  ASSUME TypeOK, NEW p
  PROVE  /\ LoopInv("chunker", InitialState, rows)
         /\ LoopInv(Fresh(p).next, Fresh(p).state, rows)
         /\ StepsInv(Fresh(p), LargestRun)
<1>1. ChunkCount(rows) \in Nat
  BY LargestRunType
<1>2. InitialState.raw_chunks = 0 /\ InitialState.current_chunk_index = 0
  BY DEF InitialState
<1>3. LoopInv("chunker", InitialState, rows)
  BY <1>1, <1>2 DEF LoopInv
<1> QED
  BY <1>3, FreshFields DEF StepsInv

\* A node returned t, and the run is where its edge leads.
LEMMA ReturnedBudget ==
  ASSUME TypeOK, BudgetInv, NEW c \in Callers, NEW t, NEW p \in Phases,
         p # "exhausted", runs' = [runs EXCEPT ![c] = Returned(c, t, p)],
         rows' = rows,
         \/ checkpoint' = checkpoint
         \/ checkpoint' = CheckpointOf(Returned(c, t, p)),
         LoopInv(Edge(runs[c].next, t), t, rows),
         StepsInv(Returned(c, t, p), LargestRun)
  PROVE  BudgetInv'
<1> DEFINE run == Returned(c, t, p)
<1>1. runs'[c] = run /\ \A d \in Callers \ {c} : runs'[d] = runs[d]
  BY RunFields DEF TypeOK
<1>2. run.phase = p /\ LoopInv(run.next, run.state, rows)
  BY ReturnedFields
<1> HIDE DEF run
<1>3. \/ checkpoint' = checkpoint
      \/ LoopInv(checkpoint'.next, checkpoint'.state, rows)
  BY <1>2, CheckpointFields DEF run
<1>4. StepsInv(run, LargestRun)
  BY DEF run
<1> QED
  BY <1>1, <1>2, <1>3, <1>4, BudgetKept

\* The node of the loop has run.
LEMMA LoopBudget ==
  ASSUME TypeOK, BudgetInv, NEW c \in Callers, RunNode(c)
  PROVE  BudgetInv'
<1> DEFINE s == runs[c].state
           steps == runs[c].steps
           most == LargestRun
<1>0. /\ s \in IngestionState /\ rows \in Nat /\ steps \in Nat
      /\ LoopInv(runs[c].next, s, rows) /\ StepsInv(runs[c], most)
  BY StateOfRunType DEF BudgetInv, Runs
<1>1. /\ most \in Nat /\ most >= 4 /\ most >= ChunkCount(rows) + 3
  BY LargestRunType
<1>2. ASSUME NEW node, NEW t, Superstep(c, node, t),
             LoopInv(Edge(node, t), t, rows),
             StepsInv(Returned(c, t, "running"), most)
      PROVE  BudgetInv'
  BY <1>2, ReturnedBudget DEF Superstep, At, Phases
<1>3. ASSUME NEW t \in ChunkerNode(s, rows), Superstep(c, "chunker", t)
      PROVE  BudgetInv'
  <2>1. runs[c].next = "chunker" /\ Edge("chunker", t) = "normalizer"
    BY <1>3 DEF Superstep, At, Edge
  <2>2. steps = 0
    BY <1>0, <2>1 DEF StepsInv
  <2>3. LoopInv("normalizer", t, rows) /\ steps + 1 <= t.current_chunk_index + 1
    BY <1>0, <1>1, <2>1, <2>2, NodeBudget
  <2>4. StepsInv(Returned(c, t, "running"), most)
    BY <2>1, <2>3, ReturnedFields DEF StepsInv
  <2> QED
    BY <1>2, <1>3, <2>1, <2>3, <2>4
<1>4. ASSUME NEW t \in NormalizerNode(s), Superstep(c, "normalizer", t)
      PROVE  BudgetInv'
  <2>1. runs[c].next = "normalizer"
    BY <1>4 DEF Superstep, At
  <2>2. steps <= s.current_chunk_index + 1
    BY <1>0, <2>1 DEF StepsInv
  <2>3. /\ LoopInv(Edge("normalizer", t), t, rows)
        /\ Edge("normalizer", t) = "normalizer" =>
              steps + 1 <= t.current_chunk_index + 1
        /\ Edge("normalizer", t) # "normalizer" =>
              /\ Edge("normalizer", t) = "validator"
              /\ steps + 1 <= most - 2
    BY <1>0, <1>1, <2>1, <2>2, NodeBudget
  <2>4. StepsInv(Returned(c, t, "running"), most)
    BY <2>1, <2>3, ReturnedFields DEF StepsInv
  <2> QED
    BY <1>2, <1>4, <2>3, <2>4
<1>5. ASSUME Superstep(c, "validator", ValidatorNode(s)) PROVE BudgetInv'
  <2> DEFINE t == ValidatorNode(s)
  <2>1. runs[c].next = "validator" /\ t.raw_chunks = s.raw_chunks
    BY <1>0, <1>5 DEF Superstep, At, ValidatorNode, Validated, IngestionState
  <2>2. Edge("validator", t) \in {"approval", "finalizer"}
    BY DEF Edge, RouteAfterValidator
  <2>3. LoopInv(Edge("validator", t), t, rows)
    BY <1>0, <2>1, <2>2 DEF LoopInv
  <2>4. steps <= most - 2
    BY <1>0, <2>1 DEF StepsInv
  <2>5. steps + 1 <= most - 1
    BY <1>0, <1>1, <2>4
  <2> HIDE DEF t, most, steps
  <2>6. StepsInv(Returned(c, t, "running"), most)
    BY <2>1, <2>2, <2>5, ReturnedFields DEF StepsInv, steps
  <2> QED
    BY <1>2, <1>5, <2>3, <2>6 DEF t
<1> QED
  BY <1>3, <1>4, <1>5 DEF RunNode

LEMMA GraphStepBudget ==
  ASSUME TypeOK, BudgetInv, NEW c \in Callers, GraphStep(c)
  PROVE  BudgetInv'
<1> DEFINE s == runs[c].state
           most == LargestRun
<1>0. /\ s \in IngestionState /\ runs[c].steps \in Nat
      /\ runs[c].next \in Nodes \cup {"__end__"}
      /\ LoopInv(runs[c].next, s, rows) /\ StepsInv(runs[c], most)
  BY StateOfRunType DEF BudgetInv, Runs
<1>1. /\ most \in Nat /\ most >= 4 /\ most >= ChunkCount(rows) + 3
      /\ ChunkCount(rows) \in Nat
  BY LargestRunType
<1>2. CASE RunApproval(c)
  <2> DEFINE t == ApprovalNode(s, runs[c].resume)
             run == Returned(c, t, "saving")
  <2>1. /\ runs[c].next = "approval" /\ runs[c].resume # "none"
        /\ runs' = [runs EXCEPT ![c] = run]
        /\ UNCHANGED <<rows, checkpoint>>
    BY <1>2 DEF RunApproval, At, Return
  <2>2. runs[c].steps = 0
    BY <1>0, <2>1 DEF StepsInv
  <2>3. t.raw_chunks = s.raw_chunks
    BY <1>0 DEF ApprovalNode, IngestionState
  <2>4. Edge("approval", t) \in {"finalizer", "__end__"}
    BY DEF Edge, RouteAfterApproval
  <2>5. LoopInv(Edge(runs[c].next, t), t, rows)
    BY <1>0, <2>1, <2>3, <2>4 DEF LoopInv
  <2>6. run.steps = 1 /\ run.resume = "none" /\ run.next = Edge("approval", t)
    BY <2>1, <2>2, ReturnedFields
  <2> HIDE DEF t, run, most
  <2>7. StepsInv(run, most)
    BY <1>1, <2>4, <2>6 DEF StepsInv
  <2> QED
    BY <2>1, <2>5, <2>7, ReturnedBudget DEF run, most, Phases
<1>3. CASE RunFinalizer(c)
  <2>1. PICK t \in {FinalizerWrote(s), FinalizerFailed(s)} : Return(c, t)
    BY <1>3 DEF RunFinalizer
  <2>2. runs[c].next = "finalizer" /\ UNCHANGED <<rows, checkpoint>>
    BY <1>3 DEF RunFinalizer, At
  <2>3. Edge(runs[c].next, t) = "__end__" /\ t.raw_chunks = s.raw_chunks
    BY <1>0, <2>2 DEF Edge, FinalizerWrote, FinalizerFailed, IngestionState
  <2>4. LoopInv(Edge(runs[c].next, t), t, rows)
    BY <1>0, <2>3 DEF LoopInv
  <2>5. StepsInv(Returned(c, t, "saving"), most)
    BY <2>3, ReturnedFields DEF StepsInv
  <2> QED
    BY <2>1, <2>2, <2>4, <2>5, ReturnedBudget DEF Return, Phases
<1>4. CASE SaveCheckpoint(c)
  <2>1. /\ SetPhase(c, "running") /\ checkpoint' = CheckpointOf(runs[c])
        /\ rows' = rows
    BY <1>4 DEF SaveCheckpoint
  <2>2. /\ runs'[c].phase = "running" /\ runs'[c].state = runs[c].state
        /\ runs'[c].next = runs[c].next /\ runs'[c].steps = runs[c].steps
        /\ runs'[c].resume = runs[c].resume
        /\ \A d \in Callers \ {c} : runs'[d] = runs[d]
    BY <2>1, RunFields DEF TypeOK
  <2>3. /\ LoopInv(runs'[c].next, runs'[c].state, rows)
        /\ StepsInv(runs'[c], most)
    BY <1>0, <2>2 DEF StepsInv
  <2>4. LoopInv(checkpoint'.next, checkpoint'.state, rows)
    BY <1>0, <2>1, CheckpointFields
  <2> QED
    BY <2>1, <2>2, <2>3, <2>4, BudgetKept
<1>5. CASE ExceedRecursion(c)
  <2>1. /\ runs[c].next # "__end__" /\ runs[c].steps = RecursionLimit
        /\ SetPhase(c, "exhausted") /\ UNCHANGED <<rows, checkpoint>>
    BY <1>5 DEF ExceedRecursion
  <2>2. s.current_chunk_index \in Nat /\ s.raw_chunks \in Nat
    BY <1>0 DEF IngestionState
  <2>3. runs[c].steps <= most - 1
    <3>1. CASE runs[c].next = "chunker"
      BY <1>0, <1>1, <3>1 DEF StepsInv
    <3>2. CASE runs[c].next = "normalizer"
      <4>1. /\ runs[c].steps <= s.current_chunk_index + 1
            /\ s.current_chunk_index = 0 \/ s.current_chunk_index < s.raw_chunks
            /\ s.raw_chunks <= ChunkCount(rows)
        BY <1>0, <3>2 DEF StepsInv, LoopInv
      <4> HIDE DEF s, most
      <4> QED
        BY <1>0, <1>1, <2>2, <4>1
    <3>3. CASE runs[c].next = "validator"
      BY <1>0, <1>1, <3>3 DEF StepsInv
    <3>4. CASE runs[c].next \in {"approval", "finalizer"}
      BY <1>0, <3>4 DEF StepsInv
    <3> QED
      BY <1>0, <2>1, <3>1, <3>2, <3>3, <3>4 DEF Nodes
  <2>4. LargestRun > RecursionLimit
    <3> RecursionLimit \in Nat
      OBVIOUS
    <3> QED
      BY <1>1, <2>1, <2>3
  <2> QED
    BY <2>1, <2>4, PhaseBudget
<1>6. CASE Suspend(c) \/ Finish(c) \/ Raise(c)
  BY <1>6, PhaseBudget DEF Suspend, Finish, Raise
<1> QED
  BY <1>2, <1>3, <1>4, <1>5, <1>6, LoopBudget DEF GraphStep

LEMMA InitBudget == Init /\ TypeOK => BudgetInv
<1> SUFFICES ASSUME Init, TypeOK PROVE BudgetInv
  OBVIOUS
<1>1. \A c \in Callers : runs[c] = Fresh("idle")
  BY DEF Init
<1>2. checkpoint.next = "chunker" /\ checkpoint.state = InitialState
  BY DEF Init
<1> QED
  BY <1>1, <1>2, FreshBudget, FreshFields
     DEF BudgetInv, ExhaustedOnlyByLargeFiles

LEMMA NextBudget ==
  ASSUME TypeOK, BudgetInv, [Next]_vars
  PROVE  BudgetInv'
<1>1. ASSUME NEW c \in Callers, GraphStep(c) PROVE BudgetInv'
  BY <1>1, GraphStepBudget
<1>2. CASE EndStream \/ EndStreamUnasked \/ FailStream \/ Disconnect
  <2>1. SetPhase("stream", "over") /\ UNCHANGED <<rows, checkpoint>>
    BY <1>2 DEF EndStream, EndStreamUnasked, FailStream, Disconnect, SendLast
  <2> QED
    BY <2>1, PhaseBudget, CallersType
<1>3. ASSUME NEW r \in Reviewers, AnswerApproval(r) \/ FailApproval(r)
      PROVE  BudgetInv'
  <2>1. /\ runs' = [runs EXCEPT ![r] = Fresh("over")]
        /\ UNCHANGED <<rows, checkpoint>>
    BY <1>3 DEF AnswerApproval, FailApproval
  <2>2. /\ runs'[r] = Fresh("over")
        /\ \A d \in Callers \ {r} : runs'[d] = runs[d]
    BY <2>1, RunFields, CallersType DEF TypeOK
  <2> QED
    BY <2>1, <2>2, BudgetKept, FreshBudget, FreshFields
<1>4. CASE StartStream
  <2>1. /\ SetPhase("stream", "running") /\ rows' = rows
        /\ checkpoint' = CheckpointOf(Fresh("running"))
    BY <1>4 DEF StartStream
  <2>2. LoopInv(checkpoint'.next, checkpoint'.state, rows)
    BY <2>1, CheckpointFields, FreshBudget
  <2>3. /\ runs'["stream"].phase = "running"
        /\ runs'["stream"].state = runs["stream"].state
        /\ runs'["stream"].next = runs["stream"].next
        /\ runs'["stream"].steps = runs["stream"].steps
        /\ runs'["stream"].resume = runs["stream"].resume
        /\ \A d \in Callers \ {"stream"} : runs'[d] = runs[d]
    BY <2>1, RunFields, CallersType DEF TypeOK
  <2>4. /\ LoopInv(runs["stream"].next, runs["stream"].state, rows)
        /\ StepsInv(runs["stream"], LargestRun)
    BY CallersType DEF BudgetInv
  <2>5. /\ LoopInv(runs'["stream"].next, runs'["stream"].state, rows)
        /\ StepsInv(runs'["stream"], LargestRun)
    BY <2>3, <2>4 DEF StepsInv
  <2> QED
    BY <2>1, <2>2, <2>3, <2>5, BudgetKept
<1>5. ASSUME NEW r \in Reviewers, NEW d \in Decisions, RequestApproval(r, d)
      PROVE  BudgetInv'
  <2>1. /\ runs'[r].next = checkpoint.next /\ runs'[r].state = checkpoint.state
        /\ runs'[r].steps = 0 /\ runs'[r].phase = "running"
        /\ \A e \in Callers \ {r} : runs'[e] = runs[e]
        /\ UNCHANGED <<rows, checkpoint>>
    BY <1>5, CallersType DEF RequestApproval, TypeOK
  <2>2. /\ LoopInv(runs'[r].next, runs'[r].state, rows)
        /\ runs'[r].state.current_chunk_index \in Nat
    BY <2>1, StateOfRunType, CallersType DEF BudgetInv, IngestionState
  <2>3. StepsInv(runs'[r], LargestRun)
    BY <2>1, <2>2, LargestRunType DEF StepsInv
  <2> QED
    BY <2>1, <2>2, <2>3, BudgetKept
<1>6. CASE CrashApi
  <2>1. UNCHANGED <<rows, checkpoint>>
    BY <1>6 DEF CrashApi
  <2>2. ASSUME NEW c \in Callers
        PROVE  \/ runs'[c] = runs[c]
               \/ /\ LoopInv(runs'[c].next, runs'[c].state, rows)
                  /\ StepsInv(runs'[c], LargestRun)
                  /\ runs'[c].phase = "over"
    <3> DEFINE gone == [runs[c] EXCEPT !.phase = "over"]
    <3>1. /\ gone.next = runs[c].next /\ gone.state = runs[c].state
          /\ gone.steps = runs[c].steps /\ gone.resume = runs[c].resume
          /\ gone.phase = "over"
      BY DEF TypeOK, Runs
    <3>2. runs'[c] \in {runs[c], gone, Fresh("over")}
      BY <1>6 DEF CrashApi
    <3> HIDE DEF gone
    <3>3. /\ LoopInv(gone.next, gone.state, rows)
          /\ StepsInv(gone, LargestRun)
      BY <3>1 DEF StepsInv, BudgetInv
    <3> QED
      BY <3>1, <3>2, <3>3, FreshBudget, FreshFields
  <2> QED
    BY <2>1, <2>2, BudgetKept
<1>7. CASE UNCHANGED vars
  BY <1>7, BudgetKept DEF vars
<1> QED
  BY <1>1, <1>2, <1>3, <1>4, <1>5, <1>6, <1>7 DEF Next, ApiStep, ClientStep

\* The recursion limit ends only runs over files with too many chunks for it.
THEOREM EnoughSupersteps == Spec => []ExhaustedOnlyByLargeFiles
<1>1. TypeOK /\ BudgetInv /\ [Next]_vars => BudgetInv'
  BY NextBudget
<1>2. BudgetInv => ExhaustedOnlyByLargeFiles
  BY DEF BudgetInv
<1> QED
  BY <1>1, <1>2, TypeCorrect, InitType, InitBudget, PTL DEF Spec

-----------------------------------------------------------------------------
(* What the reviewers saw *)

\* Where a suspended thread may be and go.
Late == {"approval", "finalizer", "__end__"}

\* Without haste the reviewed list is the one shown, in the checkpoint and in
\* every invocation on it.
ShownInv ==
    /\ event.kind = "interrupt" =>
         /\ checkpoint.next \in Late
         /\ checkpoint.state.normalized_items \in shown
    /\ \A r \in Reviewers : Active(r) =>
         /\ event.kind = "interrupt"
         /\ runs[r].next \in Late
         /\ runs[r].state.normalized_items \in shown
    /\ approvals \subseteq shown

SeenInv ==
    /\ runs["stream"].resume = "none"
    /\ event.kind # "none" => runs["stream"].phase = "over"
    /\ ~hasty => ShownInv

\* Without haste an invocation for a reviewer runs nothing before the review.
LEMMA ReviewersAreLate ==
  ASSUME ~hasty, SeenInv, NEW r \in Reviewers, Active(r)
  PROVE  /\ event.kind = "interrupt"
         /\ ~RunNode(r)
  BY DEF SeenInv, ShownInv, RunNode, Superstep, At, Late

LEMMA StreamAlone ==
  ASSUME runs \in [Callers -> Runs], NEW p, SetPhase("stream", p)
  PROVE  \A r \in Reviewers : runs'[r] = runs[r]
<1>1. ASSUME NEW r \in Reviewers PROVE r \in Callers \ {"stream"}
  BY IngestionServiceAssumption DEF Callers
<1> QED
  BY <1>1 DEF SetPhase

\* What ShownInv asks of one invocation.
ShownRun(run, lists) ==
    /\ run.next \in Late
    /\ run.state.normalized_items \in lists

\* ShownInv survives, while the event asks for a review, a step that puts
\* only shown lists where they count.
LEMMA ShownKept ==
  ASSUME ShownInv, event' = event, shown' = shown,
         approvals' \subseteq shown,
         \/ checkpoint' = checkpoint
         \/ event.kind # "interrupt"
         \/ ShownRun(checkpoint', shown),
         \A r \in Reviewers :
            \/ runs'[r] = runs[r]
            \/ ~Active(r)'
            \/ event.kind = "interrupt" /\ ShownRun(runs'[r], shown)
  PROVE  ShownInv'
<1>1. ASSUME NEW r \in Reviewers, Active(r)'
      PROVE  /\ event'.kind = "interrupt"
             /\ runs'[r].next \in Late
             /\ runs'[r].state.normalized_items \in shown'
  <2>1. CASE runs'[r] = runs[r]
    <3>1. Active(r)
      BY <1>1, <2>1 DEF Active
    <3> QED
      BY <2>1, <3>1 DEF ShownInv
  <2>2. CASE event.kind = "interrupt" /\ ShownRun(runs'[r], shown)
    BY <2>2 DEF ShownRun
  <2> QED
    BY <1>1, <2>1, <2>2
<1>2. event'.kind = "interrupt" =>
        /\ checkpoint'.next \in Late
        /\ checkpoint'.state.normalized_items \in shown'
  BY DEF ShownInv, ShownRun
<1> QED
  BY <1>1, <1>2 DEF ShownInv

\* The stream's own steps: before its last event no reviewer is active.
LEMMA StreamShown ==
  ASSUME SeenInv, ~hasty, event.kind = "none", shown' = shown,
         approvals' = approvals, event'.kind # "interrupt",
         \A r \in Reviewers : runs'[r] = runs[r] \/ ~Active(r)'
  PROVE  ShownInv'
<1>1. \A r \in Reviewers : ~Active(r)
  BY DEF SeenInv, ShownInv
<1>2. \A r \in Reviewers : ~Active(r)'
  BY <1>1 DEF Active
<1> QED
  BY <1>2 DEF SeenInv, ShownInv

LEMMA ReturnedShown ==
  ASSUME NEW c, NEW t, NEW p, NEW lists,
         Edge(runs[c].next, t) \in Late,
         t.normalized_items \in lists
  PROVE  ShownRun(Returned(c, t, p), lists)
  BY ReturnedFields DEF ShownRun

LEMMA GraphStepShown ==
  ASSUME TypeOK, SeenInv, ~hasty, NEW c \in Callers, GraphStep(c)
  PROVE  ShownInv'
<1>0. /\ runs[c].state \in IngestionState /\ runs[c] \in Runs
      /\ runs \in [Callers -> Runs] /\ ShownInv
  BY StateOfRunType DEF TypeOK, SeenInv
<1>1. Active(c) /\ event' = event /\ shown' = shown
      /\ (approvals' = approvals \/ RunApproval(c))
      /\ \A d \in Callers \ {c} : runs'[d] = runs[d]
  <2>1. Active(c) /\ event' = event /\ shown' = shown
        /\ (approvals' = approvals \/ RunApproval(c))
    BY DEF GraphStep, RunNode, Superstep, RunApproval, Suspend, RunFinalizer,
           SaveCheckpoint, Finish, ExceedRecursion, Raise, At, Active, histories
  <2>2. \A d \in Callers \ {c} : runs'[d] = runs[d]
    BY <1>0, RunFields
       DEF GraphStep, RunNode, Superstep, RunApproval, Suspend, RunFinalizer,
           SaveCheckpoint, Finish, ExceedRecursion, Raise, Return
  <2> QED
    BY <2>1, <2>2
<1>2. CASE c = "stream"
  <2>1. event.kind = "none" /\ ~RunApproval(c)
    BY <1>1, <1>2 DEF SeenInv, Active, RunApproval
  <2>2. \A r \in Reviewers : runs'[r] = runs[r]
    BY <1>1, <1>2, CallersType
  <2> QED
    BY <1>1, <2>1, <2>2, StreamShown
<1>3. CASE c \in Reviewers
  <2>0. /\ event.kind = "interrupt" /\ ~RunNode(c)
        /\ ShownRun(runs[c], shown)
    BY <1>1, <1>3, ReviewersAreLate DEF SeenInv, ShownInv, ShownRun
  <2>1. ASSUME \/ checkpoint' = checkpoint
               \/ ShownRun(checkpoint', shown),
               ShownRun(runs'[c], shown), approvals' \subseteq shown
        PROVE  ShownInv'
    BY <1>0, <1>1, <2>0, <2>1, ShownKept DEF Callers
  <2>2. approvals \subseteq shown
    BY <1>0 DEF ShownInv
  <2>3. ASSUME NEW p, SetPhase(c, p) PROVE ShownRun(runs'[c], shown)
    BY <1>0, <2>0, <2>3, RunFields DEF ShownRun
  <2>4. CASE RunApproval(c)
    <3> DEFINE t == ApprovalNode(runs[c].state, runs[c].resume)
    <3>1. /\ t.normalized_items = runs[c].state.normalized_items
          /\ runs[c].next = "approval" /\ checkpoint' = checkpoint
          /\ runs' = [runs EXCEPT ![c] = Returned(c, t, "saving")]
      BY <1>0, <2>4 DEF RunApproval, Return, At, ApprovalNode, IngestionState
    <3>2. runs'[c] = Returned(c, t, "saving")
      BY <1>0, <3>1, RunFields
    <3>3. Edge(runs[c].next, t) \in Late
      BY <3>1 DEF Edge, RouteAfterApproval, Late
    <3>4. t.normalized_items \in shown
      BY <2>0, <3>1 DEF ShownRun
    <3> HIDE DEF t
    <3>5. ShownRun(runs'[c], shown)
      BY <3>2, <3>3, <3>4, ReturnedShown
    <3>6. approvals' \subseteq shown
      BY <2>0, <2>2, <2>4 DEF RunApproval, ShownRun
    <3> QED
      BY <2>1, <3>1, <3>5, <3>6
  <2>5. CASE RunFinalizer(c)
    <3>1. PICK t \in {FinalizerWrote(runs[c].state),
                       FinalizerFailed(runs[c].state)} : Return(c, t)
      BY <2>5 DEF RunFinalizer
    <3>2. /\ t.normalized_items = runs[c].state.normalized_items
          /\ runs[c].next = "finalizer"
          /\ checkpoint' = checkpoint /\ approvals' = approvals
      BY <1>0, <2>5 DEF RunFinalizer, At, FinalizerWrote, FinalizerFailed,
                        IngestionState
    <3>3. runs'[c] = Returned(c, t, "saving")
      BY <1>0, <3>1, RunFields DEF Return
    <3>4. Edge(runs[c].next, t) \in Late
      BY <3>2 DEF Edge, Late
    <3>5. t.normalized_items \in shown
      BY <2>0, <3>2 DEF ShownRun
    <3>6. ShownRun(runs'[c], shown)
      BY <3>3, <3>4, <3>5, ReturnedShown
    <3> QED
      BY <2>1, <2>2, <3>2, <3>6
  <2>6. CASE SaveCheckpoint(c)
    <3>1. ShownRun(checkpoint', shown)
      BY <2>0, <2>6, CheckpointFields DEF SaveCheckpoint, ShownRun
    <3> QED
      BY <2>1, <2>2, <2>3, <2>6, <3>1 DEF SaveCheckpoint, histories
  <2>7. CASE Suspend(c) \/ Finish(c) \/ ExceedRecursion(c) \/ Raise(c)
    BY <2>1, <2>2, <2>3, <2>7
       DEF Suspend, Finish, ExceedRecursion, Raise, histories
  <2> QED
    BY <2>0, <2>4, <2>5, <2>6, <2>7 DEF GraphStep
<1> QED
  BY <1>2, <1>3 DEF Callers

\* The first two conjuncts of SeenInv, for every step.
LEMMA NextStreamOver ==
  ASSUME TypeOK, SeenInv, [Next]_vars
  PROVE  /\ runs'["stream"].resume = "none"
         /\ event'.kind # "none" => runs'["stream"].phase = "over"
<1>0. /\ runs \in [Callers -> Runs] /\ runs["stream"].resume = "none"
      /\ event.kind # "none" => runs["stream"].phase = "over"
  BY DEF TypeOK, SeenInv
<1>1. ASSUME NEW c \in Callers, GraphStep(c)
      PROVE  /\ runs'["stream"].resume = "none" /\ event' = event
             /\ \/ runs'["stream"] = runs["stream"]
                \/ runs["stream"].phase # "over"
  <2>1. event' = event /\ runs[c].phase # "over"
    BY <1>1
       DEF GraphStep, RunNode, Superstep, RunApproval, Suspend, RunFinalizer,
           SaveCheckpoint, Finish, ExceedRecursion, Raise, At, histories
  <2>2. \/ \E p : SetPhase(c, p)
        \/ \E t, p : runs' = [runs EXCEPT ![c] = Returned(c, t, p)]
    BY <1>1
       DEF GraphStep, RunNode, Superstep, RunApproval, Suspend, RunFinalizer,
           SaveCheckpoint, Finish, ExceedRecursion, Raise, Return
  <2>3. CASE c = "stream"
    <3>1. CASE \E p : SetPhase(c, p)
      BY <1>0, <2>1, <2>3, <3>1, RunFields
    <3>2. CASE \E t, p : runs' = [runs EXCEPT ![c] = Returned(c, t, p)]
      <4>1. PICK t, p : runs' = [runs EXCEPT ![c] = Returned(c, t, p)]
        BY <3>2
      <4>2. runs'[c] = Returned(c, t, p)
        BY <1>0, <4>1
      <4> QED
        BY <2>1, <2>3, <4>2, ReturnedFields
    <3> QED
      BY <2>2, <3>1, <3>2
  <2>4. CASE c # "stream"
    <3>1. runs'["stream"] = runs["stream"]
      BY <1>0, <2>2, <2>4, CallersType DEF SetPhase
    <3> QED
      BY <1>0, <2>1, <3>1
  <2> QED
    BY <2>3, <2>4
<1>2. CASE EndStream \/ EndStreamUnasked \/ FailStream \/ Disconnect
  <2>1. SetPhase("stream", "over")
    BY <1>2 DEF EndStream, EndStreamUnasked, FailStream, Disconnect, SendLast
  <2> QED
    BY <1>0, <2>1, RunFields, CallersType
<1>3. ASSUME NEW r \in Reviewers,
             \/ AnswerApproval(r) \/ FailApproval(r)
             \/ \E d \in Decisions : RequestApproval(r, d)
      PROVE  runs'["stream"] = runs["stream"] /\ event' = event
  BY <1>0, <1>3, CallersType, IngestionServiceAssumption
     DEF AnswerApproval, FailApproval, RequestApproval, histories
<1>4. CASE StartStream
  <2>1. SetPhase("stream", "running") /\ event' = event
        /\ runs["stream"].phase = "idle"
    BY <1>4 DEF StartStream
  <2> QED
    BY <1>0, <2>1, RunFields, CallersType
<1>5. CASE CrashApi
  <2>1. CASE Active("stream")
    <3>1. runs'["stream"] = [runs["stream"] EXCEPT !.phase = "over"]
      BY <1>5, <2>1, CallersType DEF CrashApi
    <3>2. runs["stream"] \in Runs
      BY <1>0, CallersType
    <3> QED
      BY <1>0, <3>1, <3>2 DEF Runs
  <2>2. CASE ~Active("stream")
    BY <1>0, <1>5, <2>2, CallersType DEF CrashApi
  <2> QED
    BY <2>1, <2>2
<1>6. CASE UNCHANGED vars
  BY <1>0, <1>6 DEF vars
<1> QED
  BY <1>0, <1>1, <1>2, <1>3, <1>4, <1>5, <1>6 DEF Next, ApiStep, ClientStep

LEMMA NextSeen ==
  ASSUME TypeOK, SeenInv, [Next]_vars
  PROVE  SeenInv'
<1>0. runs \in [Callers -> Runs]
  BY DEF TypeOK
<1> SUFFICES ASSUME ~hasty' PROVE ShownInv'
  BY NextStreamOver DEF SeenInv
<1>1. ASSUME NEW c \in Callers, GraphStep(c) PROVE ShownInv'
  <2>1. hasty' = hasty
    BY <1>1
       DEF GraphStep, RunNode, Superstep, RunApproval, Suspend, RunFinalizer,
           SaveCheckpoint, Finish, ExceedRecursion, Raise, histories
  <2> QED
    BY <1>1, <2>1, GraphStepShown
<1>2. CASE EndStream \/ EndStreamUnasked \/ FailStream \/ Disconnect
  <2>1. /\ SetPhase("stream", "over") /\ hasty' = hasty
        /\ UNCHANGED <<approvals, checkpoint>>
    BY <1>2 DEF EndStream, EndStreamUnasked, FailStream, Disconnect, SendLast,
                histories
  <2>2. event.kind = "none"
    BY <1>2 DEF EndStream, EndStreamUnasked, FailStream, Disconnect, Active,
                SeenInv
  <2>3. \A r \in Reviewers : runs'[r] = runs[r]
    BY <1>0, <2>1, StreamAlone
  <2>4. CASE event'.kind # "interrupt"
    <3>1. shown' = shown
      BY <1>2, <2>4 DEF EndStream, EndStreamUnasked, FailStream, Disconnect,
                        SendLast, histories
    <3> QED
      BY <2>1, <2>2, <2>3, <2>4, <3>1, StreamShown
  <2>5. CASE event'.kind = "interrupt"
    <3>1. /\ checkpoint.next = "approval"
          /\ shown' = shown \cup {checkpoint.state.normalized_items}
      BY <1>2, <2>5 DEF EndStream, EndStreamUnasked, FailStream, Disconnect,
                        SendLast
    <3>2. \A r \in Reviewers : ~Active(r)
      BY <2>1, <2>2 DEF SeenInv, ShownInv
    <3>3. \A r \in Reviewers : ~Active(r)'
      BY <2>3, <3>2 DEF Active
    <3>4. approvals \subseteq shown
      BY <2>1 DEF SeenInv, ShownInv
    <3> QED
      BY <2>1, <3>1, <3>3, <3>4 DEF ShownInv, Late
  <2> QED
    BY <2>4, <2>5
<1>3. ASSUME NEW r \in Reviewers, AnswerApproval(r) \/ FailApproval(r)
      PROVE  ShownInv'
  <2>1. /\ runs' = [runs EXCEPT ![r] = Fresh("over")] /\ hasty' = hasty
        /\ UNCHANGED <<checkpoint, approvals, event, shown>>
    BY <1>3 DEF AnswerApproval, FailApproval, histories
  <2>2. /\ runs'[r] = Fresh("over")
        /\ \A d \in Callers \ {r} : runs'[d] = runs[d]
    BY <1>0, <2>1, RunFields, CallersType
  <2>3. ~Active(r)'
    BY <2>2, FreshFields DEF Active
  <2>4. ShownInv /\ approvals' \subseteq shown
    BY <2>1 DEF SeenInv, ShownInv
  <2> QED
    BY <2>1, <2>2, <2>3, <2>4, ShownKept, CallersType
<1>4. CASE StartStream
  <2>1. /\ SetPhase("stream", "running") /\ hasty' = hasty
        /\ UNCHANGED <<approvals, event, shown>>
        /\ runs["stream"].phase = "idle"
    BY <1>4 DEF StartStream, histories
  <2>2. \A r \in Reviewers : runs'[r] = runs[r]
    BY <1>0, <2>1, StreamAlone
  <2>3. event.kind = "none"
    BY <2>1 DEF SeenInv
  <2> QED
    BY <2>1, <2>2, <2>3, StreamShown
<1>5. ASSUME NEW r \in Reviewers, NEW d \in Decisions, RequestApproval(r, d)
      PROVE  ShownInv'
  <2>1. /\ runs'[r].next = checkpoint.next /\ runs'[r].state = checkpoint.state
        /\ \A e \in Callers \ {r} : runs'[e] = runs[e]
        /\ UNCHANGED <<checkpoint, approvals, event, shown>>
        /\ ~hasty /\ event.kind = "interrupt"
    BY <1>0, <1>5, CallersType DEF RequestApproval
  <2>2. ShownInv /\ approvals' \subseteq shown
    BY <2>1 DEF SeenInv, ShownInv
  <2>3. ShownRun(runs'[r], shown)
    BY <2>1, <2>2 DEF ShownInv, ShownRun
  <2> QED
    BY <2>1, <2>2, <2>3, ShownKept, CallersType
<1>6. CASE CrashApi
  <2>1. /\ hasty' = hasty /\ UNCHANGED <<checkpoint, approvals, shown>>
    BY <1>6 DEF CrashApi, histories
  <2>2. ASSUME NEW r \in Reviewers PROVE ~Active(r)'
    <3>1. runs'[r] = IF ~Active(r) THEN runs[r] ELSE Fresh("over")
      BY <1>6, CallersType, IngestionServiceAssumption DEF CrashApi
    <3> QED
      BY <3>1, FreshFields DEF Active
  <2>3. event' = event \/ event'.kind # "interrupt"
    BY <1>6 DEF CrashApi
  <2>4. ShownInv
    BY <2>1 DEF SeenInv
  <2> QED
    BY <2>1, <2>2, <2>3, <2>4 DEF ShownInv
<1>7. CASE UNCHANGED vars
  BY <1>7 DEF vars, histories, SeenInv, ShownInv, Active
<1> QED
  BY <1>1, <1>2, <1>3, <1>4, <1>5, <1>6, <1>7 DEF Next, ApiStep, ClientStep

LEMMA InitSeen == Init => SeenInv
<1> SUFFICES ASSUME Init PROVE SeenInv
  OBVIOUS
<1>1. \A c \in Callers : runs[c] = Fresh("idle")
  BY DEF Init
<1>2. \A c \in Callers : ~Active(c) /\ runs[c].resume = "none"
  BY <1>1, FreshFields DEF Active
<1>3. event.kind = "none" /\ approvals = {}
  BY DEF Init
<1> QED
  BY <1>2, <1>3, CallersType DEF SeenInv, ShownInv

LEMMA SeenCorrect == Spec => []SeenInv
<1>1. TypeOK /\ SeenInv /\ [Next]_vars => SeenInv'
  BY NextSeen
<1> QED
  BY <1>1, TypeCorrect, InitSeen, PTL DEF Spec

\* Without haste, what is written after a review is a list whose review the
\* client was sent.
THEOREM ShownWrites == Spec => []WrittenAsShown
<1>1. WritesAreApproved /\ SeenInv => WrittenAsShown
  BY DEF WritesAreApproved, SeenInv, ShownInv, WrittenAsShown
<1> QED
  BY <1>1, ApprovedWrites, SeenCorrect, PTL

-----------------------------------------------------------------------------
(* What an answer of success means *)

\* A copy of the state that says "at the end and no error" is no lie: its own
\* list is among those written.
WrittenAt(run, lists) ==
    run.next = "__end__" /\ ~run.state.error =>
        \E w \in lists : w.items = run.state.normalized_items

ApprovedRun(run, lists) ==
    /\ WrittenAt(run, lists)
    /\ run.next = "approval" => run.resume = "approve"
    /\ run.phase = "ended" => run.next = "__end__"

\* Without haste and rejections nothing but the finalizer leads to the end.
ApprovedInv ==
    /\ WrittenAt(checkpoint, writes)
    /\ \A r \in Reviewers : Active(r) => ApprovedRun(runs[r], writes)

OutcomeInv ==
    /\ WrittenAt(runs["stream"], writes)
    /\ ~hasty /\ ~rejects => ApprovedInv

LEMMA WrittenMonotone ==
  ASSUME writes \subseteq writes', NEW run, WrittenAt(run, writes)
  PROVE  WrittenAt(run, writes')
  BY DEF WrittenAt

\* Only the finalizer, having written or with an error, and a rejection lead
\* to the end.
LEMMA StepsToTheEnd ==
  ASSUME TypeOK, NEW c \in Callers, GraphStep(c),
         WrittenAt(runs[c], writes),
         runs[c].next = "approval" => runs[c].resume \in {"none", "approve"}
  PROVE  /\ WrittenAt(runs'[c], writes')
         /\ WrittenAt(checkpoint, writes) =>
               WrittenAt(checkpoint', writes')
         /\ runs'[c].next = "approval" =>
               \/ runs[c].next = "approval" /\ runs'[c].resume = runs[c].resume
               \/ RunNode(c)
         /\ runs'[c].phase = "ended" =>
               \/ runs'[c].next = "__end__"
               \/ runs[c].next = "approval" /\ runs[c].resume = "none"
         /\ writes \subseteq writes'
<1>0. /\ runs[c].state \in IngestionState /\ runs \in [Callers -> Runs]
  BY StateOfRunType DEF TypeOK
<1>1. CASE RunNode(c)
  <2>0. PICK node \in {"chunker", "normalizer", "validator"} :
            \E s : Superstep(c, node, s)
    BY <1>1 DEF RunNode
  <2>1. PICK t : Superstep(c, node, t)
    BY <2>0
  <2> DEFINE run == Returned(c, t, "running")
  <2>2. /\ runs[c].next = node /\ writes' = writes
        /\ runs' = [runs EXCEPT ![c] = run] /\ checkpoint' = CheckpointOf(run)
    BY <2>1 DEF Superstep, At, histories
  <2>3. run.next # "__end__" /\ run.phase = "running"
    BY <2>2, ReturnedFields
       DEF Edge, RouteAfterNormalizer, RouteAfterValidator
  <2> HIDE DEF run
  <2>4. runs'[c] = run /\ checkpoint'.next = run.next
    BY <1>0, <2>2, RunFields, CheckpointFields
  <2> QED
    BY <1>1, <2>2, <2>3, <2>4 DEF WrittenAt
<1>2. CASE RunApproval(c)
  <2> DEFINE t == ApprovalNode(runs[c].state, "approve")
             run == Returned(c, t, "saving")
  <2>1. /\ runs[c].next = "approval" /\ runs[c].resume = "approve"
        /\ runs' = [runs EXCEPT ![c] = run]
        /\ checkpoint' = checkpoint /\ writes' = writes
    BY <1>2 DEF RunApproval, At, Return
  <2>2. t.approved = "True"
    BY <1>0 DEF ApprovalNode, IngestionState
  <2>3. run.next = "finalizer" /\ run.phase = "saving"
    BY <2>1, <2>2, ReturnedFields DEF Edge, RouteAfterApproval
  <2> HIDE DEF run
  <2>4. runs'[c] = run
    BY <1>0, <2>1, RunFields
  <2> QED
    BY <2>1, <2>3, <2>4 DEF WrittenAt
<1>3. CASE RunFinalizer(c)
  <2>1. runs[c].next = "finalizer" /\ checkpoint' = checkpoint
    BY <1>3 DEF RunFinalizer, At
  <2>2. \/ /\ \E w \in writes' : w.items = runs[c].state.normalized_items
           /\ Return(c, FinalizerWrote(runs[c].state))
        \/ Return(c, FinalizerFailed(runs[c].state))
    <3> DEFINE st == runs[c].state
               w == [batch    |-> UniqueItems(st),
                     items    |-> st.normalized_items,
                     reviewed |-> NeedsReview(st)]
    <3>1. \/ Return(c, FinalizerWrote(st)) /\ writes' = writes \cup {w}
          \/ Return(c, FinalizerFailed(st))
      BY <1>3 DEF RunFinalizer
    <3>2. w.items = st.normalized_items
      OBVIOUS
    <3> HIDE DEF w
    <3> QED
      BY <3>1, <3>2
  <2>3. /\ FinalizerFailed(runs[c].state).error
        /\ FinalizerWrote(runs[c].state).normalized_items
             = runs[c].state.normalized_items
    BY <1>0 DEF FinalizerFailed, FinalizerWrote, IngestionState
  <2>4. writes \subseteq writes'
    BY <1>3 DEF RunFinalizer
  <2>5. PICK t : /\ Return(c, t)
                 /\ t.error \/ \E w \in writes' : w.items = t.normalized_items
    BY <2>2, <2>3
  <2> DEFINE run == Returned(c, t, "saving")
  <2>6. run.next = "__end__" /\ run.phase = "saving" /\ run.state = t
    BY <2>1, ReturnedFields DEF Edge
  <2>7. runs' = [runs EXCEPT ![c] = run]
    BY <2>5 DEF Return
  <2> HIDE DEF run
  <2>8. runs'[c] = run
    BY <1>0, <2>7, RunFields
  <2> QED
    BY <2>1, <2>4, <2>5, <2>6, <2>8, WrittenMonotone DEF WrittenAt
<1>4. CASE SaveCheckpoint(c)
  <2>1. SetPhase(c, "running") /\ checkpoint' = CheckpointOf(runs[c])
        /\ writes' = writes
    BY <1>4 DEF SaveCheckpoint, histories
  <2>2. /\ runs'[c].state = runs[c].state /\ runs'[c].next = runs[c].next
        /\ runs'[c].resume = runs[c].resume /\ runs'[c].phase = "running"
    BY <1>0, <2>1, RunFields
  <2> QED
    BY <2>1, <2>2, CheckpointFields DEF WrittenAt
<1>5. CASE Suspend(c) \/ Finish(c) \/ ExceedRecursion(c) \/ Raise(c)
  <2>1. PICK p : /\ SetPhase(c, p) /\ UNCHANGED <<checkpoint, writes>>
                 /\ p = "ended" =>
                      \/ runs[c].next = "__end__"
                      \/ runs[c].next = "approval" /\ runs[c].resume = "none"
    BY <1>5 DEF Suspend, Finish, ExceedRecursion, Raise, At, histories
  <2>2. /\ runs'[c].state = runs[c].state /\ runs'[c].next = runs[c].next
        /\ runs'[c].resume = runs[c].resume /\ runs'[c].phase = p
    BY <1>0, <2>1, RunFields
  <2> QED
    BY <2>1, <2>2 DEF WrittenAt
<1> QED
  BY <1>1, <1>2, <1>3, <1>4, <1>5 DEF GraphStep

LEMMA GraphStepOutcome ==
  ASSUME TypeOK, SeenInv, OutcomeInv, NEW c \in Callers, GraphStep(c)
  PROVE  OutcomeInv'
<1>0. /\ runs \in [Callers -> Runs] /\ runs[c].resume \in Decisions \cup {"none"}
  BY StateOfRunType DEF TypeOK, Runs
<1>1. /\ Active(c) /\ UNCHANGED <<hasty, rejects>>
      /\ \A d \in Callers \ {c} : runs'[d] = runs[d]
  <2>1. Active(c) /\ UNCHANGED <<hasty, rejects>>
    BY DEF GraphStep, RunNode, Superstep, RunApproval, Suspend, RunFinalizer,
           SaveCheckpoint, Finish, ExceedRecursion, Raise, At, Active, histories
  <2>2. \A d \in Callers \ {c} : runs'[d] = runs[d]
    BY <1>0, RunFields
       DEF GraphStep, RunNode, Superstep, RunApproval, Suspend, RunFinalizer,
           SaveCheckpoint, Finish, ExceedRecursion, Raise, Return
  <2> QED
    BY <2>1, <2>2
<1>2. CASE c = "stream"
  <2>1. runs[c].resume = "none" /\ WrittenAt(runs[c], writes)
    BY <1>2 DEF SeenInv, OutcomeInv, WrittenAt
  <2>2. /\ WrittenAt(runs'[c], writes') /\ writes \subseteq writes'
        /\ WrittenAt(checkpoint, writes) =>
              WrittenAt(checkpoint', writes')
    BY <2>1, StepsToTheEnd
  <2>3. ASSUME ~hasty', ~rejects' PROVE ApprovedInv'
    <3>1. ApprovedInv
      BY <1>1, <2>3 DEF OutcomeInv
    <3>2. WrittenAt(checkpoint', writes')
      BY <2>2, <3>1 DEF ApprovedInv, WrittenAt
    <3>3. \A r \in Reviewers : ~Active(r)
      BY <1>1, <1>2, <2>3 DEF SeenInv, ShownInv, Active
    <3>4. \A r \in Reviewers : r \in Callers \ {c}
      BY <1>2, IngestionServiceAssumption DEF Callers
    <3>5. \A r \in Reviewers : ~Active(r)'
      BY <1>1, <3>3, <3>4 DEF Active
    <3> QED
      BY <3>2, <3>5 DEF ApprovedInv, WrittenAt
  <2> QED
    BY <1>2, <2>2, <2>3 DEF OutcomeInv, WrittenAt
<1>3. CASE c \in Reviewers
  <2>1. runs'["stream"] = runs["stream"]
    BY <1>1, <1>3, CallersType, IngestionServiceAssumption
  <2>2. writes \subseteq writes'
    BY DEF GraphStep, RunNode, Superstep, RunApproval, Suspend, RunFinalizer,
           SaveCheckpoint, Finish, ExceedRecursion, Raise, histories
  <2>3. ASSUME ~hasty', ~rejects' PROVE ApprovedInv'
    <3>1. ApprovedInv /\ ~RunNode(c)
      BY <1>1, <1>3, <2>3, ReviewersAreLate DEF OutcomeInv
    <3>2. ApprovedRun(runs[c], writes) /\ WrittenAt(checkpoint, writes)
      BY <1>1, <1>3, <3>1 DEF ApprovedInv, ApprovedRun, WrittenAt
    <3>3. /\ WrittenAt(runs'[c], writes')
          /\ WrittenAt(checkpoint', writes')
          /\ runs'[c].next = "approval" =>
                /\ runs[c].next = "approval"
                /\ runs'[c].resume = runs[c].resume
          /\ runs'[c].phase = "ended" => runs'[c].next = "__end__"
      BY <3>1, <3>2, StepsToTheEnd DEF ApprovedRun
    <3>4. ApprovedRun(runs'[c], writes')
      BY <3>2, <3>3 DEF ApprovedRun
    <3>5. ASSUME NEW r \in Reviewers, Active(r)'
          PROVE  ApprovedRun(runs'[r], writes')
      <4>1. CASE r = c
        BY <3>4, <4>1
      <4>2. CASE r # c
        <5>1. runs'[r] = runs[r]
          BY <1>1, <4>2, CallersType
        <5>2. ApprovedRun(runs[r], writes)
          BY <3>1, <3>5, <5>1 DEF ApprovedInv, ApprovedRun, WrittenAt, Active
        <5> QED
          BY <2>2, <5>1, <5>2, WrittenMonotone DEF ApprovedRun
      <4> QED
        BY <4>1, <4>2
    <3> QED
      BY <3>3, <3>5 DEF ApprovedInv, ApprovedRun, WrittenAt
  <2> QED
    BY <2>1, <2>2, <2>3 DEF OutcomeInv, WrittenAt
<1> QED
  BY <1>2, <1>3 DEF Callers

\* OutcomeInv survives a step of the API or a client that writes nothing to
\* the catalogue and leaves the stream's copy alone.
LEMMA OutcomeKept ==
  ASSUME OutcomeInv, writes' = writes,
         runs'["stream"].next = runs["stream"].next,
         runs'["stream"].state = runs["stream"].state,
         \/ checkpoint' = checkpoint
         \/ checkpoint'.next # "__end__",
         hasty => hasty', rejects => rejects',
         ~hasty' /\ ~rejects' =>
            \A r \in Reviewers :
               \/ runs'[r] = runs[r]
               \/ ~Active(r)'
               \/ ApprovedRun(runs'[r], writes)
  PROVE  OutcomeInv'
<1>1. ASSUME ~hasty', ~rejects' PROVE ApprovedInv'
  <2>1. ApprovedInv
    BY <1>1 DEF OutcomeInv
  <2>2. ASSUME NEW r \in Reviewers, Active(r)'
        PROVE  ApprovedRun(runs'[r], writes)
    BY <1>1, <2>1, <2>2 DEF ApprovedInv, ApprovedRun, WrittenAt, Active
  <2> QED
    BY <2>1, <2>2 DEF ApprovedInv, ApprovedRun, WrittenAt
<1> QED
  BY <1>1 DEF OutcomeInv, WrittenAt

LEMMA NextOutcome ==
  ASSUME TypeOK, SeenInv, OutcomeInv, [Next]_vars
  PROVE  OutcomeInv'
<1>0. runs \in [Callers -> Runs]
  BY DEF TypeOK
<1>1. ASSUME NEW c \in Callers, GraphStep(c) PROVE OutcomeInv'
  BY <1>1, GraphStepOutcome
<1>2. CASE EndStream \/ EndStreamUnasked \/ FailStream \/ Disconnect
  <2>1. /\ SetPhase("stream", "over")
        /\ UNCHANGED <<writes, checkpoint, hasty, rejects>>
    BY <1>2 DEF EndStream, EndStreamUnasked, FailStream, Disconnect, SendLast,
                histories
  <2>2. /\ runs'["stream"].next = runs["stream"].next
        /\ runs'["stream"].state = runs["stream"].state
        /\ \A r \in Reviewers : runs'[r] = runs[r]
    BY <1>0, <2>1, RunFields, CallersType, StreamAlone
  <2> QED
    BY <2>1, <2>2, OutcomeKept
<1>3. ASSUME NEW r \in Reviewers, AnswerApproval(r) \/ FailApproval(r)
      PROVE  OutcomeInv'
  <2>1. /\ runs' = [runs EXCEPT ![r] = Fresh("over")]
        /\ UNCHANGED <<writes, checkpoint, hasty, rejects>>
    BY <1>3 DEF AnswerApproval, FailApproval, histories
  <2>2. /\ runs'[r] = Fresh("over")
        /\ \A d \in Callers \ {r} : runs'[d] = runs[d]
    BY <1>0, <2>1, RunFields, CallersType
  <2>3. ~Active(r)' /\ runs'["stream"] = runs["stream"]
    BY <2>2, FreshFields, CallersType, IngestionServiceAssumption DEF Active
  <2>4. \A q \in Reviewers : runs'[q] = runs[q] \/ ~Active(q)'
    BY <2>2, <2>3, CallersType
  <2> QED
    BY <2>1, <2>3, <2>4, OutcomeKept
<1>4. CASE StartStream
  <2>1. /\ SetPhase("stream", "running") /\ UNCHANGED <<writes, hasty, rejects>>
        /\ checkpoint' = CheckpointOf(Fresh("running"))
    BY <1>4 DEF StartStream, histories
  <2>2. Fresh("running").next = "chunker"
    BY FreshFields
  <2>3. checkpoint'.next = "chunker"
    BY <2>1, <2>2, CheckpointFields
  <2>4. /\ runs'["stream"].next = runs["stream"].next
        /\ runs'["stream"].state = runs["stream"].state
        /\ \A r \in Reviewers : runs'[r] = runs[r]
    BY <1>0, <2>1, RunFields, CallersType, StreamAlone
  <2> QED
    BY <2>1, <2>3, <2>4, OutcomeKept
<1>5. ASSUME NEW r \in Reviewers, NEW d \in Decisions, RequestApproval(r, d)
      PROVE  OutcomeInv'
  <2>1. /\ runs'[r].next = checkpoint.next /\ runs'[r].state = checkpoint.state
        /\ runs'[r].resume = d /\ runs'[r].phase = "running"
        /\ \A e \in Callers \ {r} : runs'[e] = runs[e]
        /\ UNCHANGED <<writes, checkpoint>>
    BY <1>0, <1>5, CallersType DEF RequestApproval
  <2>2. hasty => hasty'
    BY <1>5 DEF RequestApproval
  <2>3. rejects => rejects'
    BY <1>5 DEF RequestApproval
  <2>4. runs'["stream"] = runs["stream"]
    BY <2>1, CallersType, IngestionServiceAssumption
  <2>5. ASSUME ~hasty', ~rejects' PROVE ApprovedRun(runs'[r], writes)
    <3>1. ApprovedInv
      BY <2>2, <2>3, <2>5 DEF OutcomeInv
    <3>2. d = "approve"
      BY <1>5, <2>5 DEF RequestApproval, Decisions
    <3> QED
      BY <2>1, <3>1, <3>2 DEF ApprovedInv, ApprovedRun, WrittenAt
  <2>6. ASSUME ~hasty', ~rejects'
        PROVE  \A q \in Reviewers : \/ runs'[q] = runs[q]
                                    \/ ApprovedRun(runs'[q], writes)
    BY <2>1, <2>5, <2>6, CallersType
  <2> QED
    BY <2>1, <2>2, <2>3, <2>4, <2>6, OutcomeKept
<1>6. CASE CrashApi
  <2>1. UNCHANGED <<writes, checkpoint, hasty, rejects>>
    BY <1>6 DEF CrashApi, histories
  <2>2. /\ runs'["stream"].next = runs["stream"].next
        /\ runs'["stream"].state = runs["stream"].state
    <3>1. runs["stream"] \in Runs
      BY <1>0, CallersType
    <3>2. runs'["stream"] \in {runs["stream"],
                               [runs["stream"] EXCEPT !.phase = "over"]}
      BY <1>6, CallersType DEF CrashApi
    <3> QED
      BY <3>1, <3>2 DEF Runs
  <2>3. ASSUME NEW r \in Reviewers PROVE runs'[r] = runs[r] \/ ~Active(r)'
    <3>1. runs'[r] = IF ~Active(r) THEN runs[r] ELSE Fresh("over")
      BY <1>6, CallersType, IngestionServiceAssumption DEF CrashApi
    <3> QED
      BY <3>1, FreshFields DEF Active
  <2> QED
    BY <2>1, <2>2, <2>3, OutcomeKept
<1>7. CASE UNCHANGED vars
  BY <1>7 DEF vars, histories, OutcomeInv, ApprovedInv, Active
<1> QED
  BY <1>1, <1>2, <1>3, <1>4, <1>5, <1>6, <1>7 DEF Next, ApiStep, ClientStep

LEMMA InitOutcome == Init => OutcomeInv /\ SuccessMeansWritten
<1> SUFFICES ASSUME Init PROVE OutcomeInv /\ SuccessMeansWritten
  OBVIOUS
<1>1. \A c \in Callers : runs[c].next = "chunker" /\ ~Active(c)
  <2>1. \A c \in Callers : runs[c] = Fresh("idle")
    BY DEF Init
  <2> QED
    BY <2>1, FreshFields DEF Active
<1>2. checkpoint.next = "chunker" /\ event.kind = "none" /\ answers = {}
  BY DEF Init
<1> QED
  BY <1>1, <1>2, CallersType
     DEF OutcomeInv, ApprovedInv, WrittenAt, SuccessMeansWritten

LEMMA NextSuccess ==
  ASSUME TypeOK, SeenInv, OutcomeInv, SuccessMeansWritten, [Next]_vars
  PROVE  SuccessMeansWritten'
<1>0. /\ runs \in [Callers -> Runs]
      /\ event.kind # "none" => runs["stream"].phase = "over"
  BY DEF TypeOK, SeenInv
<1>1. ASSUME writes \subseteq writes', answers' = answers,
             shown \subseteq shown', hasty => hasty', rejects => rejects',
             event' = event \/ event'.kind # "done",
             \/ runs'["stream"] = runs["stream"]
             \/ runs["stream"].phase # "over"
      PROVE  SuccessMeansWritten'
  BY <1>0, <1>1 DEF SuccessMeansWritten
<1>2. ASSUME NEW c \in Callers, GraphStep(c) PROVE SuccessMeansWritten'
  <2>1. /\ writes \subseteq writes' /\ runs[c].phase # "over"
        /\ UNCHANGED <<answers, shown, hasty, rejects, event>>
    BY <1>2
       DEF GraphStep, RunNode, Superstep, RunApproval, Suspend, RunFinalizer,
           SaveCheckpoint, Finish, ExceedRecursion, Raise, At, histories
  <2>2. c # "stream" => runs'["stream"] = runs["stream"]
    <3>1. \A d \in Callers \ {c} : runs'[d] = runs[d]
      BY <1>0, <1>2, RunFields
         DEF GraphStep, RunNode, Superstep, RunApproval, Suspend, RunFinalizer,
             SaveCheckpoint, Finish, ExceedRecursion, Raise, Return
    <3> QED
      BY <3>1, CallersType
  <2> QED
    BY <1>1, <2>1, <2>2
<1>3. CASE EndStream \/ EndStreamUnasked \/ FailStream \/ Disconnect
  <2>1. /\ SetPhase("stream", "over")
        /\ UNCHANGED <<answers, writes, hasty, rejects>>
        /\ shown \subseteq shown'
        /\ \/ event'.kind # "done"
           \/ event'.error = runs["stream"].state.error
    BY <1>3 DEF EndStream, EndStreamUnasked, FailStream, Disconnect, SendLast,
                histories
  <2>2. /\ runs'["stream"].next = runs["stream"].next
        /\ runs'["stream"].state = runs["stream"].state
    BY <1>0, <2>1, RunFields, CallersType
  <2> QED
    BY <2>1, <2>2 DEF SuccessMeansWritten, OutcomeInv, WrittenAt
<1>4. ASSUME NEW r \in Reviewers, AnswerApproval(r) PROVE SuccessMeansWritten'
  <2>1. /\ UNCHANGED <<writes, event, shown, hasty, rejects>>
        /\ runs'["stream"] = runs["stream"] /\ Active(r)
    BY <1>0, <1>4, CallersType, IngestionServiceAssumption
       DEF AnswerApproval, Active
  <2>2. ASSUME ~hasty, ~rejects,
               [status |-> "completed", error |-> FALSE] \in answers',
               [status |-> "completed", error |-> FALSE] \notin answers
        PROVE  \E w \in writes : w.items \in shown
    <3>1. ~runs[r].state.error
      BY <1>4, <2>2 DEF AnswerApproval
    <3>2. runs[r].phase = "ended"
      BY <1>4 DEF AnswerApproval
    <3>3. \E w \in writes : w.items = runs[r].state.normalized_items
      BY <2>1, <2>2, <3>1, <3>2
         DEF OutcomeInv, ApprovedInv, ApprovedRun, WrittenAt
    <3>4. runs[r].state.normalized_items \in shown
      BY <2>1, <2>2 DEF SeenInv, ShownInv
    <3> QED
      BY <3>3, <3>4
  <2> QED
    BY <2>1, <2>2 DEF SuccessMeansWritten
<1>5. ASSUME NEW r \in Reviewers,
             \/ FailApproval(r)
             \/ \E d \in Decisions : RequestApproval(r, d)
      PROVE  SuccessMeansWritten'
  <2>1. /\ UNCHANGED <<writes, event, answers, shown>>
        /\ runs'["stream"] = runs["stream"]
    BY <1>0, <1>5, CallersType, IngestionServiceAssumption
       DEF FailApproval, RequestApproval, histories
  <2>2. hasty => hasty'
    BY <1>5 DEF FailApproval, RequestApproval, histories
  <2>3. rejects => rejects'
    BY <1>5 DEF FailApproval, RequestApproval, histories
  <2> QED
    BY <1>1, <2>1, <2>2, <2>3
<1>6. CASE StartStream
  <2>1. /\ UNCHANGED <<writes, event, answers, shown, hasty, rejects>>
        /\ runs["stream"].phase # "over"
    BY <1>6 DEF StartStream, histories
  <2> QED
    BY <1>1, <2>1
<1>7. CASE CrashApi
  <2>1. /\ UNCHANGED <<writes, answers, shown, hasty, rejects>>
        /\ event' = event \/ event'.kind # "done"
    BY <1>7 DEF CrashApi, histories
  <2>2. runs["stream"].phase = "over" => runs'["stream"] = runs["stream"]
    BY <1>7, CallersType DEF CrashApi, Active
  <2> QED
    BY <1>1, <2>1, <2>2
<1>8. CASE UNCHANGED vars
  BY <1>1, <1>8 DEF vars, histories
<1> QED
  BY <1>2, <1>3, <1>4, <1>5, <1>6, <1>7, <1>8 DEF Next, ApiStep, ClientStep

\* A client told of success finds the batch written: the stream its own list,
\* a reviewer one that was up for review.
THEOREM SuccessIsTrue == Spec => []SuccessMeansWritten
<1>1. TypeOK /\ SeenInv /\ OutcomeInv /\ [Next]_vars => OutcomeInv'
  BY NextOutcome
<1>2. TypeOK /\ SeenInv /\ OutcomeInv /\ SuccessMeansWritten /\ [Next]_vars
        => SuccessMeansWritten'
  BY NextSuccess
<1> QED
  BY <1>1, <1>2, TypeCorrect, SeenCorrect, InitOutcome, PTL DEF Spec

-----------------------------------------------------------------------------
(* Every step of the process uses up work *)

\* The steps invocation run may still take: a node and its checkpoint for
\* each superstep of its budget, then the end of the graph, then the answer.
RunWork(run) ==
    CASE run.phase = "idle"    -> 2 * RecursionLimit + 3
      [] run.phase = "running" -> 2 * (RecursionLimit - run.steps) + 2
      [] run.phase = "saving"  -> 2 * (RecursionLimit - run.steps) + 3
      [] run.phase \in {"ended", "raised", "exhausted"} -> 1
      [] run.phase = "over"    -> 0

\* The step is one of invocation c, which has less to do after it.
Consumes(c) ==
    /\ RunWork(runs'[c]) < RunWork(runs[c])
    /\ \A d \in Callers \ {c} : runs'[d] = runs[d]

LEMMA RunWorkOf ==
  ASSUME NEW run
  PROVE  /\ run.phase = "idle"    => RunWork(run) = 2 * RecursionLimit + 3
         /\ run.phase = "running" => RunWork(run) = 2 * (RecursionLimit - run.steps) + 2
         /\ run.phase = "saving"  => RunWork(run) = 2 * (RecursionLimit - run.steps) + 3
         /\ run.phase \in {"ended", "raised", "exhausted"} => RunWork(run) = 1
         /\ run.phase = "over"    => RunWork(run) = 0
  BY DEF RunWork

\* An invocation that has not called yet has most left, one answered nothing.
LEMMA RunWorkBounded ==
  ASSUME NEW run \in Runs
  PROVE  /\ RunWork(run) \in 0..(2 * RecursionLimit + 3)
         /\ run.phase = "over" \/ RunWork(run) >= 1
<1>1. run.steps \in 0..RecursionLimit /\ run.phase \in Phases /\ RecursionLimit \in Nat
  BY DEF Runs
<1> DEFINE most == 2 * RecursionLimit + 3
<1>2. /\ 2 * (RecursionLimit - run.steps) + 2 \in 1..most
      /\ 2 * (RecursionLimit - run.steps) + 3 \in 1..most
      /\ 1 \in 1..most /\ most \in 1..most
  BY <1>1
<1>3. RunWork(run) \in 0..most /\ (run.phase = "over" \/ RunWork(run) \in 1..most)
  <2>1. 0 \in 0..most /\ 1..most \subseteq 0..most
    BY <1>1
  <2> HIDE DEF most
  <2>2. run.phase # "over" => RunWork(run) \in 1..most
    BY <1>1, <1>2, RunWorkOf DEF Phases, most
  <2> QED
    BY <2>1, <2>2, RunWorkOf
<1> QED
  BY <1>1, <1>3

LEMMA GraphStepConsumes ==
  ASSUME TypeOK, NEW c \in Callers, GraphStep(c)
  PROVE  Consumes(c)
<1>0. /\ runs \in [Callers -> Runs] /\ runs[c].steps \in 0..RecursionLimit
      /\ RecursionLimit \in Nat
  BY DEF TypeOK, Runs
\* A node: one superstep less, whether its checkpoint is still to come or not.
<1>1. ASSUME NEW node \in Nodes, At(c, node), NEW s, NEW p \in {"running", "saving"},
             runs' = [runs EXCEPT ![c] = Returned(c, s, p)]
      PROVE  Consumes(c)
  <2>1. /\ runs'[c].phase = p /\ runs'[c].steps = runs[c].steps + 1
        /\ \A d \in Callers \ {c} : runs'[d] = runs[d]
    BY <1>0, <1>1, RunFields, ReturnedFields
  <2>2. runs[c].phase = "running" /\ runs[c].steps < RecursionLimit
    BY <1>1 DEF At
  <2>3. RunWork(runs[c]) = 2 * (RecursionLimit - runs[c].steps) + 2
    BY <2>2, RunWorkOf
  <2>4. \/ RunWork(runs'[c]) = 2 * (RecursionLimit - (runs[c].steps + 1)) + 2
        \/ RunWork(runs'[c]) = 2 * (RecursionLimit - (runs[c].steps + 1)) + 3
    BY <1>1, <2>1, RunWorkOf
  <2>5. RunWork(runs'[c]) < RunWork(runs[c])
    BY <1>0, <2>3, <2>4
  <2> QED
    BY <2>1, <2>5 DEF Consumes
\* The end of the graph, by whatever way.
<1>2. ASSUME NEW p \in {"ended", "raised", "exhausted"}, SetPhase(c, p),
             runs[c].phase \in {"running", "saving"}
      PROVE  Consumes(c)
  <2>1. runs'[c].phase = p /\ \A d \in Callers \ {c} : runs'[d] = runs[d]
    BY <1>0, <1>2, RunFields
  <2>2. \/ RunWork(runs[c]) = 2 * (RecursionLimit - runs[c].steps) + 2
        \/ RunWork(runs[c]) = 2 * (RecursionLimit - runs[c].steps) + 3
    BY <1>2, RunWorkOf
  <2>3. RunWork(runs'[c]) = 1
    BY <1>2, <2>1, RunWorkOf
  <2>4. RunWork(runs'[c]) < RunWork(runs[c])
    BY <1>0, <2>2, <2>3
  <2> QED
    BY <2>1, <2>4 DEF Consumes
<1>3. CASE RunNode(c)
  BY <1>1, <1>3 DEF RunNode, Superstep, Nodes
<1>4. CASE RunApproval(c)
  BY <1>1, <1>4 DEF RunApproval, Return, Nodes
<1>5. CASE Suspend(c)
  BY <1>2, <1>5 DEF Suspend, At
<1>6. CASE RunFinalizer(c)
  BY <1>1, <1>6 DEF RunFinalizer, Return, Nodes
<1>7. CASE SaveCheckpoint(c)
  <2>1. runs[c].phase = "saving" /\ SetPhase(c, "running")
    BY <1>7 DEF SaveCheckpoint
  <2>2. /\ runs'[c].phase = "running" /\ runs'[c].steps = runs[c].steps
        /\ \A d \in Callers \ {c} : runs'[d] = runs[d]
    BY <1>0, <2>1, RunFields
  <2>3. /\ RunWork(runs[c]) = 2 * (RecursionLimit - runs[c].steps) + 3
        /\ RunWork(runs'[c]) = 2 * (RecursionLimit - runs[c].steps) + 2
    BY <2>1, <2>2, RunWorkOf
  <2>4. RunWork(runs'[c]) < RunWork(runs[c])
    BY <1>0, <2>3
  <2> QED
    BY <2>2, <2>4 DEF Consumes
<1>8. CASE Finish(c)
  BY <1>2, <1>8 DEF Finish
<1>9. CASE ExceedRecursion(c)
  BY <1>2, <1>9 DEF ExceedRecursion
<1>10. CASE Raise(c)
  BY <1>2, <1>10 DEF Raise, At
<1> QED
  BY <1>3, <1>4, <1>5, <1>6, <1>7, <1>8, <1>9, <1>10 DEF GraphStep

\* The answer to a caller, or the loss of it.
LEMMA AnswerConsumes ==
  ASSUME TypeOK, NEW c \in Callers, Active(c),
         SetPhase(c, "over") \/ runs' = [runs EXCEPT ![c] = Fresh("over")]
  PROVE  Consumes(c)
<1>0. runs \in [Callers -> Runs]
  BY DEF TypeOK
<1>1. runs'[c].phase = "over" /\ \A d \in Callers \ {c} : runs'[d] = runs[d]
  <2>1. CASE SetPhase(c, "over")
    BY <1>0, <2>1, RunFields
  <2>2. CASE runs' = [runs EXCEPT ![c] = Fresh("over")]
    <3>1. runs'[c] = Fresh("over") /\ \A d \in Callers \ {c} : runs'[d] = runs[d]
      BY <1>0, <2>2
    <3> QED
      BY <3>1, FreshFields
  <2> QED
    BY <2>1, <2>2
<1>2. RunWork(runs'[c]) = 0
  BY <1>1, RunWorkOf
<1>3. RunWork(runs[c]) \in Int /\ RunWork(runs[c]) >= 1
  BY <1>0, RunWorkBounded DEF Active
<1>4. RunWork(runs'[c]) < RunWork(runs[c])
  BY <1>2, <1>3
<1> QED
  BY <1>1, <1>4 DEF Consumes

LEMMA ApiStepConsumes ==
  ASSUME TypeOK, ApiStep
  PROVE  \E c \in Callers : Consumes(c)
<1>1. CASE \E c \in Callers : GraphStep(c)
  BY <1>1, GraphStepConsumes
<1>2. CASE EndStream \/ EndStreamUnasked \/ FailStream
  <2>1. Active("stream") /\ SetPhase("stream", "over")
    BY <1>2 DEF EndStream, EndStreamUnasked, FailStream, SendLast, Active
  <2> QED
    BY <2>1, AnswerConsumes, CallersType
<1>3. ASSUME NEW r \in Reviewers, AnswerApproval(r) \/ FailApproval(r)
      PROVE  Consumes(r)
  <2>1. Active(r) /\ runs' = [runs EXCEPT ![r] = Fresh("over")]
    BY <1>3 DEF AnswerApproval, FailApproval, Active
  <2> QED
    BY <2>1, AnswerConsumes, CallersType
<1> QED
  BY <1>1, <1>2, <1>3, CallersType DEF ApiStep

\* Nothing gives an invocation work back: no repeated request, no restart.
LEMMA WorkNeverGrows ==
  ASSUME TypeOK, [Next]_vars, NEW c \in Callers
  PROVE  RunWork(runs'[c]) <= RunWork(runs[c])
<1>0. runs \in [Callers -> Runs]
  BY DEF TypeOK
<1>a. /\ RunWork(runs[c]) \in Int /\ RunWork(runs[c]) >= 0
      /\ RunWork(runs[c]) <= 2 * RecursionLimit + 3
  BY <1>0, RunWorkBounded
<1>b. ASSUME NEW d \in Callers, Consumes(d)
      PROVE  RunWork(runs'[c]) <= RunWork(runs[c])
  <2>1. TypeOK'
    BY NextType
  <2>2. RunWork(runs'[c]) \in Int
    BY <2>1, RunWorkBounded DEF TypeOK
  <2>3. CASE c = d
    BY <1>a, <1>b, <2>2, <2>3 DEF Consumes
  <2>4. CASE c # d
    <3>1. runs'[c] = runs[c]
      BY <1>b, <2>4 DEF Consumes
    <3> QED
      BY <1>a, <3>1
  <2> QED
    BY <2>3, <2>4
\* An invocation that starts.
<1>c. ASSUME NEW d \in Callers, runs[d].phase = "idle",
             runs'[d].phase = "running", runs'[d].steps \in 0..RecursionLimit,
             \A e \in Callers \ {d} : runs'[e] = runs[e]
      PROVE  RunWork(runs'[c]) <= RunWork(runs[c])
  <2>1. RunWork(runs[d]) = 2 * RecursionLimit + 3
    BY <1>c, RunWorkOf
  <2>2. RunWork(runs'[d]) = 2 * (RecursionLimit - runs'[d].steps) + 2
    BY <1>c, RunWorkOf
  <2>3. RunWork(runs'[d]) <= RunWork(runs[d])
    BY <1>c, <2>1, <2>2
  <2>4. CASE c # d
    <3>1. runs'[c] = runs[c]
      BY <1>c, <2>4
    <3> QED
      BY <1>a, <3>1
  <2> QED
    BY <2>3, <2>4
<1>1. CASE ApiStep
  BY <1>1, <1>b, ApiStepConsumes
<1>2. CASE StartStream
  <2>1. runs["stream"].phase = "idle" /\ SetPhase("stream", "running")
    BY <1>2 DEF StartStream
  <2>2. /\ runs'["stream"].phase = "running"
        /\ runs'["stream"].steps = runs["stream"].steps
        /\ \A e \in Callers \ {"stream"} : runs'[e] = runs[e]
    BY <1>0, <2>1, RunFields, CallersType
  <2>3. runs["stream"].steps \in 0..RecursionLimit
    BY <1>0, CallersType DEF Runs
  <2> QED
    BY <1>c, <2>1, <2>2, <2>3, CallersType
<1>3. ASSUME NEW r \in Reviewers, NEW decision \in Decisions, RequestApproval(r, decision)
      PROVE  RunWork(runs'[c]) <= RunWork(runs[c])
  <2>1. /\ runs[r].phase = "idle"
        /\ runs'[r].phase = "running" /\ runs'[r].steps = 0
        /\ \A e \in Callers \ {r} : runs'[e] = runs[e]
    BY <1>0, <1>3, RunFields, CallersType DEF RequestApproval
  <2> QED
    BY <1>c, <2>1, CallersType
<1>4. CASE Disconnect
  <2>1. Active("stream") /\ SetPhase("stream", "over")
    BY <1>4 DEF Disconnect, SendLast
  <2> QED
    BY <1>b, <2>1, AnswerConsumes, CallersType
<1>5. CASE CrashApi
  <2>1. runs'[c] = runs[c] \/ runs'[c].phase = "over"
    BY <1>0, <1>5, FreshFields DEF CrashApi, Runs
  <2>2. runs'[c].phase = "over" => RunWork(runs'[c]) = 0
    BY RunWorkOf
  <2> QED
    BY <1>a, <2>1, <2>2
<1>6. CASE UNCHANGED vars
  BY <1>6, <1>a DEF vars
<1> QED
  BY <1>1, <1>2, <1>3, <1>4, <1>5, <1>6 DEF Next, ClientStep

\* The first half of why everyone is answered: each step of the process is
\* one invocation's and uses up some of its bounded work, and nothing gives
\* any invocation work back: no loop over chunks beyond the supersteps, no
\* second approval, no restart of the process (graph.py:864-891,
\* routes.py:359-437, 492-512).  So the process takes finitely many steps.
THEOREM InvocationsEnd ==
    Spec => [][/\ ApiStep => \E c \in Callers : Consumes(c)
               /\ \A c \in Callers : RunWork(runs'[c]) <= RunWork(runs[c])]_vars
<1>1. TypeOK /\ [Next]_vars =>
        [/\ ApiStep => \E c \in Callers : Consumes(c)
         /\ \A c \in Callers : RunWork(runs'[c]) <= RunWork(runs[c])]_vars
  BY ApiStepConsumes, WorkNeverGrows
<1> QED
  BY <1>1, TypeCorrect, PTL DEF Spec

\* A stream that has started still runs, or its client was sent a last event
\* or is gone.
Heard ==
    \/ runs["stream"].phase = "idle"
    \/ Active("stream")
    \/ event.kind # "none"

LEMMA NextHeard == TypeOK /\ Heard /\ [Next]_vars => Heard'
<1> SUFFICES ASSUME TypeOK, Heard, [Next]_vars PROVE Heard'
  OBVIOUS
<1>0. runs \in [Callers -> Runs] /\ "stream" \in Callers
  BY CallersType DEF TypeOK
\* Another caller's step.
<1>a. ASSUME runs'["stream"] = runs["stream"], UNCHANGED event PROVE Heard'
  BY <1>a DEF Heard, Active
\* The stream's last event.
<1>b. ASSUME NEW kind \in {"interrupt", "done", "error", "gone"}, NEW error,
             SendLast(kind, error)
      PROVE  Heard'
  BY <1>b DEF SendLast, Heard
<1>1. ASSUME NEW c \in Callers, GraphStep(c) PROVE Heard'
  <2>1. UNCHANGED event
    BY <1>1 DEF GraphStep, RunNode, Superstep, RunApproval, Suspend, RunFinalizer,
                SaveCheckpoint, Finish, ExceedRecursion, Raise
  <2>2. CASE c # "stream"
    <3>1. runs'["stream"] = runs["stream"]
      BY <1>0, <1>1, <2>2, GraphStepConsumes DEF Consumes
    <3> QED
      BY <1>a, <2>1, <3>1
  <2>3. CASE c = "stream"
    <3>1. ASSUME NEW s, NEW p \in {"running", "saving"},
                 runs' = [runs EXCEPT ![c] = Returned(c, s, p)]
          PROVE  runs'[c].phase = p
      BY <1>0, <3>1, RunFields, ReturnedFields
    <3>2. \/ \E s : \/ runs' = [runs EXCEPT ![c] = Returned(c, s, "running")]
                    \/ runs' = [runs EXCEPT ![c] = Returned(c, s, "saving")]
          \/ \E p \in {"running", "ended", "raised", "exhausted"} : SetPhase(c, p)
      BY <1>1 DEF GraphStep, RunNode, Superstep, RunApproval, Suspend, RunFinalizer,
                  Return, SaveCheckpoint, Finish, ExceedRecursion, Raise
    <3>3. runs'[c].phase \in {"running", "saving", "ended", "raised", "exhausted"}
      BY <1>0, <3>1, <3>2, RunFields
    <3> QED
      BY <2>3, <3>3 DEF Heard, Active
  <2> QED
    BY <2>2, <2>3
<1>2. CASE EndStream \/ EndStreamUnasked \/ FailStream \/ Disconnect
  BY <1>2, <1>b DEF EndStream, EndStreamUnasked, FailStream, Disconnect
<1>3. ASSUME NEW r \in Reviewers, AnswerApproval(r) \/ FailApproval(r) PROVE Heard'
  BY <1>0, <1>3, <1>a, RunFields, CallersType DEF AnswerApproval, FailApproval, histories
<1>4. CASE StartStream
  <2>1. runs'["stream"].phase = "running"
    BY <1>0, <1>4, RunFields DEF StartStream
  <2> QED
    BY <2>1 DEF Heard, Active
<1>5. ASSUME NEW r \in Reviewers, NEW d \in Decisions, RequestApproval(r, d) PROVE Heard'
  <2>1. runs'["stream"] = runs["stream"] /\ UNCHANGED event
    BY <1>0, <1>5, RunFields, CallersType DEF RequestApproval
  <2> QED
    BY <1>a, <2>1
<1>6. CASE CrashApi
  <2>1. CASE Active("stream")
    BY <1>6, <2>1 DEF CrashApi, Heard
  <2>2. CASE ~Active("stream")
    BY <1>0, <1>6, <2>2, <1>a DEF CrashApi
  <2> QED
    BY <2>1, <2>2
<1>7. CASE UNCHANGED vars
  BY <1>7, <1>a DEF vars
<1> QED
  BY <1>1, <1>2, <1>3, <1>4, <1>5, <1>6, <1>7 DEF Next, ApiStep, ClientStep

\* The second half: a stream does not end in silence, whether the graph
\* finishes, raises, is suspended or cancelled (routes.py:389-437).
THEOREM StreamsAreHeard == Spec => []Heard
<1>1. Init => Heard
  BY CallersType, FreshFields DEF Init, Heard
<1>2. TypeOK /\ Heard /\ [Next]_vars => Heard'
  BY NextHeard
<1> QED
  BY <1>1, <1>2, TypeCorrect, PTL DEF Spec

=============================================================================
