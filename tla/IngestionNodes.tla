---------------------------- MODULE IngestionNodes ----------------------------
(***************************************************************************)
(* The nodes and edges of the catalogue ingestion graph                   *)
(* (ingestion/graph.py): a file is split into chunks, an LLM maps each    *)
(* chunk to service items, the items are validated, reviewed when in      *)
(* doubt and written.  A node is an operator from a state to the states   *)
(* it may return; the choice is what storage and the LLM answer.          *)
(*                                                                         *)
(* A row is data nothing depends on, so a chunk is its number.  An item   *)
(* is known by the chunk and the place in the LLM's answer it came from.  *)
(***************************************************************************)
EXTENDS Integers, Sequences, FiniteSetsExt

CONSTANTS
    ChunkSize,             \* settings.ingestion_chunk_size
    Replies,               \* the arrays the LLM may answer with
    Scale,                 \* confidences are in units of 1/Scale
    ConfidenceThreshold,   \* average below which a batch is reviewed
    FlagThreshold          \* an item below it is flagged

\* One element of the LLM's array: invalid, if ServiceItem refuses it,
\* skipped, if it is no object.  id 0: none given.  suspect: a business rule
\* of the validator objects to it.
Entries ==
    [form       : {"valid", "invalid", "skipped"},
     id         : Nat,
     confidence : 0..Scale,
     flagged    : BOOLEAN,
     suspect    : BOOLEAN]

ASSUME IngestionAssumption ==
    /\ ChunkSize \in Nat \ {0}
    /\ Scale \in Nat \ {0}
    /\ ConfidenceThreshold \in 0..Scale
    /\ FlagThreshold \in 0..Scale
    /\ Replies \subseteq Seq(Entries)

\* The id is <<chunk, place>> if ServiceItem makes a new UUID, <<0, n>> if
\* the LLM gave one.
ServiceItem ==
    [chunk      : Nat,
     place      : Nat,
     id         : Nat \X Nat,
     confidence : 0..Scale,
     flagged    : BOOLEAN,
     suspect    : BOOLEAN]

\* raw_chunks is the number of chunks.  normalized_items, a list with the
\* reducer operator.add, is here the list of what was added to it: the items
\* of one reply at a time.  confidence_score is the side of the threshold on
\* which the average is.
IngestionState ==
    [raw_chunks          : Nat,
     current_chunk_index : Nat,
     normalized_items    : Seq(SUBSET ServiceItem),
     flagged_items       : SUBSET ServiceItem,
     confidence_score    : {"low", "high"},
     approved            : {"None", "True", "False"},
     error               : BOOLEAN]

InitialState ==
    [raw_chunks          |-> 0,
     current_chunk_index |-> 0,
     normalized_items    |-> <<>>,
     flagged_items       |-> {},
     confidence_score    |-> "low",
     approved            |-> "None",
     error               |-> FALSE]

-----------------------------------------------------------------------------
(* Chunker *)

ChunkCount(rows) == (rows + ChunkSize - 1) \div ChunkSize

\* All other fields are written with the values they have at the entry.
Chunked(s, rows) ==
    [s EXCEPT !.raw_chunks          = ChunkCount(rows),
              !.current_chunk_index = 0,
              !.flagged_items       = {},
              !.confidence_score    = "low",
              !.approved            = "None",
              !.error               = FALSE]

\* The download or the parser failed; the graph goes on without chunks.
ChunkerFailed(s) == [s EXCEPT !.raw_chunks = 0, !.error = TRUE]

ChunkerNode(s, rows) == {Chunked(s, rows), ChunkerFailed(s)}

-----------------------------------------------------------------------------
(* Normalizer *)

\* An entry that ServiceItem refuses becomes a flagged placeholder without
\* confidence, so that its row is not dropped.
Item(entry, chunk, place) ==
    IF entry.form = "invalid"
    THEN [chunk |-> chunk, place |-> place, id |-> <<chunk, place>>,
          confidence |-> 0, flagged |-> TRUE, suspect |-> FALSE]
    ELSE [chunk |-> chunk, place |-> place,
          id         |-> IF entry.id = 0 THEN <<chunk, place>>
                                         ELSE <<0, entry.id>>,
          confidence |-> entry.confidence,
          flagged    |-> entry.flagged \/ entry.confidence < FlagThreshold,
          suspect    |-> entry.suspect]

\* _parse_normalizer_response.  An unreadable reply is the empty one.
Parsed(reply, chunk) ==
    {Item(reply[i], chunk, i) :
        i \in {j \in DOMAIN reply : reply[j].form # "skipped"}}

OutOfRange(s) == s.current_chunk_index >= s.raw_chunks

NormalizerSkipped(s) == [s EXCEPT !.current_chunk_index = @ + 1]

\* Mutant of NormalizerFailed: the failed chunk is tried again.
NormalizerTriesAgain(s) == [s EXCEPT !.error = TRUE]

NormalizerFailed(s) ==
    [s EXCEPT !.current_chunk_index = @ + 1, !.error = TRUE]

Normalized(s, reply) ==
    [s EXCEPT !.current_chunk_index = @ + 1,
              !.normalized_items =
                    Append(@, Parsed(reply, s.current_chunk_index + 1)),
              !.error = FALSE]

NormalizerNode(s) ==
    IF OutOfRange(s) THEN {NormalizerSkipped(s)}
    ELSE {NormalizerFailed(s)} \cup {Normalized(s, r) : r \in Replies}

\* Rows json.dumps cannot write, or rows that are no objects.
NormalizerMayRaise(s) == ~OutOfRange(s)

-----------------------------------------------------------------------------
(* Validator *)

NeedsAttention(item) == item.flagged \/ item.suspect

AllItems(s) ==
    UNION {s.normalized_items[i] : i \in DOMAIN s.normalized_items}

\* The average, rounded to four digits, of at least one item.
AverageIsHigh(items) ==
    LET n     == Cardinality(items)
        total == MapThenSumSet(LAMBDA item : item.confidence, items)
        score == (2 * 10000 * total + n * Scale) \div (2 * n * Scale)
    IN  n > 0 /\ score * Scale >= ConfidenceThreshold * 10000

Validated(s) ==
    [s EXCEPT !.flagged_items = {item \in AllItems(s) : NeedsAttention(item)},
              !.confidence_score =
                    IF AverageIsHigh(AllItems(s)) THEN "high" ELSE "low",
              !.error = FALSE]

\* Mutant of ValidatorNode: the checked items are returned as
\* normalized_items, which operator.add appends (graph.py:520-523).
ValidatorReturnsItems(s) ==
    [Validated(s) EXCEPT !.normalized_items = Append(@, AllItems(s))]

\* The flags the business rules set go to flagged_items only.
ValidatorNode(s) == Validated(s)

-----------------------------------------------------------------------------
(* Approval and finalizer *)

\* What the node returns once interrupt() has returned the decision.
ApprovalNode(s, decision) ==
    [s EXCEPT !.approved = IF decision = "approve" THEN "True" ELSE "False",
              !.error    = FALSE]

Before(item, other) ==
    \/ item.chunk < other.chunk
    \/ item.chunk = other.chunk /\ item.place < other.place

\* The batch written: of the items with one id, the first.
UniqueItems(s) ==
    {item \in AllItems(s) :
        \A other \in AllItems(s) : other.id = item.id => ~Before(other, item)}

FinalizerWrote(s) == [s EXCEPT !.error = FALSE]

\* Mutant of FinalizerFailed: the caught exception is only logged.
FinalizerOnlyLogs(s) == s

FinalizerFailed(s) == [s EXCEPT !.error = TRUE]

-----------------------------------------------------------------------------
(* build_ingestion_graph *)

Nodes == {"chunker", "normalizer", "validator", "approval", "finalizer"}

RouteAfterNormalizer(s) == IF OutOfRange(s) THEN "validator" ELSE "normalizer"

NeedsReview(s) == s.confidence_score = "low" \/ s.flagged_items # {}

\* Mutant of RouteAfterValidator: only the average decides.
RouteOnAverage(s) ==
    IF s.confidence_score = "low" THEN "approval" ELSE "finalizer"

RouteAfterValidator(s) == IF NeedsReview(s) THEN "approval" ELSE "finalizer"

RouteAfterApproval(s) ==
    IF s.approved = "True" THEN "finalizer" ELSE "__end__"

Edge(node, s) ==
    CASE node = "chunker"    -> "normalizer"
      [] node = "normalizer" -> RouteAfterNormalizer(s)
      [] node = "validator"  -> RouteAfterValidator(s)
      [] node = "approval"   -> RouteAfterApproval(s)
      [] node = "finalizer"  -> "__end__"

=============================================================================
