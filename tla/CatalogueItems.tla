--------------------------- MODULE CatalogueItems ---------------------------
(***************************************************************************)
(* The service catalogue of one tenant and everything that writes it:     *)
(* PATCH /api/catalog/items/{item_id} with its audit log                  *)
(* (api/catalogue_routes.py), the update_embedding_task it enqueues       *)
(* (worker/tasks.py), the upsert of an ingestion and the tenant's wipe    *)
(* (database/vector_store.py).  The row a PATCH compares with, the UPDATE *)
(* and the enqueue are separate awaits, and an embedding task writes a    *)
(* vector of the row it read before it called the embedding service.      *)
(*                                                                         *)
(* A vector is represented by the text it was computed from.  The audit   *)
(* log is kept per item and field, in the order of the transactions; NULL *)
(* is both SQL's NULL and the "None" that str() makes of it.               *)
(***************************************************************************)
EXTENDS Integers, Sequences, FiniteSets

CONSTANTS
    Items,          \* ids gen_random_uuid() may give to rows
    Services,       \* service names
    Prices,         \* prices, 0.0 among them
    Descriptions,
    Bodies,         \* PATCH bodies the clients send, see Body
    Ingested,       \* rows ingestions write
    Clients,        \* tenant sessions, each one PATCH at a time
    Slots,          \* job slots of the worker, ARQ_MAX_JOBS of them
    MaxPatches,     \* bound: PATCH requests
    MaxUpserts,     \* bound: rows written by ingestions
    MaxWipes,       \* bound: wipes
    MaxCrashes,     \* bound: restarts of the worker
    Faults          \* which failures of the surroundings happen

Null == "NULL"
Zero == "0.0"
PriceTypes == {"FIXED", "FREE", "VARIABLE"}

\* Columns a PATCH may change, and those that enqueue a new embedding.
PatchableColumns == {"service", "price", "price_type", "description"}
EmbeddingTriggerColumns == {"service", "description"}

ColumnValues ==
    [service     |-> Services,
     price       |-> Prices \cup {Null},
     price_type  |-> PriceTypes,
     description |-> Descriptions]

AllValues == Services \cup Prices \cup {Null} \cup PriceTypes \cup Descriptions

\* Columns absent from the request or sent as null are left out.
Body(b) ==
    /\ DOMAIN b \subseteq PatchableColumns
    /\ \A f \in DOMAIN b : b[f] \in ColumnValues[f] \ {Null}

Rows == {r \in [PatchableColumns -> AllValues] :
            \A f \in PatchableColumns : r[f] \in ColumnValues[f]}

\* The text update_embedding_task embeds: price included.
Texts ==
    [service     : Services,
     price       : Prices \cup {Null},
     description : Descriptions]

\* chk_hybrid_pricing_logic
Legal(r) ==
    \/ r.price_type = "FREE" /\ r.price = Zero
    \/ r.price_type = "FIXED" /\ r.price # Null
    \/ r.price_type = "VARIABLE" /\ r.price = Null

ASSUME CatalogueAssumption ==
    /\ Null \notin Prices \cup Services \cup Descriptions
    /\ Zero \in Prices
    /\ \A b \in Bodies : Body(b)
    /\ Ingested \subseteq {r \in Rows : Legal(r)}
    /\ IsFiniteSet(Slots)
    /\ MaxPatches \in Nat /\ MaxUpserts \in Nat
    /\ MaxWipes \in Nat /\ MaxCrashes \in Nat
    /\ Faults \subseteq {"request_lost", "embedding_fails"}

VARIABLES
    rows,         \* Postgres: catalogue_items, by id
    vectors,      \* Postgres: the text the embedding column was computed from
    audit,        \* Postgres: audit_log of each item and column
    requests,     \* API: the PATCH each client has in flight
    queue,        \* Redis: how many embedding tasks of each item wait
    slots,        \* worker: the task in each slot
    inserted,     \* history: each row as it was inserted
    overwritten,  \* history: items an ingestion wrote over
    overtaken,    \* history: columns a PATCH changed that were no longer what
                  \* it had read
    missed,       \* history: items whose last task was lost or failed
    spent         \* requests made so far, against the bounds

vars == <<rows, vectors, audit, requests, queue, slots,
          inserted, overwritten, overtaken, missed, spent>>

NoRow == [deleted |-> TRUE]
Idle  == [step |-> "idle"]

Bounded == {"patches", "upserts", "wipes", "crashes"}

AuditEntry ==
    [old : AllValues,
     new : AllValues \cup {"PriceType.FIXED", "PriceType.FREE",
                            "PriceType.VARIABLE"}]

Requests ==
    [step : {"read"}, item : Items, body : Bodies, existing : Rows]
        \cup [step : {"committed"}, item : Items]

TypeOK ==
    /\ rows \in [Items -> Rows \cup {NoRow}]
    /\ vectors \in [Items -> Texts \cup {NoRow}]
    /\ audit \in [Items -> [PatchableColumns -> Seq(AuditEntry)]]
    /\ requests \in [Clients -> Requests \cup {Idle}]
    /\ queue \in [Items -> Nat]
    /\ slots \in [Slots -> {Idle} \cup
                     [step : {"embedding"}, item : Items, text : Texts]]
    /\ inserted \in [Items -> Rows \cup {NoRow}]
    /\ overwritten \subseteq Items
    /\ overtaken \subseteq Items \X PatchableColumns
    /\ missed \subseteq Items
    /\ spent \in [Bounded -> Nat]

Init ==
    /\ rows = [i \in Items |-> NoRow]
    /\ vectors = [i \in Items |-> NoRow]
    /\ audit = [i \in Items |-> [f \in PatchableColumns |-> <<>>]]
    /\ requests = [c \in Clients |-> Idle]
    /\ queue = [i \in Items |-> 0]
    /\ slots = [s \in Slots |-> Idle]
    /\ inserted = [i \in Items |-> NoRow]
    /\ overwritten = {}
    /\ overtaken = {}
    /\ missed = {}
    /\ spent = [k \in Bounded |-> 0]

Exists(i) == rows[i] # NoRow

Spend(kind) ==
    /\ spent[kind] < (CASE kind = "patches" -> MaxPatches
                        [] kind = "upserts" -> MaxUpserts
                        [] kind = "wipes"   -> MaxWipes
                        [] kind = "crashes" -> MaxCrashes)
    /\ spent' = [spent EXCEPT ![kind] = @ + 1]

Text(r) == [service |-> r.service, price |-> r.price,
            description |-> r.description]

-----------------------------------------------------------------------------
(* PATCH /api/catalog/items/{item_id} *)

\* coerce_price_for_price_type, and the None that VARIABLE puts back.
Updates(b) ==
    IF "price_type" \notin DOMAIN b \/ b["price_type"] = "FIXED" THEN b
    ELSE [f \in DOMAIN b \cup {"price"} |->
            IF f # "price" THEN b[f]
            ELSE IF b["price_type"] = "FREE" THEN Zero ELSE Null]

Patched(r, u) ==
    [f \in PatchableColumns |-> IF f \in DOMAIN u THEN u[f] ELSE r[f]]

\* str() of a value of the request: price_type is a member of an Enum there
\* and a plain string in the row.
EnumText ==
    [v \in PriceTypes |-> IF v = "FIXED" THEN "PriceType.FIXED"
                          ELSE IF v = "FREE" THEN "PriceType.FREE"
                          ELSE "PriceType.VARIABLE"]

Written(f, v) == IF f = "price_type" THEN EnumText[v] ELSE v

\* Mutant of Audited: a column set to NULL is skipped, like a None of the
\* request.
AuditedUnlessNull(log, existing, u) ==
    [f \in PatchableColumns |->
        IF f \in DOMAIN u /\ existing[f] # Written(f, u[f]) /\ u[f] # Null
        THEN Append(log[f], [old |-> existing[f], new |-> Written(f, u[f])])
        ELSE log[f]]

\* The audit_log rows of one PATCH: old is what the handler read first.
Audited(log, existing, u) ==
    [f \in PatchableColumns |->
        IF f \in DOMAIN u /\ existing[f] # Written(f, u[f])
        THEN Append(log[f], [old |-> existing[f], new |-> Written(f, u[f])])
        ELSE log[f]]

\* Mutant of NeedsReembedding: only a new name does.
OnlyServiceReembeds(u) == "service" \in DOMAIN u

NeedsReembedding(u) == DOMAIN u \cap EmbeddingTriggerColumns # {}

\* An empty body (422) and an unknown item (404) change nothing.
ReadItem(c, i, b) ==
    /\ requests[c] = Idle
    /\ Spend("patches")
    /\ DOMAIN b # {}
    /\ Exists(i)
    /\ requests' = [requests EXCEPT ![c] = [step |-> "read", item |-> i,
                                            body |-> b, existing |-> rows[i]]]
    /\ UNCHANGED <<rows, vectors, audit, queue, slots,
                   inserted, overwritten, overtaken, missed>>

\* chk_hybrid_pricing_logic and UNIQUE (tenant_id, service).
Accepts(i, r) ==
    /\ Legal(r)
    /\ \A k \in Items \ {i} : Exists(k) => rows[k].service # r.service

\* The columns of update u that changed since request q read them.
Stale(q, u) == {f \in DOMAIN u : q.existing[f] # rows[q.item][f]}

\* The transaction: UPDATE of the row as it is now, audit of the row as it
\* was read.  The answer follows, unless a task has to be enqueued.
UpdateItem(c) ==
    LET q == requests[c]
        u == Updates(q.body)
    IN  /\ q.step = "read"
        /\ Exists(q.item)
        /\ Accepts(q.item, Patched(rows[q.item], u))
        /\ rows' = [rows EXCEPT ![q.item] = Patched(@, u)]
        /\ audit' = [audit EXCEPT ![q.item] = Audited(@, q.existing, u)]
        /\ requests' = [requests EXCEPT ![c] =
                            IF NeedsReembedding(u)
                            THEN [step |-> "committed", item |-> q.item]
                            ELSE Idle]
        /\ overtaken' = overtaken \cup {<<q.item, f>> : f \in Stale(q, u)}
        /\ UNCHANGED <<vectors, queue, slots,
                       inserted, overwritten, missed, spent>>

\* 422 by the CHECK, 500 by the UNIQUE constraint, 404 by a wipe since the
\* read: the transaction is rolled back.
RefuseUpdate(c) ==
    LET q == requests[c]
    IN  /\ q.step = "read"
        /\ ~(Exists(q.item)
             /\ Accepts(q.item, Patched(rows[q.item], Updates(q.body))))
        /\ requests' = [requests EXCEPT ![c] = Idle]
        /\ UNCHANGED <<rows, vectors, audit, queue, slots,
                       inserted, overwritten, overtaken, missed, spent>>

\* Mutant of EnqueueEmbedding: no second task while one of the item runs.
EnqueueDeduplicated(c) ==
    LET i == requests[c].item
    IN  /\ requests[c].step = "committed"
        /\ queue' = IF \E s \in Slots : slots[s] # Idle /\ slots[s].item = i
                    THEN queue ELSE [queue EXCEPT ![i] = @ + 1]
        /\ requests' = [requests EXCEPT ![c] = Idle]
        /\ UNCHANGED <<rows, vectors, audit, slots,
                       inserted, overwritten, overtaken, missed, spent>>

EnqueueEmbedding(c) ==
    LET q == requests[c]
    IN  /\ q.step = "committed"
        /\ queue' = [queue EXCEPT ![q.item] = @ + 1]
        /\ requests' = [requests EXCEPT ![c] = Idle]
        /\ UNCHANGED <<rows, vectors, audit, slots,
                       inserted, overwritten, overtaken, missed, spent>>

\* The API process dies, or Postgres or Redis fails the request.
LoseRequest(c) ==
    /\ "request_lost" \in Faults
    /\ requests[c] # Idle
    /\ requests' = [requests EXCEPT ![c] = Idle]
    /\ missed' = IF requests[c].step = "committed"
                 THEN missed \cup {requests[c].item} ELSE missed
    /\ UNCHANGED <<rows, vectors, audit, queue, slots,
                   inserted, overwritten, overtaken, spent>>

-----------------------------------------------------------------------------
(* update_embedding_task *)

\* Mutant of FetchRow: a task runs that nobody enqueued.
FetchRowUnasked(s, i) ==
    /\ slots[s] = Idle
    /\ Exists(i)
    /\ queue' = [queue EXCEPT ![i] = @ - 1]
    /\ slots' = [slots EXCEPT ![s] = [step |-> "embedding", item |-> i,
                                     text |-> Text(rows[i])]]
    /\ missed' = missed \ {i}
    /\ UNCHANGED <<rows, vectors, audit, requests,
                   inserted, overwritten, overtaken, spent>>

\* A task takes a slot and reads the record as it is now; without one it
\* ends ("not_found").
FetchRow(s, i) ==
    /\ slots[s] = Idle
    /\ queue[i] > 0
    /\ queue' = [queue EXCEPT ![i] = @ - 1]
    /\ slots' = [slots EXCEPT ![s] =
                    IF Exists(i)
                    THEN [step |-> "embedding", item |-> i,
                          text |-> Text(rows[i])]
                    ELSE Idle]
    /\ missed' = missed \ {i}
    /\ UNCHANGED <<rows, vectors, audit, requests,
                   inserted, overwritten, overtaken, spent>>

\* The embedding service answered; only the embedding column is written.
StoreVector(s) ==
    LET i == slots[s].item
    IN  /\ slots[s].step = "embedding"
        /\ slots' = [slots EXCEPT ![s] = Idle]
        /\ vectors' = [vectors EXCEPT ![i] =
                          IF Exists(i) THEN slots[s].text ELSE @]
        /\ UNCHANGED <<rows, audit, requests, queue,
                       inserted, overwritten, overtaken, missed, spent>>

\* EmbeddingError ends the task; ARQ repeats only jobs that raise Retry.
FailEmbedding(s) ==
    /\ "embedding_fails" \in Faults
    /\ slots[s].step = "embedding"
    /\ slots' = [slots EXCEPT ![s] = Idle]
    /\ missed' = missed \cup {slots[s].item}
    /\ UNCHANGED <<rows, vectors, audit, requests, queue,
                   inserted, overwritten, overtaken, spent>>

\* The worker dies or is redeployed; ARQ runs its jobs again.
CrashWorker ==
    /\ Spend("crashes")
    /\ queue' = [i \in Items |->
                    queue[i] + Cardinality({s \in Slots :
                                              /\ slots[s] # Idle
                                              /\ slots[s].item = i})]
    /\ slots' = [s \in Slots |-> Idle]
    /\ UNCHANGED <<rows, vectors, audit, requests,
                   inserted, overwritten, overtaken, missed>>

-----------------------------------------------------------------------------
(* Ingestion and wipe *)

\* INSERT ... ON CONFLICT (tenant_id, service) DO UPDATE, with the vector and
\* without audit.
InsertItem(i, r) ==
    /\ Spend("upserts")
    /\ inserted[i] = NoRow
    /\ \A k \in Items : Exists(k) => rows[k].service # r.service
    /\ rows' = [rows EXCEPT ![i] = r]
    /\ vectors' = [vectors EXCEPT ![i] = Text(r)]
    /\ inserted' = [inserted EXCEPT ![i] = r]
    /\ UNCHANGED <<audit, requests, queue, slots,
                   overwritten, overtaken, missed>>

OverwriteItem(i, r) ==
    /\ Spend("upserts")
    /\ Exists(i)
    /\ rows[i].service = r.service
    /\ rows' = [rows EXCEPT ![i] = r]
    /\ vectors' = [vectors EXCEPT ![i] = Text(r)]
    /\ overwritten' = overwritten \cup {i}
    /\ UNCHANGED <<audit, requests, queue, slots,
                   inserted, overtaken, missed>>

\* wipe_tenant: the audit log stays.
WipeTenant ==
    /\ Spend("wipes")
    /\ rows' = [i \in Items |-> NoRow]
    /\ vectors' = [i \in Items |-> NoRow]
    /\ UNCHANGED <<audit, requests, queue, slots,
                   inserted, overwritten, overtaken, missed>>

-----------------------------------------------------------------------------

ApiStep ==
    \E c \in Clients : UpdateItem(c) \/ RefuseUpdate(c) \/ EnqueueEmbedding(c)

WorkerStep ==
    \E s \in Slots : StoreVector(s) \/ \E i \in Items : FetchRow(s, i)

FaultStep ==
    \/ \E c \in Clients : LoseRequest(c)
    \/ \E s \in Slots : FailEmbedding(s)
    \/ CrashWorker

TenantStep ==
    \/ \E c \in Clients, i \in Items, b \in Bodies : ReadItem(c, i, b)
    \/ \E i \in Items, r \in Ingested : InsertItem(i, r) \/ OverwriteItem(i, r)
    \/ WipeTenant

Next == ApiStep \/ WorkerStep \/ FaultStep \/ TenantStep

\* The API finishes the requests it accepted and the worker its tasks; the
\* tenant owes nothing and faults are never obliged to happen.
Spec == Init /\ [][Next]_vars /\ WF_vars(ApiStep) /\ WF_vars(WorkerStep)

-----------------------------------------------------------------------------
(* Properties *)

\* A task for the item is still to come or to end.
Pending(i) ==
    \/ queue[i] > 0
    \/ \E c \in Clients : requests[c].step = "committed" /\ requests[c].item = i
    \/ \E s \in Slots : slots[s] # Idle /\ slots[s].item = i

\* The columns that trigger an embedding are those of the vector.
VectorCurrent(i) ==
    \A f \in EmbeddingTriggerColumns : vectors[i][f] = rows[i][f]

\* Eventual consistency of the search (catalogue_routes.py:15-16, 211-213):
\* when no task is left the vector is that of the row, whatever PATCHes
\* committed between the steps of each other and of the tasks.  A task that
\* was lost or failed leaves the row with an old vector until the next one.
VectorFollowsRow ==
    \A i \in Items \ (overwritten \cup missed) :
        Exists(i) /\ ~Pending(i) => VectorCurrent(i)

\* As liveness: once the tenant stops, every vector becomes and stays that
\* of its row, unless the last task for it was lost or failed.
VectorCatchesUp ==
    \A i \in Items :
        <>[](Exists(i) /\ i \notin overwritten \cup missed => VectorCurrent(i))

\* The value an audit row's new_value stands for.
Denoted(f, text) ==
    IF f # "price_type" THEN text
    ELSE CHOOSE v \in PriceTypes : Written(f, v) = text

\* What a log tells of a column: the value before its k-th row ...
Before(f, first, log, k) ==
    IF k = 1 THEN first ELSE Denoted(f, log[k - 1].new)

\* ... the values that led up to it ...
Known(f, first, log, k) == {Before(f, first, log, j) : j \in 1..k}

\* ... and whether the log leads from the first value to the last, each row
\* from where the one before it ended.
Chain(f, first, log, last) ==
    /\ \A k \in 1..Len(log) : log[k].old = Before(f, first, log, k)
    /\ last = Before(f, first, log, Len(log) + 1)

\* No value is missing: what a log row calls old, and what the column is now,
\* was inserted or logged before.
Complete(f, first, log, last) ==
    /\ \A k \in 1..Len(log) : log[k].old \in Known(f, first, log, k)
    /\ last \in Known(f, first, log, Len(log) + 1)

\* No excess: the value changed.  An unchanged price_type is logged, too.
OnlyChanges(f, log) ==
    f # "price_type" =>
      \A k \in 1..Len(log) : log[k].old # Denoted(f, log[k].new)

AuditExplains(i) ==
    \A f \in PatchableColumns :
        LET first == inserted[i][f]
            log   == audit[i][f]
        IN  /\ Complete(f, first, log, rows[i][f])
            /\ <<i, f>> \notin overtaken => Chain(f, first, log, rows[i][f])
            /\ OnlyChanges(f, log)

\* What the audit log tells of a row no ingestion wrote over
\* (catalogue_routes.py:300-323), whichever PATCHes overlap: no value is
\* missing from it; a column no PATCH wrote on a stale reading (line 305) is
\* the end of an unbroken chain; and only changes are logged, except that an
\* unchanged price_type is logged as well (line 306).
AuditExplainsRows ==
    \A i \in Items \ overwritten : Exists(i) => AuditExplains(i)

-----------------------------------------------------------------------------
(* What the documents say and the code does not do *)

\* README.md:432: audit_log "traccia ogni modifica campo per campo";
\* 003_audit_log.py:2: "tracks every field-level change".  A PATCH that
\* changes a column logs a change of it.
EveryChangeIsTracked ==
    [][\A i \in Items \ overwritten', f \in PatchableColumns :
          Exists(i) /\ Exists(i)' /\ rows'[i][f] # rows[i][f]
            => audit'[i][f] # audit[i][f]]_vars

=============================================================================
