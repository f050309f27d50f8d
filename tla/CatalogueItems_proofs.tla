------------------------ MODULE CatalogueItems_proofs ------------------------
(***************************************************************************)
(* Proofs about CatalogueItems, for any catalogue, requests and bounds:   *)
(* types; with one job slot the vectors follow the rows; the audit log     *)
(* explains the rows, whichever PATCHes overlap and whatever fails.        *)
(***************************************************************************)
EXTENDS CatalogueItems, FiniteSetTheorems, TLAPS

-----------------------------------------------------------------------------
(* Rows and requests *)

EnumTexts == {"PriceType.FIXED", "PriceType.FREE", "PriceType.VARIABLE"}

LEMMA ColumnsOfRows ==
    ASSUME NEW r \in Rows
    PROVE  /\ r # NoRow
           /\ Text(r) \in Texts
           /\ Text(r) # NoRow
           /\ \A f \in EmbeddingTriggerColumns : Text(r)[f] = r[f]
<1>1. r["service"] \in Services /\ r["price"] \in Prices \cup {Null}
      /\ r["description"] \in Descriptions
    BY DEF Rows, PatchableColumns, ColumnValues
<1>2. DOMAIN r = PatchableColumns
    BY DEF Rows
<1>3. r # NoRow
    BY <1>2 DEF NoRow, PatchableColumns
<1> QED
    BY <1>1, <1>3 DEF Text, Texts, NoRow, EmbeddingTriggerColumns

\* What a request asks for fits the columns, and NULL is asked for only by
\* VARIABLE.
LEMMA UpdatesTyped ==
    ASSUME NEW b \in Bodies
    PROVE  /\ DOMAIN Updates(b) \subseteq PatchableColumns
           /\ \A f \in DOMAIN Updates(b) : Updates(b)[f] \in ColumnValues[f]
<1>1. Body(b)
    BY CatalogueAssumption
<1>2. CASE "price_type" \notin DOMAIN b \/ b["price_type"] = "FIXED"
    BY <1>1, <1>2 DEF Updates, Body
<1>3. CASE ~("price_type" \notin DOMAIN b \/ b["price_type"] = "FIXED")
    <2>1. DOMAIN Updates(b) = DOMAIN b \cup {"price"}
        BY <1>3 DEF Updates
    <2>2. ASSUME NEW f \in DOMAIN Updates(b)
          PROVE  Updates(b)[f] \in ColumnValues[f]
        <3>1. CASE f # "price"
            BY <1>1, <1>3, <2>1, <3>1 DEF Updates, Body
        <3>2. CASE f = "price"
            BY <1>3, <2>1, <3>2, CatalogueAssumption DEF Updates, ColumnValues
        <3> QED
            BY <3>1, <3>2
    <2> QED
        BY <1>1, <2>1, <2>2 DEF Body, PatchableColumns
<1> QED
    BY <1>2, <1>3

LEMMA PatchedTyped ==
    ASSUME NEW r \in Rows, NEW b \in Bodies
    PROVE  Patched(r, Updates(b)) \in Rows
<1> DEFINE u == Updates(b)
           p == Patched(r, u)
<1>1. \A f \in DOMAIN u : u[f] \in ColumnValues[f]
    BY UpdatesTyped
<1>2. \A f \in PatchableColumns : p[f] = IF f \in DOMAIN u THEN u[f] ELSE r[f]
    BY DEF Patched
<1>3. \A f \in PatchableColumns : p[f] \in ColumnValues[f]
    BY <1>1, <1>2 DEF Rows
<1>4. \A f \in PatchableColumns : ColumnValues[f] \subseteq AllValues
    BY DEF PatchableColumns, ColumnValues, AllValues
<1>5. p \in [PatchableColumns -> AllValues]
    BY <1>3, <1>4 DEF Patched
<1> QED
    BY <1>3, <1>5 DEF Rows

LEMMA WrittenTyped ==
    ASSUME NEW f \in PatchableColumns, NEW v \in ColumnValues[f]
    PROVE  /\ Written(f, v) \in AllValues \cup EnumTexts
           /\ Denoted(f, Written(f, v)) = v
           /\ f # "price_type" => Written(f, v) = v
           /\ f = "price_type" => Written(f, v) \in EnumTexts
<1>1. CASE f # "price_type"
    BY <1>1 DEF Written, Denoted, PatchableColumns, ColumnValues, AllValues
<1>2. CASE f = "price_type"
    <2>1. v \in PriceTypes
        BY <1>2 DEF ColumnValues
    <2>2. /\ Written(f, "FIXED") = "PriceType.FIXED"
          /\ Written(f, "FREE") = "PriceType.FREE"
          /\ Written(f, "VARIABLE") = "PriceType.VARIABLE"
        BY <1>2 DEF Written, EnumText, PriceTypes
    <2>3. \A w \in PriceTypes : Written(f, w) = Written(f, v) => w = v
        BY <2>1, <2>2 DEF PriceTypes
    <2>4. Denoted(f, Written(f, v)) = v
        BY <1>2, <2>1, <2>3 DEF Denoted
    <2> QED
        BY <1>2, <2>1, <2>2, <2>4 DEF PriceTypes, EnumTexts
<1> QED
    BY <1>1, <1>2

LEMMA AuditedTyped ==
    ASSUME NEW log \in [PatchableColumns -> Seq(AuditEntry)],
           NEW r \in Rows, NEW b \in Bodies
    PROVE  Audited(log, r, Updates(b)) \in [PatchableColumns -> Seq(AuditEntry)]
<1> DEFINE u == Updates(b)
<1> SUFFICES ASSUME NEW f \in PatchableColumns, f \in DOMAIN u
             PROVE  Append(log[f], [old |-> r[f], new |-> Written(f, u[f])])
                        \in Seq(AuditEntry)
    BY DEF Audited
<1>1. u[f] \in ColumnValues[f]
    BY UpdatesTyped
<1>2. Written(f, u[f]) \in AllValues \cup EnumTexts
    BY <1>1, WrittenTyped
<1>3. r[f] \in AllValues
    BY DEF Rows
<1>4. [old |-> r[f], new |-> Written(f, u[f])] \in AuditEntry
    BY <1>2, <1>3 DEF AuditEntry, EnumTexts
<1> HIDE DEF u
<1> QED
    BY <1>4

-----------------------------------------------------------------------------
(* Types *)

LEMMA InitialTypes == Init => TypeOK
BY CatalogueAssumption
   DEF Init, TypeOK, PatchableColumns, AuditEntry

LEMMA SpendTyped ==
    ASSUME TypeOK, NEW k \in Bounded, Spend(k)
    PROVE  spent' \in [Bounded -> Nat]
<1>1. spent' = [spent EXCEPT ![k] = @ + 1]
    BY DEF Spend
<1>2. spent \in [Bounded -> Nat]
    BY DEF TypeOK
<1> QED
    BY <1>1, <1>2

\* The number of slots that work on an item.
LEMMA CarriersCounted ==
    ASSUME NEW i \in Items
    PROVE  LET C == {s \in Slots : slots[s] # Idle /\ slots[s].item = i}
           IN  Cardinality(C) \in Nat /\ (C # {} => Cardinality(C) > 0)
<1> DEFINE C == {s \in Slots : slots[s] # Idle /\ slots[s].item = i}
<1>1. IsFiniteSet(C)
    BY CatalogueAssumption, FS_Subset
<1>2. Cardinality(C) \in Nat
    BY <1>1, FS_CardinalityType
<1>3. Cardinality(C) = 0 <=> C = {}
    BY <1>1, FS_EmptySet
<1> HIDE DEF C
<1>4. Cardinality(C) \in Nat /\ (C # {} => Cardinality(C) > 0)
    BY <1>2, <1>3
<1> QED
    BY <1>4 DEF C

LEMMA TypesKept == TypeOK /\ [Next]_vars => TypeOK'
<1> SUFFICES ASSUME TypeOK, [Next]_vars PROVE TypeOK'
    OBVIOUS
<1>1. ASSUME NEW c \in Clients, UpdateItem(c) PROVE TypeOK'
    <2> DEFINE q == requests[c]
               i == requests[c].item
    <2>1. q \in [step : {"read"}, item : Items, body : Bodies, existing : Rows]
        BY <1>1 DEF UpdateItem, TypeOK, Requests, Idle
    <2>2. rows[i] \in Rows
        BY <1>1, <2>1 DEF UpdateItem, TypeOK, Exists
    <2>3. rows' \in [Items -> Rows \cup {NoRow}]
        BY <1>1, <2>1, <2>2, PatchedTyped DEF UpdateItem, TypeOK
    <2>4. audit' \in [Items -> [PatchableColumns -> Seq(AuditEntry)]]
        BY <1>1, <2>1, AuditedTyped DEF UpdateItem, TypeOK
    <2>5. requests' \in [Clients -> Requests \cup {Idle}]
        BY <1>1, <2>1 DEF UpdateItem, TypeOK, Requests
    <2>6. overtaken' \subseteq Items \X PatchableColumns
        <3>1. Stale(q, Updates(q.body)) \subseteq PatchableColumns
            BY <2>1, UpdatesTyped DEF Stale
        <3> QED
            BY <1>1, <2>1, <3>1 DEF UpdateItem, TypeOK
    <2> QED
        BY <1>1, <2>3, <2>4, <2>5, <2>6 DEF UpdateItem, TypeOK
<1>2. ASSUME NEW c \in Clients, RefuseUpdate(c) PROVE TypeOK'
    BY <1>2 DEF RefuseUpdate, TypeOK
<1>3. ASSUME NEW c \in Clients, EnqueueEmbedding(c) PROVE TypeOK'
    <2>1. requests[c].item \in Items
        BY <1>3 DEF EnqueueEmbedding, TypeOK, Requests, Idle
    <2> QED
        BY <1>3, <2>1 DEF EnqueueEmbedding, TypeOK
<1>4. ASSUME NEW s \in Slots, StoreVector(s) PROVE TypeOK'
    <2>1. slots[s] \in [step : {"embedding"}, item : Items, text : Texts]
        BY <1>4 DEF StoreVector, TypeOK, Idle
    <2> QED
        BY <1>4, <2>1 DEF StoreVector, TypeOK
<1>5. ASSUME NEW s \in Slots, NEW i \in Items, FetchRow(s, i) PROVE TypeOK'
    <2>1. Exists(i) => Text(rows[i]) \in Texts
        BY ColumnsOfRows DEF TypeOK, Exists
    <2> QED
        BY <1>5, <2>1 DEF FetchRow, TypeOK
<1>6. ASSUME NEW c \in Clients, LoseRequest(c) PROVE TypeOK'
    <2>1. requests[c].step = "committed" => requests[c].item \in Items
        BY DEF TypeOK, Requests, Idle
    <2> QED
        BY <1>6, <2>1 DEF LoseRequest, TypeOK
<1>7. ASSUME NEW s \in Slots, FailEmbedding(s) PROVE TypeOK'
    <2>1. slots[s].item \in Items
        BY <1>7 DEF FailEmbedding, TypeOK, Idle
    <2> QED
        BY <1>7, <2>1 DEF FailEmbedding, TypeOK
<1>8. CASE CrashWorker
    <2>1. queue' \in [Items -> Nat]
        <3>1. queue \in [Items -> Nat]
            BY DEF TypeOK
        <3> QED
            BY <1>8, <3>1, CarriersCounted DEF CrashWorker
    <2>2. spent' \in [Bounded -> Nat]
        BY <1>8, SpendTyped DEF CrashWorker, Bounded
    <2> QED
        BY <1>8, <2>1, <2>2 DEF CrashWorker, TypeOK
<1>9. ASSUME NEW c \in Clients, NEW i \in Items, NEW b \in Bodies,
             ReadItem(c, i, b)
      PROVE  TypeOK'
    <2>1. rows[i] \in Rows
        BY <1>9 DEF ReadItem, TypeOK, Exists
    <2>2. requests' \in [Clients -> Requests \cup {Idle}]
        BY <1>9, <2>1 DEF ReadItem, TypeOK, Requests
    <2>3. spent' \in [Bounded -> Nat]
        BY <1>9, SpendTyped DEF ReadItem, Bounded
    <2> QED
        BY <1>9, <2>2, <2>3 DEF ReadItem, TypeOK
<1>10. ASSUME NEW i \in Items, NEW r \in Ingested,
              InsertItem(i, r) \/ OverwriteItem(i, r)
       PROVE  TypeOK'
    <2>1. r \in Rows
        BY CatalogueAssumption
    <2>2. Text(r) \in Texts
        BY <2>1, ColumnsOfRows
    <2>3. spent' \in [Bounded -> Nat]
        BY <1>10, SpendTyped DEF InsertItem, OverwriteItem, Bounded
    <2>4. /\ rows' = [rows EXCEPT ![i] = r]
          /\ vectors' = [vectors EXCEPT ![i] = Text(r)]
          /\ inserted' \in {inserted, [inserted EXCEPT ![i] = r]}
          /\ overwritten' \in {overwritten, overwritten \cup {i}}
          /\ UNCHANGED <<audit, requests, queue, slots, overtaken, missed>>
        BY <1>10 DEF InsertItem, OverwriteItem
    <2>5. /\ rows' \in [Items -> Rows \cup {NoRow}]
          /\ vectors' \in [Items -> Texts \cup {NoRow}]
          /\ inserted' \in [Items -> Rows \cup {NoRow}]
          /\ overwritten' \subseteq Items
        BY <2>1, <2>2, <2>4 DEF TypeOK
    <2> QED
        BY <2>3, <2>4, <2>5 DEF TypeOK
<1>11. CASE WipeTenant
    <2>1. spent' \in [Bounded -> Nat]
        BY <1>11, SpendTyped DEF WipeTenant, Bounded
    <2> QED
        BY <1>11, <2>1 DEF WipeTenant, TypeOK
<1>12. CASE UNCHANGED vars
    BY <1>12 DEF vars, TypeOK
<1> QED
    BY <1>1, <1>2, <1>3, <1>4, <1>5, <1>6, <1>7, <1>8, <1>9, <1>10, <1>11,
       <1>12 DEF Next, ApiStep, WorkerStep, FaultStep, TenantStep

\* Every reachable state of the catalogue is typed.
THEOREM CatalogueTypeCorrect == Spec => []TypeOK
<1>1. TypeOK /\ [Next]_vars => TypeOK'
    BY TypesKept
<1> QED
    BY InitialTypes, <1>1, PTL DEF Spec


-----------------------------------------------------------------------------
(* The vectors follow the rows: one job slot.                              *)

OneSlot == \E s \in Slots : Slots = {s}

Awaited(i) ==
    \/ queue[i] > 0
    \/ \E c \in Clients : requests[c].step = "committed" /\ requests[c].item = i

Carries(s, i) == slots[s] # Idle /\ slots[s].item = i

TextCurrent(s, i) ==
    \A f \in EmbeddingTriggerColumns : slots[s].text[f] = rows[i][f]

\* Once inserted, always inserted: a fresh id meets no old task.
InsertedInv ==
    /\ \A i \in Items : Exists(i) => inserted[i] # NoRow
    /\ \A s \in Slots, i \in Items : Carries(s, i) => inserted[i] # NoRow

\* A row is current, or what the slot carries makes it so, or another task
\* is on its way.
Followed(i) ==
    \/ Awaited(i)
    \/ \E s \in Slots : Carries(s, i) /\ TextCurrent(s, i)
    \/ /\ \A s \in Slots : ~Carries(s, i)
       /\ VectorCurrent(i)

VectorInv ==
    /\ TypeOK
    /\ InsertedInv
    /\ \A i \in Items \ (overwritten \cup missed) : Exists(i) => Followed(i)

LEMMA InsertedKept == TypeOK /\ InsertedInv /\ [Next]_vars => InsertedInv'
<1> SUFFICES ASSUME TypeOK, InsertedInv, [Next]_vars PROVE InsertedInv'
    OBVIOUS
<1>1. CASE \E c \in Clients :
             UpdateItem(c) \/ RefuseUpdate(c) \/ EnqueueEmbedding(c)
             \/ LoseRequest(c)
    <2>1. UNCHANGED <<slots, inserted>>
        BY <1>1 DEF UpdateItem, RefuseUpdate, EnqueueEmbedding, LoseRequest
    <2>2. \A i \in Items : Exists(i)' => Exists(i)
        BY <1>1 DEF UpdateItem, RefuseUpdate, EnqueueEmbedding, LoseRequest,
                    Exists, TypeOK
    <2> QED
        BY <2>1, <2>2 DEF InsertedInv, Carries
<1>2. CASE \E s \in Slots : StoreVector(s) \/ FailEmbedding(s)
    <2>1. UNCHANGED <<rows, inserted>>
        BY <1>2 DEF StoreVector, FailEmbedding
    <2>2. \A s \in Slots, i \in Items : Carries(s, i)' => Carries(s, i)
        BY <1>2 DEF StoreVector, FailEmbedding, Carries, TypeOK
    <2> QED
        BY <2>1, <2>2 DEF InsertedInv, Exists
<1>3. ASSUME NEW s \in Slots, NEW i \in Items, FetchRow(s, i)
      PROVE  InsertedInv'
    <2>1. UNCHANGED <<rows, inserted>>
        BY <1>3 DEF FetchRow
    <2>2. \A t \in Slots, k \in Items :
            Carries(t, k)' => Carries(t, k) \/ (k = i /\ Exists(i))
        BY <1>3 DEF FetchRow, Carries, TypeOK
    <2> QED
        BY <2>1, <2>2 DEF InsertedInv, Exists
<1>4. CASE CrashWorker
    <2>1. UNCHANGED <<rows, inserted>> /\ \A t \in Slots : slots'[t] = Idle
        BY <1>4 DEF CrashWorker
    <2> QED
        BY <2>1 DEF InsertedInv, Exists, Carries
<1>5. ASSUME NEW c \in Clients, NEW i \in Items, NEW b \in Bodies,
             ReadItem(c, i, b)
      PROVE  InsertedInv'
    BY <1>5 DEF ReadItem, InsertedInv, Exists, Carries
<1>6. ASSUME NEW i \in Items, NEW r \in Ingested,
             InsertItem(i, r) \/ OverwriteItem(i, r)
      PROVE  InsertedInv'
    <2>1. r # NoRow
        BY CatalogueAssumption, ColumnsOfRows
    <2>2. slots' = slots /\ rows' = [rows EXCEPT ![i] = r]
        BY <1>6 DEF InsertItem, OverwriteItem
    <2>3. CASE inserted' = [inserted EXCEPT ![i] = r]
        BY <2>1, <2>2, <2>3 DEF InsertedInv, Exists, Carries, TypeOK
    <2>4. CASE OverwriteItem(i, r)
        BY <2>1, <2>2, <2>4
           DEF OverwriteItem, InsertedInv, Exists, Carries, TypeOK
    <2> QED
        BY <1>6, <2>3, <2>4 DEF InsertItem
<1>7. CASE WipeTenant
    BY <1>7 DEF WipeTenant, InsertedInv, Exists, Carries
<1>8. CASE UNCHANGED vars
    BY <1>8 DEF vars, InsertedInv, Exists, Carries
<1> QED
    BY <1>1, <1>2, <1>3, <1>4, <1>5, <1>6, <1>7, <1>8
       DEF Next, ApiStep, WorkerStep, FaultStep, TenantStep

\* A step that leaves row, vector and slots of an item as they were, and
\* takes no task away from it, leaves it followed.
LEMMA FollowedKept ==
    ASSUME NEW i \in Items, Followed(i),
           slots' = slots,
           \A f \in EmbeddingTriggerColumns :
              rows'[i][f] = rows[i][f] /\ vectors'[i][f] = vectors[i][f],
           Awaited(i) => Awaited(i)'
    PROVE  Followed(i)'
BY DEF Followed, Carries, TextCurrent, VectorCurrent

LEMMA VectorsKept ==
    ASSUME OneSlot
    PROVE  VectorInv /\ [Next]_vars => VectorInv'
<1> SUFFICES ASSUME VectorInv, [Next]_vars PROVE VectorInv'
    OBVIOUS
<1>0. TypeOK /\ InsertedInv
    BY DEF VectorInv
<1>t. TypeOK' /\ InsertedInv'
    BY <1>0, TypesKept, InsertedKept
<1> DEFINE Kept == \A i \in Items \ (overwritten' \cup missed') :
                      Exists(i)' => Followed(i)'
<1>1. ASSUME NEW c \in Clients, UpdateItem(c) PROVE Kept
    <2> DEFINE k == requests[c].item
               u == Updates(requests[c].body)
    <2> SUFFICES ASSUME NEW i \in Items \ (overwritten' \cup missed'),
                        Exists(i)'
                 PROVE  Followed(i)'
        OBVIOUS
    <2>1. /\ requests[c].step = "read"
          /\ k \in Items
          /\ Exists(k)
          /\ rows' = [rows EXCEPT ![k] = Patched(@, u)]
          /\ requests' = [requests EXCEPT ![c] =
                              IF NeedsReembedding(u)
                              THEN [step |-> "committed", item |-> k]
                              ELSE Idle]
          /\ UNCHANGED <<vectors, queue, slots, overwritten, missed>>
        BY <1>0, <1>1 DEF UpdateItem, TypeOK, Requests, Idle
    <2>2. Followed(i)
        BY <1>0, <2>1 DEF VectorInv, Exists, TypeOK
    <2>3. Awaited(i) => Awaited(i)'
        BY <1>0, <2>1 DEF Awaited, TypeOK
    <2>4. CASE i # k \/ ~NeedsReembedding(u)
        <3>1. \A f \in EmbeddingTriggerColumns : rows'[i][f] = rows[i][f]
            BY <1>0, <2>1, <2>4
               DEF TypeOK, Patched, NeedsReembedding, EmbeddingTriggerColumns,
                   PatchableColumns
        <3> QED
            BY <2>1, <2>2, <2>3, <3>1, FollowedKept
    <2>5. CASE i = k /\ NeedsReembedding(u)
        <3>1. requests'[c] = [step |-> "committed", item |-> i]
            BY <1>0, <2>1, <2>5 DEF TypeOK
        <3>2. Awaited(i)'
            BY <3>1 DEF Awaited
        <3> QED
            BY <3>2 DEF Followed
    <2> QED
        BY <2>4, <2>5
<1>2. ASSUME NEW c \in Clients, RefuseUpdate(c) PROVE Kept
    <2>1. \A i \in Items : Awaited(i) => Awaited(i)'
        BY <1>0, <1>2 DEF RefuseUpdate, Awaited, TypeOK
    <2> QED
        BY <1>2, <2>1, FollowedKept DEF RefuseUpdate, VectorInv, Exists
<1>3. ASSUME NEW c \in Clients, EnqueueEmbedding(c) PROVE Kept
    <2>1. requests[c].item \in Items
        BY <1>0, <1>3 DEF EnqueueEmbedding, TypeOK, Requests, Idle
    <2>2. /\ queue' = [queue EXCEPT ![requests[c].item] = @ + 1]
          /\ requests' = [requests EXCEPT ![c] = Idle]
        BY <1>3 DEF EnqueueEmbedding
    <2>3. \A i \in Items : Awaited(i) => Awaited(i)'
        BY <1>0, <2>1, <2>2 DEF Awaited, TypeOK
    <2> QED
        BY <1>3, <2>3, FollowedKept DEF EnqueueEmbedding, VectorInv, Exists
<1>4. ASSUME NEW s \in Slots, StoreVector(s) PROVE Kept
    <2> DEFINE k == slots[s].item
    <2> SUFFICES ASSUME NEW i \in Items \ (overwritten' \cup missed'),
                        Exists(i)'
                 PROVE  Followed(i)'
        OBVIOUS
    <2>1. /\ slots[s] # Idle
          /\ k \in Items
          /\ slots' = [slots EXCEPT ![s] = Idle]
          /\ vectors' = [vectors EXCEPT ![k] =
                            IF Exists(k) THEN slots[s].text ELSE @]
          /\ UNCHANGED <<rows, requests, queue, overwritten, missed>>
        BY <1>0, <1>4 DEF StoreVector, TypeOK, Idle
    <2>2. Followed(i) /\ Exists(i)
        BY <2>1 DEF VectorInv, Exists
    <2>3. \A t \in Slots : ~Carries(t, i)'
        BY <1>0, <2>1 DEF OneSlot, Carries, TypeOK
    <2>4. CASE Awaited(i)
        BY <2>1, <2>4 DEF Awaited, Followed
    <2>5. CASE ~Awaited(i) /\ i = k
        <3>1. TextCurrent(s, i)
            BY <2>1, <2>2, <2>5 DEF Followed, Carries, OneSlot
        <3>2. vectors'[i] = slots[s].text
            BY <1>0, <2>1, <2>2, <2>5 DEF TypeOK
        <3> QED
            BY <2>1, <2>3, <3>1, <3>2
               DEF Followed, TextCurrent, VectorCurrent
    <2>6. CASE ~Awaited(i) /\ i # k
        <3>1. VectorCurrent(i)
            BY <2>1, <2>2, <2>6 DEF Followed, Carries, OneSlot
        <3> QED
            BY <1>0, <2>1, <2>3, <2>6, <3>1
               DEF Followed, VectorCurrent, TypeOK
    <2> QED
        BY <2>4, <2>5, <2>6
<1>5. ASSUME NEW s \in Slots, NEW k \in Items, FetchRow(s, k) PROVE Kept
    <2> SUFFICES ASSUME NEW i \in Items \ (overwritten' \cup missed'),
                        Exists(i)'
                 PROVE  Followed(i)'
        OBVIOUS
    <2>1. /\ slots[s] = Idle
          /\ queue' = [queue EXCEPT ![k] = @ - 1]
          /\ slots' = [slots EXCEPT ![s] =
                          IF Exists(k)
                          THEN [step |-> "embedding", item |-> k,
                                text |-> Text(rows[k])]
                          ELSE Idle]
          /\ missed' = missed \ {k}
          /\ UNCHANGED <<rows, vectors, requests, overwritten>>
        BY <1>5 DEF FetchRow
    <2>2. Exists(i) /\ (i # k => Followed(i))
        BY <2>1 DEF VectorInv, Exists
    <2>3. CASE i = k
        <3>1. slots'[s] = [step |-> "embedding", item |-> i,
                           text |-> Text(rows[i])]
            BY <1>0, <2>1, <2>2, <2>3 DEF TypeOK
        <3>2. Carries(s, i)'
            BY <3>1 DEF Carries, Idle
        <3>3. rows[i] \in Rows
            BY <1>0, <2>2 DEF TypeOK, Exists
        <3>4. TextCurrent(s, i)'
            BY <2>1, <3>1, <3>3, ColumnsOfRows DEF TextCurrent
        <3> QED
            BY <3>2, <3>4 DEF Followed
    <2>4. CASE i # k
        <3>1. \A t \in Slots : ~Carries(t, i) /\ ~Carries(t, i)'
            BY <1>0, <2>1, <2>4 DEF OneSlot, Carries, TypeOK, Idle
        <3>2. Awaited(i) <=> Awaited(i)'
            BY <1>0, <2>1, <2>4 DEF Awaited, TypeOK
        <3> QED
            BY <2>1, <2>2, <2>4, <3>1, <3>2 DEF Followed, VectorCurrent
    <2> QED
        BY <2>3, <2>4
<1>6. ASSUME NEW c \in Clients, LoseRequest(c) PROVE Kept
    <2> SUFFICES ASSUME NEW i \in Items \ (overwritten' \cup missed'),
                        Exists(i)'
                 PROVE  Followed(i)'
        OBVIOUS
    <2>1. /\ requests' = [requests EXCEPT ![c] = Idle]
          /\ missed' = IF requests[c].step = "committed"
                       THEN missed \cup {requests[c].item} ELSE missed
          /\ UNCHANGED <<rows, vectors, queue, slots, overwritten>>
        BY <1>6 DEF LoseRequest
    <2>2. /\ i \notin overwritten \cup missed
          /\ ~(requests[c].step = "committed" /\ requests[c].item = i)
        BY <2>1
    <2>3. Followed(i)
        BY <2>1, <2>2 DEF VectorInv, Exists
    <2>4. Awaited(i) => Awaited(i)'
        BY <1>0, <2>1, <2>2 DEF Awaited, TypeOK
    <2> QED
        BY <2>1, <2>3, <2>4, FollowedKept
<1>7. ASSUME NEW s \in Slots, FailEmbedding(s) PROVE Kept
    <2> SUFFICES ASSUME NEW i \in Items \ (overwritten' \cup missed'),
                        Exists(i)'
                 PROVE  Followed(i)'
        OBVIOUS
    <2>1. /\ slots' = [slots EXCEPT ![s] = Idle]
          /\ missed' = missed \cup {slots[s].item}
          /\ UNCHANGED <<rows, vectors, requests, queue, overwritten>>
        BY <1>7 DEF FailEmbedding
    <2>2. Followed(i) /\ i # slots[s].item
        BY <2>1 DEF VectorInv, Exists
    <2>3. \A t \in Slots : ~Carries(t, i) /\ ~Carries(t, i)'
        BY <1>0, <2>1, <2>2 DEF OneSlot, Carries, TypeOK
    <2> QED
        BY <2>1, <2>2, <2>3 DEF Followed, Awaited, VectorCurrent
<1>8. ASSUME CrashWorker PROVE Kept
    <2> SUFFICES ASSUME NEW i \in Items \ (overwritten' \cup missed'),
                        Exists(i)'
                 PROVE  Followed(i)'
        OBVIOUS
    <2> DEFINE C == {s \in Slots : slots[s] # Idle /\ slots[s].item = i}
    <2>1. /\ queue'[i] = queue[i] + Cardinality(C)
          /\ \A t \in Slots : slots'[t] = Idle
          /\ UNCHANGED <<rows, vectors, requests, overwritten, missed>>
        BY <1>8 DEF CrashWorker
    <2>2. Followed(i) /\ Exists(i)
        BY <2>1 DEF VectorInv, Exists
    <2>3. Cardinality(C) \in Nat /\ (C # {} => Cardinality(C) > 0)
        BY CarriersCounted
    <2>4. queue[i] \in Nat
        BY <1>0 DEF TypeOK
    <2>5. CASE Awaited(i)
        <3>1. queue[i] > 0 => queue'[i] > 0
            BY <2>1, <2>3, <2>4
        <3> QED
            BY <2>1, <2>5, <3>1 DEF Awaited, Followed
    <2>6. CASE \E s \in Slots : Carries(s, i)
        <3>1. C # {}
            BY <2>6 DEF Carries
        <3>2. queue'[i] > 0
            BY <2>1, <2>3, <2>4, <3>1
        <3> QED
            BY <3>2 DEF Awaited, Followed
    <2>7. CASE (\A s \in Slots : ~Carries(s, i)) /\ VectorCurrent(i)
        BY <2>1, <2>7 DEF Followed, Carries, VectorCurrent
    <2> QED
        BY <2>2, <2>5, <2>6, <2>7 DEF Followed
<1>9. ASSUME NEW c \in Clients, NEW k \in Items, NEW b \in Bodies,
             ReadItem(c, k, b)
      PROVE  Kept
    <2>1. \A i \in Items : Awaited(i) => Awaited(i)'
        BY <1>0, <1>9 DEF ReadItem, Awaited, TypeOK, Idle
    <2> QED
        BY <1>9, <2>1, FollowedKept DEF ReadItem, VectorInv, Exists
<1>10. ASSUME NEW k \in Items, NEW r \in Ingested, InsertItem(k, r)
       PROVE  Kept
    <2> SUFFICES ASSUME NEW i \in Items \ (overwritten' \cup missed'),
                        Exists(i)'
                 PROVE  Followed(i)'
        OBVIOUS
    <2>1. /\ inserted[k] = NoRow
          /\ rows' = [rows EXCEPT ![k] = r]
          /\ vectors' = [vectors EXCEPT ![k] = Text(r)]
          /\ UNCHANGED <<requests, queue, slots, overwritten, missed>>
        BY <1>10 DEF InsertItem
    <2>2. Awaited(i) => Awaited(i)'
        BY <2>1 DEF Awaited
    <2>3. CASE i = k
        <3>1. r \in Rows
            BY CatalogueAssumption
        <3>2. rows'[i] = r /\ vectors'[i] = Text(r)
            BY <1>0, <2>1, <2>3 DEF TypeOK
        <3>3. VectorCurrent(i)'
            BY <3>1, <3>2, ColumnsOfRows DEF VectorCurrent
        <3>4. \A s \in Slots : ~Carries(s, i)'
            BY <1>0, <2>1, <2>3 DEF InsertedInv, Carries
        <3> QED
            BY <3>3, <3>4 DEF Followed
    <2>4. CASE i # k
        <3>1. rows'[i] = rows[i] /\ vectors'[i] = vectors[i]
            BY <1>0, <2>1, <2>4 DEF TypeOK
        <3>2. Followed(i)
            BY <2>1, <3>1 DEF VectorInv, Exists
        <3> QED
            BY <2>1, <2>2, <3>1, <3>2, FollowedKept
    <2> QED
        BY <2>3, <2>4
<1>11. ASSUME NEW k \in Items, NEW r \in Ingested, OverwriteItem(k, r)
       PROVE  Kept
    <2> SUFFICES ASSUME NEW i \in Items \ (overwritten' \cup missed'),
                        Exists(i)'
                 PROVE  Followed(i)'
        OBVIOUS
    <2>1. /\ rows' = [rows EXCEPT ![k] = r]
          /\ vectors' = [vectors EXCEPT ![k] = Text(r)]
          /\ overwritten' = overwritten \cup {k}
          /\ UNCHANGED <<requests, queue, slots, missed>>
        BY <1>11 DEF OverwriteItem
    <2>2. rows'[i] = rows[i] /\ vectors'[i] = vectors[i] /\ i \notin overwritten
        <3>1. i # k
            BY <2>1
        <3> QED
            BY <1>0, <2>1, <3>1 DEF TypeOK
    <2>3. Followed(i)
        BY <2>1, <2>2 DEF VectorInv, Exists
    <2>4. Awaited(i) => Awaited(i)'
        BY <2>1 DEF Awaited
    <2> QED
        BY <2>1, <2>2, <2>3, <2>4, FollowedKept
<1>12. ASSUME WipeTenant PROVE Kept
    BY <1>12 DEF WipeTenant, Exists
<1>13. ASSUME UNCHANGED vars PROVE Kept
    <2>1. \A i \in Items : Awaited(i) => Awaited(i)'
        BY <1>13 DEF vars, Awaited
    <2> QED
        BY <1>13, <2>1, FollowedKept DEF vars, VectorInv, Exists
<1>14. Kept
    BY <1>1, <1>2, <1>3, <1>4, <1>5, <1>6, <1>7, <1>8, <1>9, <1>10, <1>11,
       <1>12, <1>13 DEF Next, ApiStep, WorkerStep, FaultStep, TenantStep
<1> QED
    BY <1>t, <1>14 DEF VectorInv

\* With the default single job slot, the vector of every row that no ingestion
\* wrote over is current whenever no task is left for it, unless its last task
\* was lost or failed: for any number of clients and PATCHes, with worker
\* restarts and wipes (catalogue_routes.py, update_embedding_task).
THEOREM VectorsFollowRows ==
    ASSUME OneSlot
    PROVE  Spec => []VectorFollowsRow
<1>1. Init => VectorInv
    BY InitialTypes
       DEF Init, VectorInv, InsertedInv, Exists, Carries
<1>2. VectorInv /\ [Next]_vars => VectorInv'
    BY VectorsKept
<1>3. VectorInv => VectorFollowsRow
    BY DEF VectorInv, VectorFollowsRow, Followed, Awaited, Pending, Carries
<1> QED
    BY <1>1, <1>2, <1>3, PTL DEF Spec

-----------------------------------------------------------------------------
(* The audit log explains the rows: any clients, any failures.             *)

\* What a PATCH has read is in the log or was inserted, however many others
\* committed since.
ReadKnown(c, i) ==
    requests[c].step = "read" /\ requests[c].item = i =>
        /\ inserted[i] # NoRow
        /\ Exists(i) /\ i \notin overwritten =>
              \A f \in PatchableColumns :
                  requests[c].existing[f] \in
                      Known(f, inserted[i][f], audit[i][f],
                            Len(audit[i][f]) + 1)

ReadsKnown == \A c \in Clients, i \in Items : ReadKnown(c, i)

\* An id that was never given has no log.
FreshIdsUnlogged ==
    \A i \in Items : inserted[i] = NoRow =>
        \A f \in PatchableColumns : audit[i][f] = <<>>

AuditInv ==
    /\ TypeOK
    /\ InsertedInv
    /\ ReadsKnown
    /\ FreshIdsUnlogged
    /\ AuditExplainsRows

\* A row more leaves what was before the others and adds its own new value.
LEMMA LogExtended ==
    ASSUME NEW f, NEW first, NEW log \in Seq(AuditEntry), NEW e \in AuditEntry
    PROVE  LET log2 == Append(log, e)
           IN  /\ \A k \in 1..(Len(log) + 1) :
                     /\ Before(f, first, log2, k) = Before(f, first, log, k)
                     /\ Known(f, first, log2, k) = Known(f, first, log, k)
               /\ Before(f, first, log2, Len(log2) + 1) = Denoted(f, e.new)
               /\ Known(f, first, log2, Len(log2) + 1)
                    = Known(f, first, log, Len(log) + 1) \cup {Denoted(f, e.new)}
<1> DEFINE log2 == Append(log, e)
<1>1. /\ Len(log) \in Nat
      /\ Len(log2) = Len(log) + 1
      /\ \A k \in 1..Len(log) : log2[k] = log[k]
      /\ log2[Len(log) + 1] = e
    OBVIOUS
<1> HIDE DEF log2
<1>2. \A k \in 1..(Len(log) + 1) :
          Before(f, first, log2, k) = Before(f, first, log, k)
    <2> SUFFICES ASSUME NEW k \in 1..(Len(log) + 1), k # 1
                 PROVE  log2[k - 1] = log[k - 1]
        BY DEF Before
    <2>1. k - 1 \in 1..Len(log)
        BY <1>1
    <2> QED
        BY <1>1, <2>1
<1>3. Before(f, first, log2, Len(log2) + 1) = Denoted(f, e.new)
    <2>1. Len(log2) + 1 # 1 /\ Len(log2) + 1 - 1 = Len(log) + 1
        BY <1>1
    <2> QED
        BY <1>1, <2>1 DEF Before
<1>4. ASSUME NEW k \in 1..(Len(log) + 1)
      PROVE  Known(f, first, log2, k) = Known(f, first, log, k)
    <2>1. \A j \in 1..k : j \in 1..(Len(log) + 1)
        BY <1>1
    <2> QED
        BY <1>2, <2>1 DEF Known
<1>5. Known(f, first, log2, Len(log2) + 1)
        = Known(f, first, log, Len(log) + 1) \cup {Denoted(f, e.new)}
    <2>1. 1..(Len(log2) + 1) = (1..(Len(log) + 1)) \cup {Len(log2) + 1}
        BY <1>1
    <2> QED
        BY <1>2, <1>3, <2>1 DEF Known
<1> QED
    BY <1>2, <1>3, <1>4, <1>5 DEF log2

\* A row of a log that goes on.
LEMMA RowsOfExtended ==
    ASSUME NEW log \in Seq(AuditEntry), NEW e \in AuditEntry
    PROVE  /\ Len(log) \in Nat
           /\ Len(Append(log, e)) = Len(log) + 1
           /\ \A k \in 1..Len(Append(log, e)) :
                 \/ k \in 1..Len(log) /\ Append(log, e)[k] = log[k]
                 \/ k = Len(log) + 1 /\ Append(log, e)[k] = e
OBVIOUS

\* Completeness needs an old value that is known, a chain the last one.
LEMMA CompleteAppended ==
    ASSUME NEW f, NEW first, NEW log \in Seq(AuditEntry), NEW last,
           NEW e \in AuditEntry, Complete(f, first, log, last),
           e.old \in Known(f, first, log, Len(log) + 1)
    PROVE  Complete(f, first, Append(log, e), Denoted(f, e.new))
<1> DEFINE log2 == Append(log, e)
<1>1. /\ \A k \in 1..(Len(log) + 1) :
            Known(f, first, log2, k) = Known(f, first, log, k)
      /\ Denoted(f, e.new) \in Known(f, first, log2, Len(log2) + 1)
    BY LogExtended
<1>2. /\ Len(log) \in Nat
      /\ \A k \in 1..Len(log2) :
            \/ k \in 1..Len(log) /\ log2[k] = log[k]
            \/ k = Len(log) + 1 /\ log2[k] = e
    BY RowsOfExtended
<1> HIDE DEF log2
<1>3. ASSUME NEW k \in 1..Len(log2)
      PROVE  log2[k].old \in Known(f, first, log2, k)
    <2>1. CASE k \in 1..Len(log) /\ log2[k] = log[k]
        BY <1>1, <1>2, <2>1 DEF Complete
    <2>2. CASE k = Len(log) + 1 /\ log2[k] = e
        BY <1>1, <1>2, <2>2
    <2> QED
        BY <1>2, <2>1, <2>2
<1>4. Complete(f, first, log2, Denoted(f, e.new))
    BY <1>1, <1>3 DEF Complete
<1> QED
    BY <1>4 DEF log2

LEMMA ChainAppended ==
    ASSUME NEW f, NEW first, NEW log \in Seq(AuditEntry), NEW last,
           NEW e \in AuditEntry, Chain(f, first, log, last), e.old = last
    PROVE  Chain(f, first, Append(log, e), Denoted(f, e.new))
<1> DEFINE log2 == Append(log, e)
<1>1. /\ \A k \in 1..(Len(log) + 1) :
            Before(f, first, log2, k) = Before(f, first, log, k)
      /\ Before(f, first, log2, Len(log2) + 1) = Denoted(f, e.new)
    BY LogExtended
<1>2. /\ Len(log) \in Nat
      /\ \A k \in 1..Len(log2) :
            \/ k \in 1..Len(log) /\ log2[k] = log[k]
            \/ k = Len(log) + 1 /\ log2[k] = e
    BY RowsOfExtended
<1> HIDE DEF log2
<1>3. ASSUME NEW k \in 1..Len(log2)
      PROVE  log2[k].old = Before(f, first, log2, k)
    <2>1. CASE k \in 1..Len(log) /\ log2[k] = log[k]
        BY <1>1, <1>2, <2>1 DEF Chain
    <2>2. CASE k = Len(log) + 1 /\ log2[k] = e
        BY <1>1, <1>2, <2>2 DEF Chain
    <2> QED
        BY <1>2, <2>1, <2>2
<1>4. Chain(f, first, log2, Denoted(f, e.new))
    BY <1>1, <1>3 DEF Chain
<1> QED
    BY <1>4 DEF log2

\* What the property asks of any column.
Explained(f, first, log, last) ==
    /\ Complete(f, first, log, last)
    /\ OnlyChanges(f, log)

\* No value of a log is lost in a later one.
StillKnown(f, first, log, log2) ==
    Known(f, first, log, Len(log) + 1)
        \subseteq Known(f, first, log2, Len(log2) + 1)

\* One PATCH, column by column: it read r, the row now is row.  What it logs
\* or leaves out keeps the log complete, as what it read is known; the chain
\* goes on if what it read is still there.
LEMMA ColumnPatched ==
    ASSUME NEW r \in Rows, NEW row \in Rows, NEW b \in Bodies, NEW first,
           NEW log \in [PatchableColumns -> Seq(AuditEntry)],
           NEW f \in PatchableColumns, Explained(f, first, log[f], row[f]),
           r[f] \in Known(f, first, log[f], Len(log[f]) + 1)
    PROVE  /\ Explained(f, first, Audited(log, r, Updates(b))[f],
                        Patched(row, Updates(b))[f])
           /\ StillKnown(f, first, log[f], Audited(log, r, Updates(b))[f])
           /\ /\ Chain(f, first, log[f], row[f])
              /\ f \in DOMAIN Updates(b) => r[f] = row[f]
              => Chain(f, first, Audited(log, r, Updates(b))[f],
                       Patched(row, Updates(b))[f])
<1> DEFINE u == Updates(b)
           log2 == Audited(log, r, u)[f]
           Unbroken == /\ Chain(f, first, log[f], row[f])
                       /\ f \in DOMAIN u => r[f] = row[f]
<1> SUFFICES /\ Explained(f, first, log2, Patched(row, u)[f])
             /\ StillKnown(f, first, log[f], log2)
             /\ Unbroken => Chain(f, first, log2, Patched(row, u)[f])
    OBVIOUS
<1>1. DOMAIN u \subseteq PatchableColumns
      /\ \A g \in DOMAIN u : u[g] \in ColumnValues[g]
    BY UpdatesTyped
<1>2. CASE f \notin DOMAIN u
    <2>1. log2 = log[f] /\ Patched(row, u)[f] = row[f]
        BY <1>2 DEF Audited, Patched
    <2> HIDE DEF log2, u
    <2> QED
        BY <1>2, <2>1 DEF Explained, StillKnown
<1>3. CASE f \in DOMAIN u /\ r[f] = Written(f, u[f])
    <2>1. f # "price_type"
        <3>1. f = "price_type" => r[f] \in PriceTypes
            BY DEF Rows, ColumnValues
        <3>2. f = "price_type" => Written(f, u[f]) \in EnumTexts
            BY <1>1, <1>3, WrittenTyped
        <3> QED
            BY <1>3, <3>1, <3>2 DEF PriceTypes, EnumTexts
    <2>2. u[f] = r[f]
        BY <1>1, <1>3, <2>1, WrittenTyped
    <2>3. log2 = log[f] /\ Patched(row, u)[f] = r[f]
        BY <1>3, <2>2 DEF Audited, Patched
    <2> HIDE DEF log2, u
    <2>4. Complete(f, first, log2, Patched(row, u)[f])
        BY <2>3 DEF Explained, Complete
    <2>5. Unbroken => Chain(f, first, log2, Patched(row, u)[f])
        BY <1>3, <2>3 DEF Explained
    <2> QED
        BY <2>3, <2>4, <2>5 DEF Explained, StillKnown
<1>4. CASE f \in DOMAIN u /\ r[f] # Written(f, u[f])
    <2> DEFINE e == [old |-> r[f], new |-> Written(f, u[f])]
    <2>1. /\ Written(f, u[f]) \in AllValues \cup EnumTexts
          /\ Denoted(f, Written(f, u[f])) = u[f]
        BY <1>1, <1>4, WrittenTyped
    <2>2. e \in AuditEntry
        BY <2>1 DEF AuditEntry, EnumTexts, Rows
    <2>3. e.old = r[f] /\ e.new = Written(f, u[f]) /\ Denoted(f, e.new) = u[f]
        BY <2>1
    <2>4. log2 = Append(log[f], e) /\ Patched(row, u)[f] = u[f]
        BY <1>4 DEF Audited, Patched
    <2> HIDE DEF log2, u, e
    <2>5. Complete(f, first, Append(log[f], e), u[f])
        BY <2>2, <2>3, CompleteAppended DEF Explained
    <2>6. Unbroken => Chain(f, first, Append(log[f], e), u[f])
        BY <1>4, <2>2, <2>3, ChainAppended DEF Explained
    <2>7. OnlyChanges(f, Append(log[f], e))
        <3>1. f # "price_type" => e.old # Denoted(f, e.new)
            BY <1>1, <1>4, <2>3, WrittenTyped
        <3>2. \A k \in 1..Len(Append(log[f], e)) :
                 \/ k \in 1..Len(log[f]) /\ Append(log[f], e)[k] = log[f][k]
                 \/ Append(log[f], e)[k] = e
            BY <2>2, RowsOfExtended
        <3> QED
            BY <3>1, <3>2 DEF OnlyChanges, Explained
    <2>8. StillKnown(f, first, log[f], log2)
        BY <2>2, <2>4, LogExtended DEF StillKnown
    <2> QED
        BY <2>4, <2>5, <2>6, <2>7, <2>8 DEF Explained
<1> QED
    BY <1>2, <1>3, <1>4

\* A step that leaves rows, log, history and reads as they were, or takes
\* requests and rows away, keeps the invariant.
LEMMA AuditLeftAlone ==
    ASSUME AuditInv, TypeOK', InsertedInv',
           UNCHANGED <<audit, inserted, overwritten, overtaken>>,
           \A i \in Items : rows'[i] \in {rows[i], NoRow},
           \A c \in Clients : requests'[c].step = "read" =>
                               requests'[c] = requests[c]
    PROVE  AuditInv'
<1>1. \A i \in Items : Exists(i)' => Exists(i) /\ rows'[i] = rows[i]
    BY DEF Exists
<1>2. ReadsKnown'
    <2> SUFFICES ASSUME NEW c \in Clients, NEW i \in Items
                 PROVE  ReadKnown(c, i)'
        BY DEF ReadsKnown
    <2>1. ReadKnown(c, i)
        BY DEF AuditInv, ReadsKnown
    <2> QED
        BY <1>1, <2>1 DEF ReadKnown
<1>3. FreshIdsUnlogged'
    BY DEF AuditInv, FreshIdsUnlogged
<1>4. AuditExplainsRows'
    <2> SUFFICES ASSUME NEW i \in Items \ overwritten, Exists(i)'
                 PROVE  AuditExplains(i)'
        BY DEF AuditExplainsRows
    <2>1. AuditExplains(i)
        BY <1>1 DEF AuditInv, AuditExplainsRows
    <2> QED
        BY <1>1, <2>1 DEF AuditExplains
<1> QED
    BY <1>2, <1>3, <1>4 DEF AuditInv

\* The transaction of a PATCH: what changes, column by column.
LEMMA UpdateExplains ==
    ASSUME AuditInv, NEW c \in Clients, UpdateItem(c),
           NEW i, i = requests[c].item, i \notin overwritten,
           NEW f \in PatchableColumns
    PROVE  /\ Explained(f, inserted[i][f], audit'[i][f], rows'[i][f])
           /\ StillKnown(f, inserted[i][f], audit[i][f], audit'[i][f])
           /\ <<i, f>> \notin overtaken' =>
                 Chain(f, inserted[i][f], audit'[i][f], rows'[i][f])
<1> DEFINE r == requests[c].existing
           b == requests[c].body
           u == Updates(b)
<1>1. /\ i \in Items /\ b \in Bodies /\ r \in Rows
      /\ requests[c].step = "read" /\ Exists(i)
    BY DEF AuditInv, UpdateItem, TypeOK, Requests, Idle
<1>2. /\ rows[i] \in Rows
      /\ audit[i] \in [PatchableColumns -> Seq(AuditEntry)]
    BY <1>1 DEF AuditInv, TypeOK, Exists
<1>3. /\ rows'[i] = Patched(rows[i], u)
      /\ audit'[i] = Audited(audit[i], r, u)
      /\ overtaken' = overtaken \cup {<<i, g>> : g \in Stale(requests[c], u)}
    BY <1>1 DEF AuditInv, UpdateItem, TypeOK
<1>4. Stale(requests[c], u) = {g \in DOMAIN u : r[g] # rows[i][g]}
    BY DEF Stale
<1>5. r[f] \in Known(f, inserted[i][f], audit[i][f], Len(audit[i][f]) + 1)
    BY <1>1 DEF AuditInv, ReadsKnown, ReadKnown
<1>6. /\ Explained(f, inserted[i][f], audit[i][f], rows[i][f])
      /\ <<i, f>> \notin overtaken =>
            Chain(f, inserted[i][f], audit[i][f], rows[i][f])
    BY <1>1 DEF AuditInv, AuditExplainsRows, AuditExplains, Explained
<1>7. <<i, f>> \notin overtaken' =>
        <<i, f>> \notin overtaken /\ (f \in DOMAIN u => r[f] = rows[i][f])
    <2> HIDE DEF r, u
    <2> QED
        BY <1>3, <1>4
<1> HIDE DEF r, b
<1>8. /\ Explained(f, inserted[i][f], Audited(audit[i], r, Updates(b))[f],
                   Patched(rows[i], Updates(b))[f])
      /\ StillKnown(f, inserted[i][f], audit[i][f],
                    Audited(audit[i], r, Updates(b))[f])
      /\ /\ Chain(f, inserted[i][f], audit[i][f], rows[i][f])
         /\ f \in DOMAIN Updates(b) => r[f] = rows[i][f]
         => Chain(f, inserted[i][f], Audited(audit[i], r, Updates(b))[f],
                  Patched(rows[i], Updates(b))[f])
    BY <1>1, <1>2, <1>5, <1>6, ColumnPatched
<1> QED
    BY <1>3, <1>6, <1>7, <1>8

LEMMA AuditKept == AuditInv /\ [Next]_vars => AuditInv'
<1> SUFFICES ASSUME AuditInv, [Next]_vars PROVE AuditInv'
    OBVIOUS
<1>0. TypeOK /\ InsertedInv
    BY DEF AuditInv
<1>t. TypeOK' /\ InsertedInv'
    BY <1>0, TypesKept, InsertedKept
<1>1. ASSUME NEW c \in Clients, UpdateItem(c) PROVE AuditInv'
    <2> DEFINE k == requests[c].item
    <2>1. /\ requests[c].step = "read"
          /\ k \in Items
          /\ Exists(k)
          /\ requests'[c].step # "read"
          /\ \A d \in Clients \ {c} : requests'[d] = requests[d]
          /\ UNCHANGED <<inserted, overwritten>>
        BY <1>0, <1>1 DEF UpdateItem, TypeOK, Requests, Idle
    <2>2. \A i \in Items \ {k} :
              /\ rows'[i] = rows[i] /\ audit'[i] = audit[i]
              /\ \A f : <<i, f>> \in overtaken' <=> <<i, f>> \in overtaken
        BY <1>0, <1>1 DEF UpdateItem, TypeOK
    <2>3. k \notin overwritten =>
            \A f \in PatchableColumns :
               /\ Explained(f, inserted[k][f], audit'[k][f], rows'[k][f])
               /\ StillKnown(f, inserted[k][f], audit[k][f], audit'[k][f])
               /\ <<k, f>> \notin overtaken' =>
                     Chain(f, inserted[k][f], audit'[k][f], rows'[k][f])
        BY <1>1, UpdateExplains
    <2>4. inserted[k] # NoRow
        BY <1>0, <2>1 DEF InsertedInv
    <2> HIDE DEF k
    <2>5. ReadsKnown'
        <3> SUFFICES ASSUME NEW d \in Clients, NEW i \in Items,
                            requests'[d].step = "read", requests'[d].item = i
                     PROVE  ReadKnown(d, i)'
            BY DEF ReadsKnown, ReadKnown
        <3>1. d # c /\ requests'[d] = requests[d] /\ ReadKnown(d, i)
            BY <2>1 DEF AuditInv, ReadsKnown
        <3>2. CASE i # k
            BY <2>1, <2>2, <3>1, <3>2 DEF ReadKnown, Exists
        <3>3. CASE i = k
            BY <2>1, <2>3, <3>1, <3>3 DEF ReadKnown, StillKnown
        <3> QED
            BY <3>2, <3>3
    <2>6. FreshIdsUnlogged'
        BY <2>1, <2>2, <2>4 DEF AuditInv, FreshIdsUnlogged
    <2>7. ASSUME NEW i \in Items \ overwritten, Exists(i)'
          PROVE  AuditExplains(i)'
        <3>1. CASE i # k
            <4>1. AuditExplains(i)
                BY <2>2, <2>7, <3>1 DEF AuditInv, AuditExplainsRows, Exists
            <4> QED
                BY <2>1, <2>2, <3>1, <4>1 DEF AuditExplains
        <3>2. CASE i = k
            <4>1. \A f \in PatchableColumns :
                      /\ Explained(f, inserted'[i][f], audit'[i][f], rows'[i][f])
                      /\ <<i, f>> \notin overtaken' =>
                            Chain(f, inserted'[i][f], audit'[i][f], rows'[i][f])
                BY <2>1, <2>3, <3>2
            <4> QED
                BY <4>1 DEF AuditExplains, Explained
        <3> QED
            BY <3>1, <3>2
    <2> QED
        BY <1>t, <2>1, <2>5, <2>6, <2>7 DEF AuditInv, AuditExplainsRows
<1>2. ASSUME NEW c \in Clients,
             RefuseUpdate(c) \/ EnqueueEmbedding(c) \/ LoseRequest(c)
      PROVE  AuditInv'
    <2>1. /\ UNCHANGED <<rows, audit, inserted, overwritten, overtaken>>
          /\ requests' = [requests EXCEPT ![c] = Idle]
        BY <1>2 DEF RefuseUpdate, EnqueueEmbedding, LoseRequest
    <2>2. \A d \in Clients : requests'[d].step = "read" =>
                               requests'[d] = requests[d]
        BY <1>0, <2>1 DEF TypeOK, Idle
    <2> QED
        BY <1>t, <2>1, <2>2, AuditLeftAlone
<1>3. ASSUME \/ \E s \in Slots : \/ StoreVector(s)
                                 \/ FailEmbedding(s)
                                 \/ \E i \in Items : FetchRow(s, i)
             \/ CrashWorker
      PROVE  AuditInv'
    <2>1. UNCHANGED <<rows, audit, requests, inserted, overwritten, overtaken>>
        BY <1>3 DEF StoreVector, FailEmbedding, FetchRow, CrashWorker
    <2> QED
        BY <1>t, <2>1, AuditLeftAlone
<1>4. ASSUME NEW c \in Clients, NEW i \in Items, NEW b \in Bodies,
             ReadItem(c, i, b)
      PROVE  AuditInv'
    <2>1. /\ Exists(i)
          /\ requests'[c] = [step |-> "read", item |-> i, body |-> b,
                              existing |-> rows[i]]
          /\ \A d \in Clients \ {c} : requests'[d] = requests[d]
          /\ UNCHANGED <<rows, audit, inserted, overwritten, overtaken>>
        BY <1>0, <1>4 DEF ReadItem, TypeOK
    <2>2. inserted[i] # NoRow
        BY <1>0, <2>1 DEF InsertedInv
    <2>3. i \notin overwritten =>
            \A f \in PatchableColumns :
               rows[i][f] \in Known(f, inserted[i][f], audit[i][f],
                                    Len(audit[i][f]) + 1)
        BY <2>1 DEF AuditInv, AuditExplainsRows, AuditExplains, Complete
    <2>4. ASSUME NEW d \in Clients, NEW j \in Items PROVE ReadKnown(d, j)'
        <3>1. CASE d = c
            BY <2>1, <2>2, <2>3, <3>1 DEF ReadKnown
        <3>2. CASE d # c
            <4>1. ReadKnown(d, j) /\ requests'[d] = requests[d]
                BY <2>1, <3>2 DEF AuditInv, ReadsKnown
            <4> QED
                BY <2>1, <4>1 DEF ReadKnown, Exists
        <3> QED
            BY <3>1, <3>2
    <2>5. AuditExplainsRows'
        BY <2>1 DEF AuditInv, AuditExplainsRows, AuditExplains, Exists
    <2> QED
        BY <1>t, <2>1, <2>4, <2>5 DEF AuditInv, ReadsKnown, FreshIdsUnlogged
<1>5. ASSUME NEW k \in Items, NEW r \in Ingested, InsertItem(k, r)
      PROVE  AuditInv'
    <2>1. /\ inserted[k] = NoRow
          /\ rows' = [rows EXCEPT ![k] = r]
          /\ inserted' = [inserted EXCEPT ![k] = r]
          /\ UNCHANGED <<audit, requests, overwritten, overtaken>>
        BY <1>5 DEF InsertItem
    <2>2. r \in Rows /\ r # NoRow
        BY CatalogueAssumption, ColumnsOfRows
    <2>3. \A i \in Items \ {k} :
              rows'[i] = rows[i] /\ inserted'[i] = inserted[i]
        BY <1>0, <2>1 DEF TypeOK
    <2>4. rows'[k] = r /\ inserted'[k] = r
        BY <1>0, <2>1 DEF TypeOK
    <2>5. ReadsKnown'
        <3> SUFFICES ASSUME NEW c \in Clients, NEW i \in Items
                     PROVE  ReadKnown(c, i)'
            BY DEF ReadsKnown
        <3>1. ReadKnown(c, i)
            BY DEF AuditInv, ReadsKnown
        <3>2. CASE i = k
            BY <2>1, <3>1, <3>2 DEF ReadKnown
        <3>3. CASE i # k
            BY <2>1, <2>3, <3>1, <3>3 DEF ReadKnown, Exists
        <3> QED
            BY <3>2, <3>3
    <2>6. FreshIdsUnlogged'
        BY <2>1, <2>2, <2>3, <2>4 DEF AuditInv, FreshIdsUnlogged
    <2>7. ASSUME NEW i \in Items \ overwritten, Exists(i)'
          PROVE  AuditExplains(i)'
        <3>1. CASE i = k
            <4>1. \A f \in PatchableColumns : audit'[i][f] = <<>>
                BY <2>1, <3>1 DEF AuditInv, FreshIdsUnlogged
            <4> QED
                BY <2>4, <3>1, <4>1
                   DEF AuditExplains, Complete, Chain, OnlyChanges, Known, Before
        <3>2. CASE i # k
            <4>1. AuditExplains(i)
                BY <2>3, <2>7, <3>2 DEF AuditInv, AuditExplainsRows, Exists
            <4> QED
                BY <2>1, <2>3, <3>2, <4>1 DEF AuditExplains
        <3> QED
            BY <3>1, <3>2
    <2> QED
        BY <1>t, <2>1, <2>5, <2>6, <2>7 DEF AuditInv, AuditExplainsRows
<1>6. ASSUME NEW k \in Items, NEW r \in Ingested, OverwriteItem(k, r)
      PROVE  AuditInv'
    <2>1. /\ rows' = [rows EXCEPT ![k] = r]
          /\ overwritten' = overwritten \cup {k}
          /\ UNCHANGED <<audit, requests, inserted, overtaken>>
        BY <1>6 DEF OverwriteItem
    <2>2. \A i \in Items \ overwritten' :
              rows'[i] = rows[i] /\ i \notin overwritten
        BY <1>0, <2>1 DEF TypeOK
    <2>3. ReadsKnown'
        BY <2>1, <2>2 DEF AuditInv, ReadsKnown, ReadKnown, Exists
    <2>4. AuditExplainsRows'
        BY <2>1, <2>2 DEF AuditInv, AuditExplainsRows, AuditExplains, Exists
    <2> QED
        BY <1>t, <2>1, <2>3, <2>4 DEF AuditInv, FreshIdsUnlogged
<1>7. ASSUME WipeTenant PROVE AuditInv'
    BY <1>t, <1>7, AuditLeftAlone DEF WipeTenant
<1>8. CASE UNCHANGED vars
    BY <1>t, <1>8, AuditLeftAlone DEF vars
<1> QED
    BY <1>1, <1>2, <1>3, <1>4, <1>5, <1>6, <1>7, <1>8
       DEF Next, ApiStep, WorkerStep, FaultStep, TenantStep

\* Whichever PATCHes overlap, whatever is refused, lost, repeated or wiped:
\* the audit log of a row that no ingestion wrote over misses no value, the
\* chain of every column no PATCH wrote on a stale reading replays from the
\* insertion to the row, and but for price_type it holds only changes
\* (catalogue_routes.py, patch_catalogue_item).
THEOREM AuditExplained == Spec => []AuditExplainsRows
<1>1. Init => AuditInv
    BY InitialTypes
       DEF Init, AuditInv, InsertedInv, ReadsKnown, ReadKnown,
           FreshIdsUnlogged, AuditExplainsRows, Exists, Carries, Idle
<1>2. AuditInv /\ [Next]_vars => AuditInv'
    BY AuditKept
<1>3. AuditInv => AuditExplainsRows
    BY DEF AuditInv
<1> QED
    BY <1>1, <1>2, <1>3, PTL DEF Spec

-----------------------------------------------------------------------------
(* Requests and tasks use up work: any failures, any number of slots.      *)

Reading   == {c \in Clients : requests[c].step = "read"}
Committed == {c \in Clients : requests[c].step = "committed"}
Busy      == {s \in Slots : slots[s] # Idle}

\* The tasks in Redis, those of an item numbered from 0.
Waiting == {t \in Items \X Nat : t[2] < queue[t[1]]}

\* The steps requests and tasks may still take: a request its transaction, its
\* enqueue and a task, a task its reading and its writing.
Work ==
    4 * Cardinality(Reading) + 3 * Cardinality(Committed)
        + 2 * Cardinality(Waiting) + Cardinality(Busy)

\* There are finitely many of each, however many there might be.
WorkInv ==
    /\ IsFiniteSet(Reading)
    /\ IsFiniteSet(Committed)
    /\ IsFiniteSet(Waiting)

LEMMA BusyFinite == IsFiniteSet(Busy)
BY CatalogueAssumption, FS_Subset DEF Busy

LEMMA WorkCounted ==
    ASSUME WorkInv
    PROVE  /\ Cardinality(Reading) \in Nat
           /\ Cardinality(Committed) \in Nat
           /\ Cardinality(Waiting) \in Nat
           /\ Cardinality(Busy) \in Nat
           /\ Work \in Nat
<1>1. /\ Cardinality(Reading) \in Nat /\ Cardinality(Committed) \in Nat
      /\ Cardinality(Waiting) \in Nat /\ Cardinality(Busy) \in Nat
    BY BusyFinite, FS_CardinalityType DEF WorkInv
<1> QED
    BY <1>1 DEF Work

LEMMA InitialWork == Init => WorkInv
<1> SUFFICES ASSUME Init PROVE WorkInv
    OBVIOUS
<1>1. Reading = {} /\ Committed = {} /\ Waiting = {}
    BY DEF Init, Idle, Reading, Committed, Waiting
<1> QED
    BY <1>1, FS_EmptySet DEF WorkInv

\* One client's request changes.
LEMMA RequestMoved ==
    ASSUME TypeOK, WorkInv, NEW c \in Clients, NEW q \in Requests \cup {Idle},
           requests' = [requests EXCEPT ![c] = q]
    PROVE  /\ Reading' = IF q.step = "read" THEN Reading \cup {c} ELSE Reading \ {c}
           /\ Committed' = IF q.step = "committed" THEN Committed \cup {c}
                           ELSE Committed \ {c}
           /\ IsFiniteSet(Reading') /\ IsFiniteSet(Committed')
<1>1. requests'[c] = q /\ \A d \in Clients \ {c} : requests'[d] = requests[d]
    BY DEF TypeOK
<1>2. Reading' = IF q.step = "read" THEN Reading \cup {c} ELSE Reading \ {c}
    BY <1>1 DEF Reading
<1>3. Committed' = IF q.step = "committed" THEN Committed \cup {c}
                   ELSE Committed \ {c}
    BY <1>1 DEF Committed
<1> QED
    BY <1>2, <1>3, FS_AddElement, FS_RemoveElement DEF WorkInv

\* A request that ends, or goes on to its enqueue, uses up work.
LEMMA RequestUsesUp ==
    ASSUME TypeOK, WorkInv, NEW c \in Clients, NEW q \in Requests \cup {Idle},
           requests' = [requests EXCEPT ![c] = q],
           \/ requests[c].step = "read" /\ q.step \in {"committed", "idle"}
           \/ requests[c].step = "committed" /\ q = Idle
    PROVE  /\ IsFiniteSet(Reading') /\ IsFiniteSet(Committed')
           /\ Cardinality(Reading') \in Nat /\ Cardinality(Committed') \in Nat
           /\ 4 * Cardinality(Reading') + 3 * Cardinality(Committed')
                < 4 * Cardinality(Reading) + 3 * Cardinality(Committed)
           /\ requests[c].step = "committed" =>
                4 * Cardinality(Reading') + 3 * Cardinality(Committed') + 3
                  = 4 * Cardinality(Reading) + 3 * Cardinality(Committed)
<1>1. /\ Reading' = Reading \ {c}
      /\ Committed' = IF q.step = "committed" THEN Committed \cup {c}
                      ELSE Committed \ {c}
      /\ IsFiniteSet(Reading') /\ IsFiniteSet(Committed')
    <2>1. q.step # "read"
        BY DEF Idle
    <2> QED
        BY <2>1, RequestMoved
<1>2. Cardinality(Reading') \in Nat /\ Cardinality(Committed') \in Nat
    BY <1>1, FS_CardinalityType
<1>3. CASE requests[c].step = "read"
    <2>1. c \in Reading /\ c \notin Committed
        BY <1>3 DEF Reading, Committed
    <2>2. Cardinality(Reading') = Cardinality(Reading) - 1
        BY <1>1, <2>1, FS_RemoveElement DEF WorkInv
    <2>3. Cardinality(Committed') <= Cardinality(Committed) + 1
        <3>1. CASE q.step = "committed"
            <4>1. Committed' = Committed \cup {c}
                BY <1>1, <3>1
            <4>2. Cardinality(Committed \cup {c}) = Cardinality(Committed) + 1
                BY <2>1, FS_AddElement DEF WorkInv
            <4> QED
                BY <4>1, <4>2, WorkCounted
        <3>2. CASE q.step # "committed"
            <4>1. Committed' = Committed
                BY <1>1, <2>1, <3>2
            <4> QED
                BY <3>2, <4>1, WorkCounted
        <3> QED
            BY <3>1, <3>2
    <2>4. 4 * Cardinality(Reading') + 3 * Cardinality(Committed')
            < 4 * Cardinality(Reading) + 3 * Cardinality(Committed)
        BY <1>2, <2>2, <2>3, WorkCounted
    <2> QED
        BY <1>1, <1>2, <1>3, <2>4
<1>4. CASE requests[c].step = "committed"
    <2>1. c \in Committed /\ c \notin Reading /\ q.step = "idle"
        BY <1>4 DEF Reading, Committed, Idle
    <2>2. Reading' = Reading
        BY <1>1, <2>1
    <2>3. Cardinality(Committed') = Cardinality(Committed) - 1
        <3>1. Committed' = Committed \ {c}
            BY <1>1, <2>1
        <3>2. Cardinality(Committed \ {c}) = Cardinality(Committed) - 1
            BY <2>1, FS_RemoveElement DEF WorkInv
        <3> QED
            BY <3>1, <3>2
    <2>4. 4 * Cardinality(Reading') + 3 * Cardinality(Committed') + 3
            = 4 * Cardinality(Reading) + 3 * Cardinality(Committed)
        BY <2>2, <2>3, WorkCounted
    <2> QED
        BY <1>1, <1>2, <2>4, WorkCounted
<1> QED
    BY <1>3, <1>4

\* One task joins the queue, or leaves it.
LEMMA TaskQueued ==
    ASSUME TypeOK, WorkInv, NEW i \in Items, queue' = [queue EXCEPT ![i] = @ + 1]
    PROVE  /\ IsFiniteSet(Waiting')
           /\ Cardinality(Waiting') = Cardinality(Waiting) + 1
<1>1. queue \in [Items -> Nat]
    BY DEF TypeOK
<1>2. Waiting' = Waiting \cup {<<i, queue[i]>>}
    BY <1>1 DEF Waiting
<1>3. <<i, queue[i]>> \notin Waiting
    BY <1>1 DEF Waiting
<1> QED
    BY <1>2, <1>3, FS_AddElement DEF WorkInv

LEMMA TaskTaken ==
    ASSUME TypeOK, WorkInv, NEW i \in Items, queue[i] > 0,
           queue' = [queue EXCEPT ![i] = @ - 1]
    PROVE  /\ IsFiniteSet(Waiting')
           /\ Cardinality(Waiting') = Cardinality(Waiting) - 1
<1>1. queue \in [Items -> Nat]
    BY DEF TypeOK
<1>2. Waiting' = Waiting \ {<<i, queue[i] - 1>>}
    BY <1>1 DEF Waiting
<1>3. <<i, queue[i] - 1>> \in Waiting
    BY <1>1 DEF Waiting
<1> QED
    BY <1>2, <1>3, FS_RemoveElement DEF WorkInv

\* A slot becomes idle.
LEMMA SlotLeft ==
    ASSUME TypeOK, NEW s \in Slots, slots[s] # Idle,
           slots' = [slots EXCEPT ![s] = Idle]
    PROVE  Cardinality(Busy') = Cardinality(Busy) - 1
<1>1. Busy' = Busy \ {s} /\ s \in Busy
    BY DEF Busy, TypeOK
<1> QED
    BY <1>1, BusyFinite, FS_RemoveElement

\* Every step of the API and of the worker, and every failure of one, uses
\* up work.
LEMMA StepUsesUp ==
    ASSUME TypeOK, WorkInv,
           \/ ApiStep \/ WorkerStep
           \/ \E c \in Clients : LoseRequest(c)
           \/ \E s \in Slots : FailEmbedding(s)
    PROVE  WorkInv' /\ Work' < Work
<1>0. /\ Cardinality(Reading) \in Nat /\ Cardinality(Committed) \in Nat
      /\ Cardinality(Waiting) \in Nat /\ Cardinality(Busy) \in Nat
    BY WorkCounted
<1>1. ASSUME NEW c \in Clients, NEW q \in Requests \cup {Idle},
             requests' = [requests EXCEPT ![c] = q],
             \/ requests[c].step = "read" /\ q.step \in {"committed", "idle"}
             \/ requests[c].step = "committed" /\ q = Idle,
             UNCHANGED <<queue, slots>>
      PROVE  WorkInv' /\ Work' < Work
    <2>1. Waiting' = Waiting /\ Busy' = Busy
        BY <1>1 DEF Waiting, Busy
    <2>2. /\ IsFiniteSet(Reading') /\ IsFiniteSet(Committed')
          /\ Cardinality(Reading') \in Nat /\ Cardinality(Committed') \in Nat
          /\ 4 * Cardinality(Reading') + 3 * Cardinality(Committed')
               < 4 * Cardinality(Reading) + 3 * Cardinality(Committed)
        BY <1>1, RequestUsesUp
    <2>3. Work' < Work
        BY <1>0, <2>1, <2>2 DEF Work
    <2> QED
        BY <2>1, <2>2, <2>3 DEF WorkInv
<1>2. ASSUME NEW c \in Clients, UpdateItem(c) PROVE WorkInv' /\ Work' < Work
    <2> DEFINE q == IF NeedsReembedding(Updates(requests[c].body))
                    THEN [step |-> "committed", item |-> requests[c].item]
                    ELSE Idle
    <2>1. /\ requests[c].step = "read"
          /\ requests' = [requests EXCEPT ![c] = q]
          /\ UNCHANGED <<queue, slots>>
        BY <1>2 DEF UpdateItem
    <2>2. requests[c].item \in Items
        BY <2>1 DEF TypeOK, Requests, Idle
    <2>3. q \in Requests \cup {Idle} /\ q.step \in {"committed", "idle"}
        BY <2>2 DEF Requests, Idle
    <2> HIDE DEF q
    <2> QED
        BY <1>1, <2>1, <2>3
<1>3. ASSUME NEW c \in Clients, RefuseUpdate(c) \/ LoseRequest(c)
      PROVE  WorkInv' /\ Work' < Work
    <2>1. /\ requests[c].step \in {"read", "committed"}
          /\ requests' = [requests EXCEPT ![c] = Idle]
          /\ UNCHANGED <<queue, slots>>
        BY <1>3 DEF RefuseUpdate, LoseRequest, TypeOK, Requests
    <2> QED
        BY <1>1, <2>1 DEF Idle
<1>4. ASSUME NEW c \in Clients, EnqueueEmbedding(c) PROVE WorkInv' /\ Work' < Work
    <2>1. /\ requests[c].step = "committed"
          /\ requests' = [requests EXCEPT ![c] = Idle]
          /\ queue' = [queue EXCEPT ![requests[c].item] = @ + 1]
          /\ slots' = slots
        BY <1>4 DEF EnqueueEmbedding
    <2>2. requests[c].item \in Items
        BY <2>1 DEF TypeOK, Requests, Idle
    <2>3. Busy' = Busy
        BY <2>1 DEF Busy
    <2>4. /\ IsFiniteSet(Waiting')
          /\ Cardinality(Waiting') = Cardinality(Waiting) + 1
        BY <2>1, <2>2, TaskQueued
    <2>5. /\ IsFiniteSet(Reading') /\ IsFiniteSet(Committed')
          /\ Cardinality(Reading') \in Nat /\ Cardinality(Committed') \in Nat
          /\ 4 * Cardinality(Reading') + 3 * Cardinality(Committed') + 3
               = 4 * Cardinality(Reading) + 3 * Cardinality(Committed)
        BY <2>1, RequestUsesUp
    <2>6. Work' < Work
        BY <1>0, <2>3, <2>4, <2>5 DEF Work
    <2> QED
        BY <2>4, <2>5, <2>6 DEF WorkInv
<1>5. ASSUME NEW s \in Slots, NEW i \in Items, FetchRow(s, i)
      PROVE  WorkInv' /\ Work' < Work
    <2>1. Reading' = Reading /\ Committed' = Committed
        BY <1>5 DEF FetchRow, Reading, Committed
    <2>2. /\ IsFiniteSet(Waiting')
          /\ Cardinality(Waiting') = Cardinality(Waiting) - 1
        BY <1>5, TaskTaken DEF FetchRow
    <2>3. Busy' \in {Busy, Busy \cup {s}}
        BY <1>5 DEF FetchRow, Busy, TypeOK
    <2>4. /\ Cardinality(Busy') \in Nat
          /\ Cardinality(Busy') <= Cardinality(Busy) + 1
        <3>1. CASE Busy' = Busy
            BY <1>0, <3>1
        <3>2. CASE Busy' = Busy \cup {s}
            <4>1. Cardinality(Busy \cup {s})
                    = IF s \in Busy THEN Cardinality(Busy) ELSE Cardinality(Busy) + 1
                BY BusyFinite, FS_AddElement
            <4> QED
                BY <1>0, <3>2, <4>1
        <3> QED
            BY <2>3, <3>1, <3>2
    <2>5. Work' < Work
        BY <1>0, <2>1, <2>2, <2>4 DEF Work
    <2> QED
        BY <2>1, <2>2, <2>5 DEF WorkInv
<1>6. ASSUME NEW s \in Slots, StoreVector(s) \/ FailEmbedding(s)
      PROVE  WorkInv' /\ Work' < Work
    <2>1. /\ slots[s] # Idle
          /\ slots' = [slots EXCEPT ![s] = Idle]
          /\ UNCHANGED <<requests, queue>>
        BY <1>6 DEF StoreVector, FailEmbedding, Idle
    <2>2. Reading' = Reading /\ Committed' = Committed /\ Waiting' = Waiting
        BY <2>1 DEF Reading, Committed, Waiting
    <2>3. Cardinality(Busy') = Cardinality(Busy) - 1
        BY <2>1, SlotLeft
    <2>4. Work' < Work
        BY <1>0, <2>2, <2>3 DEF Work
    <2> QED
        BY <2>2, <2>4 DEF WorkInv
<1> QED
    BY <1>2, <1>3, <1>4, <1>5, <1>6 DEF ApiStep, WorkerStep

\* A restart puts back at most as many tasks as there are slots.
LEMMA RestartKeepsFinite ==
    ASSUME TypeOK, WorkInv, CrashWorker
    PROVE  IsFiniteSet(Waiting')
<1> DEFINE Carriers(i) == {s \in Slots : slots[s] # Idle /\ slots[s].item = i}
           Carried == {slots[s].item : s \in Busy}
           n == Cardinality(Slots)
           Back == Carried \X (0..n)
           task == [p \in Back |-> <<p[1], queue[p[1]] + p[2]>>]
<1>1. queue \in [Items -> Nat] /\ Carried \subseteq Items
    BY DEF TypeOK, Busy
<1>2. IsFiniteSet(Carried)
    <2> DEFINE f == [s \in Busy |-> slots[s].item]
    <2>1. f \in Surjection(Busy, Carried)
        BY DEF Surjection
    <2> HIDE DEF f
    <2> QED
        BY <2>1, BusyFinite, FS_Surjection
<1>3. n \in Nat /\ IsFiniteSet(0..n)
    BY CatalogueAssumption, FS_CardinalityType, FS_Interval
<1>4. IsFiniteSet(Back)
    BY <1>2, <1>3, FS_Product
<1>5. IsFiniteSet({task[p] : p \in Back})
    <2>1. task \in Surjection(Back, {task[p] : p \in Back})
        BY DEF Surjection
    <2> HIDE DEF task, Back
    <2> QED
        BY <2>1, <1>4, FS_Surjection
<1>6. \A i \in Items :
         /\ Cardinality(Carriers(i)) \in 0..n
         /\ i \notin Carried => Cardinality(Carriers(i)) = 0
    <2> TAKE i \in Items
    <2>1. Carriers(i) \subseteq Slots /\ (i \notin Carried => Carriers(i) = {})
        BY DEF Busy
    <2>2. IsFiniteSet(Carriers(i)) /\ Cardinality(Carriers(i)) <= n
        BY <2>1, CatalogueAssumption, FS_Subset
    <2> HIDE DEF Carriers
    <2> QED
        BY <1>3, <2>1, <2>2, FS_CardinalityType, FS_EmptySet
<1>7. \A i \in Items : queue'[i] = queue[i] + Cardinality(Carriers(i))
    BY DEF CrashWorker
<1>8. Waiting' \subseteq Waiting \cup {task[p] : p \in Back}
    <2> SUFFICES ASSUME NEW t \in Waiting', t \notin Waiting
                 PROVE  t \in {task[p] : p \in Back}
        OBVIOUS
    <2>1. PICK i \in Items, k \in Nat : t = <<i, k>> /\ k < queue'[i]
        BY DEF Waiting
    <2>2. ~(k < queue[i])
        BY <2>1 DEF Waiting
    <2> HIDE DEF Carriers, Carried
    <2>3. /\ queue[i] \in Nat /\ n \in Nat
          /\ Cardinality(Carriers(i)) \in 0..n
          /\ queue'[i] = queue[i] + Cardinality(Carriers(i))
          /\ i \notin Carried => Cardinality(Carriers(i)) = 0
        BY <1>1, <1>3, <1>6, <1>7
    <2>4. i \in Carried /\ k - queue[i] \in 0..n
        BY <2>1, <2>2, <2>3
    <2>5. <<i, k - queue[i]>> \in Back /\ task[<<i, k - queue[i]>>] = <<i, k>>
        BY <2>1, <2>3, <2>4
    <2> QED
        BY <2>1, <2>5
<1> HIDE DEF task, Back
<1> QED
    BY <1>5, <1>8, FS_Union, FS_Subset DEF WorkInv

LEMMA WorkKept == TypeOK /\ WorkInv /\ [Next]_vars => WorkInv'
<1> SUFFICES ASSUME TypeOK, WorkInv, [Next]_vars PROVE WorkInv'
    OBVIOUS
<1>1. CASE ApiStep \/ WorkerStep \/ (\E c \in Clients : LoseRequest(c))
             \/ (\E s \in Slots : FailEmbedding(s))
    BY <1>1, StepUsesUp
<1>2. CASE CrashWorker
    <2>1. Reading' = Reading /\ Committed' = Committed
        BY <1>2 DEF CrashWorker, Reading, Committed
    <2> QED
        BY <1>2, <2>1, RestartKeepsFinite DEF WorkInv
<1>3. ASSUME NEW c \in Clients, NEW i \in Items, NEW b \in Bodies,
             ReadItem(c, i, b)
      PROVE  WorkInv'
    <2> DEFINE q == [step |-> "read", item |-> i, body |-> b, existing |-> rows[i]]
    <2>1. requests' = [requests EXCEPT ![c] = q] /\ queue' = queue
        BY <1>3 DEF ReadItem
    <2>2. q \in Requests
        BY <1>3 DEF ReadItem, Requests, Exists, TypeOK
    <2>3. Waiting' = Waiting
        BY <2>1 DEF Waiting
    <2> HIDE DEF q
    <2> QED
        BY <2>1, <2>2, <2>3, RequestMoved DEF WorkInv
<1>4. CASE UNCHANGED <<requests, queue>>
    BY <1>4 DEF WorkInv, Reading, Committed, Waiting
<1> QED
    BY <1>1, <1>2, <1>3, <1>4
       DEF Next, FaultStep, TenantStep, InsertItem, OverwriteItem, WipeTenant, vars

\* The queue runs dry: every step that is not the tenant's uses up some of a
\* finite amount of work, failures included, and only a restart of the worker
\* gives work back.  No step enqueues a task on its own account, and a task
\* does not repeat itself (catalogue_routes.py:328-335, tasks.py:265-324).
THEOREM TasksRunOut ==
    Spec => [][/\ Work \in Nat
               /\ TenantStep \/ CrashWorker \/ Work' < Work]_vars
<1>1. TypeOK /\ WorkInv /\ [Next]_vars =>
        [/\ Work \in Nat
         /\ TenantStep \/ CrashWorker \/ Work' < Work]_vars
    BY StepUsesUp, WorkCounted DEF Next, FaultStep
<1>2. TypeOK /\ WorkInv /\ [Next]_vars => WorkInv'
    BY WorkKept
<1> QED
    BY <1>1, <1>2, InitialWork, CatalogueTypeCorrect, PTL DEF Spec

=============================================================================
