------------------------ MODULE CatalogueSearch_proofs ------------------------
(***************************************************************************)
(* The search finds the closest row, for any catalogue and any limit; what *)
(* an ingestion writes is accepted and adds up; the evaluator scores the   *)
(* mapper's list of rows as AgentNodes scores their number and average.    *)
(***************************************************************************)
EXTENDS CatalogueSearch, HybridPricing, AgentNodes_proofs, FiniteSetTheorems, TLAPS

USE SettingsAssumption

\* With a positive setting the two filters agree; without one the search
\* has none.
LEMMA OneThreshold ==
    /\ DistanceThreshold \in Int
    /\ MapperMaxDistance > 0 => DistanceThreshold = MapperMaxDistance
BY DEF DistanceThreshold

\* A limit above 0 leaves a row, if there is one.
LEMMA LimitKeepsARow ==
    ASSUME NEW R, NEW far \in [R -> Nat], NEW k \in Nat \ {0}, R # {},
           NEW N \in NearestRows(far, k)
    PROVE  N # {}
<1> SUFFICES ASSUME N = {} PROVE FALSE
  OBVIOUS
<1>1. Cardinality(N) = 0
  BY FS_EmptySet
<1> QED BY <1>1 DEF NearestRows

\* A document that passes the filters, of rows that include one within the
\* threshold: there is one, and the best of them is as close as any row.
LEMMA RelevantRows ==
    ASSUME NEW R, NEW far \in [R -> Nat], NEW k \in Nat \ {0},
           NEW docs \in SimilaritySearch(far, k)
    PROVE  /\ Relevant(far, docs) \subseteq Within(far)
           /\ \A j \in Within(far) : \E i \in Relevant(far, docs) : far[i] <= far[j]
<1>1. PICK N \in NearestRows(far, k) :
          docs = {i \in N : MapperMaxDistance > 0 => far[i] <= MapperMaxDistance}
  BY DEF SimilaritySearch
<1>2. N \subseteq R /\ \A i \in N, j \in R \ N : far[i] <= far[j]
  BY DEF NearestRows
<1>3. \A i \in N : far[i] <= DistanceThreshold => i \in Relevant(far, docs)
  BY <1>1, <1>2, OneThreshold DEF Relevant
<1>4. ASSUME NEW j \in Within(far)
      PROVE  \E i \in Relevant(far, docs) : far[i] <= far[j]
  <2>1. j \in R /\ far[j] <= DistanceThreshold /\ far[j] \in Nat
    BY DEF Within
  <2>2. CASE j \in N
    BY <1>3, <2>1, <2>2
  <2>3. CASE j \notin N
    <3>1. PICK i \in N : TRUE
      BY <2>1, LimitKeepsARow
    <3>2. far[i] <= far[j] /\ far[i] \in Nat
      BY <1>2, <2>1, <2>3
    <3> QED BY <1>3, <2>1, <3>2, OneThreshold
  <2> QED BY <2>2, <2>3
<1> QED BY <1>1, <1>2, <1>4 DEF Relevant, Within

\* Whatever its limit cuts off and whichever filter is set, a search maps a
\* service to a row as close as any in the catalogue, and to none only if
\* every row is beyond the threshold (vector_store.py:70-92,
\* mapper.py:141-192).
THEOREM SearchFindsClosest ==
    ASSUME NEW R, NEW far \in [R -> Nat], NEW k \in Nat \ {0}
    PROVE  Matches(far, k) \subseteq ClosestRows(far)
<1> SUFFICES ASSUME NEW docs \in SimilaritySearch(far, k), NEW m \in BestMatch(far, docs)
             PROVE  m \in ClosestRows(far)
  BY DEF Matches
<1>1. /\ Relevant(far, docs) \subseteq Within(far)
      /\ \A j \in Within(far) : \E i \in Relevant(far, docs) : far[i] <= far[j]
  BY RelevantRows
<1>2. CASE Relevant(far, docs) = {}
  BY <1>1, <1>2 DEF BestMatch, ClosestRows
<1>3. CASE Relevant(far, docs) # {}
  <2>1. PICK b \in Relevant(far, docs) :
            m = {b} /\ \A i \in Relevant(far, docs) : far[b] <= far[i]
    BY <1>3 DEF BestMatch, Best
  <2>2. b \in Within(far) /\ b \in R /\ far[b] <= DistanceThreshold
    BY <1>1 DEF Within
  <2>3. ASSUME NEW j \in R PROVE far[b] <= far[j]
    <3>1. CASE j \in Within(far)
      <4>1. PICK i \in Relevant(far, docs) : far[i] <= far[j]
        BY <1>1, <3>1
      <4>2. far[b] <= far[i] /\ i \in R
        BY <1>1, <2>1, <4>1 DEF Within
      <4> QED BY <2>2, <2>3, <4>1, <4>2
    <3>2. CASE j \notin Within(far)
      BY <2>2, <2>3, <3>2, OneThreshold DEF Within
    <3> QED BY <3>1, <3>2
  <2> QED BY <2>1, <2>2, <2>3 DEF ClosestRows, Best
<1> QED BY <1>2, <1>3

\* Whatever prices and types the LLM returns, the rows an ingestion writes
\* satisfy the CHECK constraint, FREE only if the LLM said so, and their sum
\* does not raise (ingestion/models.py:137-198, calculator.py:25-34).
THEOREM IngestedPricesAddUp ==
    /\ \A entry \in RawEntries :
          /\ WrittenRow(entry) \in PricedRows
          /\ Legal(WrittenRow(entry))
          /\ WrittenRow(entry).price_type = "FREE" => entry.price_type = "FREE"
    /\ \A rows \in SUBSET {r \in PricedRows : Legal(r)} : ~SumRaises(rows)
<1>1. ASSUME NEW entry \in RawEntries, ~Refused(entry)
      PROVE  /\ ValidatedPrice(entry) \in PricedRows /\ Legal(ValidatedPrice(entry))
             /\ ValidatedPrice(entry).price_type = "FREE" => entry.price_type = "FREE"
  <2>1. /\ InferredType(entry) \in PriceType
        /\ GivenPrice(entry) \in {"null", "zero", "positive"}
        /\ InferredType(entry) = "FIXED" => GivenPrice(entry) # "null"
        /\ InferredType(entry) = "FREE" => entry.price_type = "FREE"
    BY <1>1 DEF Refused, RawEntries, RawPrices, GivenPrice, InferredType
  <2> HIDE DEF InferredType, GivenPrice
  <2> QED BY <2>1 DEF ValidatedPrice, CoercedPrice, PricedRows, Legal, PriceType
<1>2. Placeholder \in RawEntries /\ ~Refused(Placeholder) /\ InferredType(Placeholder) = "FIXED"
  BY DEF Placeholder, RawEntries, RawPrices, Refused, InferredType, GivenPrice, PriceType
<1>3. ASSUME NEW entry \in RawEntries
      PROVE  /\ WrittenRow(entry) \in PricedRows /\ Legal(WrittenRow(entry))
             /\ WrittenRow(entry).price_type = "FREE" => entry.price_type = "FREE"
  <2>1. CASE Refused(entry)
    <3>1. ValidatedPrice(Placeholder).price_type = "FIXED"
      BY <1>2 DEF ValidatedPrice
    <3> QED BY <1>1, <1>2, <2>1, <3>1 DEF WrittenRow
  <2>2. CASE ~Refused(entry)
    BY <1>1, <2>2 DEF WrittenRow
  <2> QED BY <2>1, <2>2
<1>4. ASSUME NEW rows \in SUBSET {r \in PricedRows : Legal(r)} PROVE ~SumRaises(rows)
  BY DEF SumRaises, Legal
<1> QED BY <1>3, <1>4

-----------------------------------------------------------------------------
(* The sum of the distances *)

\* The distance of service n to the row it is mapped to.
DistanceOf(far, found, n) == far[n][CHOOSE i \in found[n] : TRUE]

\* What a sum of the distances of s is if sum has those of fewer.
Summed(far, found, sum, s) ==
    IF s = {} THEN 0
    ELSE DistanceOf(far, found, CHOOSE x \in s : TRUE)
            + sum[s \ {CHOOSE x \in s : TRUE}]

\* The recursive function that TotalDistance folds with.
Sums(far, found) ==
    CHOOSE sum : sum = [s \in SUBSET Mapping(found) |-> Summed(far, found, sum, s)]

LEMMA TotalOfSums ==
    ASSUME NEW far, NEW found
    PROVE  TotalDistance(far, found) = Sums(far, found)[Mapping(found)]
  BY DEF TotalDistance, MapThenSumSet, MapThenFoldSet, Sums, Summed, DistanceOf

\* The sums of all sets in S exist.
HaveSums(far, found, S) ==
    \E sum : sum = [s \in S |-> Summed(far, found, sum, s)]

\* The sums of sets of up to n elements exist, from those of fewer.
LEMMA PartialSums ==
    ASSUME NEW far, NEW found, IsFiniteSet(Mapping(found)), NEW n \in Nat
    PROVE  HaveSums(far, found, {t \in SUBSET Mapping(found) : Cardinality(t) <= n})
<1> DEFINE M      == Mapping(found)
           Few(k) == {t \in SUBSET M : Cardinality(t) <= k}
           Has(k) == HaveSums(far, found, Few(k))
           Bad    == {k \in Nat : ~Has(k)}
<1>a. \A s \in SUBSET M : IsFiniteSet(s) /\ Cardinality(s) \in Nat
  BY FS_Subset, FS_CardinalityType
<1>1. Has(0)
  <2> DEFINE sum == [s \in Few(0) |-> 0]
  <2>1. \A s \in Few(0) : s = {}
    BY <1>a, FS_EmptySet
  <2>2. sum = [s \in Few(0) |-> Summed(far, found, sum, s)]
    BY <2>1 DEF Summed
  <2> HIDE DEF sum
  <2> QED BY <2>2 DEF HaveSums
<1>2. ASSUME NEW k \in Nat, Has(k) PROVE Has(k + 1)
  <2> PICK g : g = [s \in Few(k) |-> Summed(far, found, g, s)]
    BY <1>2 DEF HaveSums
  <2> DEFINE h == [s \in Few(k + 1) |-> Summed(far, found, g, s)]
  <2>1. ASSUME NEW s \in Few(k + 1)
        PROVE  Summed(far, found, g, s) = Summed(far, found, h, s)
    <3>1. CASE s = {}
      BY <3>1 DEF Summed
    <3>2. CASE s # {}
      <4> DEFINE t == s \ {CHOOSE x \in s : TRUE}
      <4>1. t \in SUBSET M /\ Cardinality(t) = Cardinality(s) - 1
        BY <1>a, <3>2, FS_RemoveElement
      <4>2. t \in Few(k) /\ t \in Few(k + 1)
        BY <1>a, <4>1
      <4> HIDE DEF t, Few
      <4>3. h[t] = g[t]
        BY <4>2
      <4> QED BY <3>2, <4>3 DEF Summed, t
    <3> QED BY <3>1, <3>2
  <2> HIDE DEF Few
  <2>2. h = [s \in Few(k + 1) |-> Summed(far, found, h, s)]
    BY <2>1
  <2> HIDE DEF h
  <2> QED BY <2>2 DEF HaveSums
<1>3. Bad = {}
  <2> HIDE DEF Has
  <2> SUFFICES ASSUME Bad # {} PROVE FALSE
    OBVIOUS
  <2>1. PICK k \in Bad : \A j \in Bad : k <= j
    BY LeastOf
  <2>2. k # 0 /\ k \in Nat /\ ~Has(k)
    BY <1>1
  <2>3. k - 1 \in Nat /\ k - 1 \notin Bad
    BY <2>1, <2>2
  <2>4. Has((k - 1) + 1)
    BY <1>2, <2>3
  <2> QED BY <2>2, <2>4
<1> QED BY <1>3

\* They exist for all sets of matches, so the recursion defines them.
LEMMA SumsUnfold ==
    ASSUME NEW far, NEW found, IsFiniteSet(Mapping(found))
    PROVE  \A s \in SUBSET Mapping(found) :
              Sums(far, found)[s] = Summed(far, found, Sums(far, found), s)
<1> DEFINE M == Mapping(found)
<1>1. Cardinality(M) \in Nat
  BY FS_CardinalityType
<1>2. {t \in SUBSET M : Cardinality(t) <= Cardinality(M)} = SUBSET M
  BY FS_Subset
<1>3. HaveSums(far, found, SUBSET M)
  <2> DEFINE few == {t \in SUBSET M : Cardinality(t) <= Cardinality(M)}
  <2>1. HaveSums(far, found, few)
    BY <1>1, PartialSums
  <2>2. few = SUBSET M
    BY <1>2
  <2> HIDE DEF few
  <2> QED BY <2>1, <2>2
<1>4. Sums(far, found) = [s \in SUBSET M |-> Summed(far, found, Sums(far, found), s)]
  BY <1>3 DEF Sums, HaveSums
<1> HIDE DEF M
<1> QED BY <1>4 DEF M

\* Distances of at most most add up to at most most for each.
LEMMA SumsBounded ==
    ASSUME NEW far, NEW found, IsFiniteSet(Mapping(found)), NEW most \in Nat,
           \A n \in Mapping(found) : DistanceOf(far, found, n) \in 0..most
    PROVE  \A s \in SUBSET Mapping(found) :
              Sums(far, found)[s] \in 0..(most * Cardinality(s))
<1> DEFINE M      == Mapping(found)
           Fits(s) == Sums(far, found)[s] \in 0..(most * Cardinality(s))
           Bad    == {Cardinality(s) : s \in {t \in SUBSET M : ~Fits(t)}}
<1>a. \A s \in SUBSET M : IsFiniteSet(s) /\ Cardinality(s) \in Nat
  BY FS_Subset, FS_CardinalityType
<1>1. ASSUME NEW s \in SUBSET M, s = {} PROVE Fits(s)
  <2>1. Sums(far, found)[s] = 0
    BY <1>1, SumsUnfold DEF Summed
  <2>2. Cardinality(s) = 0
    BY <1>1, FS_EmptySet
  <2> QED BY <2>1, <2>2
<1>2. ASSUME NEW s \in SUBSET M, s # {},
             \A t \in SUBSET M : Cardinality(t) < Cardinality(s) => Fits(t)
      PROVE  Fits(s)
  <2> DEFINE x == CHOOSE x \in s : TRUE
             t == s \ {x}
             c == Cardinality(t)
  <2>0. x \in s /\ x \in M
    BY <1>2
  <2>1. t \in SUBSET M /\ c = Cardinality(s) - 1
    BY <1>a, <2>0, FS_RemoveElement
  <2>2. c \in Nat /\ Cardinality(s) = c + 1
    BY <1>a, <2>1
  <2>3. Fits(t)
    BY <1>2, <2>1, <2>2
  <2>4. Sums(far, found)[s] = DistanceOf(far, found, x) + Sums(far, found)[t]
    BY <1>2, SumsUnfold DEF Summed
  <2>5. DistanceOf(far, found, x) \in 0..most
    BY <2>0
  <2> HIDE DEF x, t
  <2>6. most * (c + 1) = most * c + most /\ most * c \in Nat
    BY <2>2
  <2> QED BY <2>2, <2>3, <2>4, <2>5, <2>6
<1>3. Bad = {}
  <2> HIDE DEF Fits
  <2> SUFFICES ASSUME Bad # {} PROVE FALSE
    OBVIOUS
  <2>1. Bad \subseteq Nat
    BY <1>a
  <2>2. PICK k \in Bad : \A j \in Bad : k <= j
    BY <2>1, LeastOf
  <2>3. PICK s \in SUBSET M : ~Fits(s) /\ k = Cardinality(s)
    BY <2>2
  <2>4. ASSUME NEW t \in SUBSET M, Cardinality(t) < Cardinality(s) PROVE Fits(t)
    <3>1. Cardinality(t) \in Nat /\ Cardinality(s) \in Nat
      BY <1>a
    <3> QED BY <2>2, <2>3, <2>4, <3>1
  <2> QED BY <1>1, <1>2, <2>3, <2>4
<1> QED BY <1>3

-----------------------------------------------------------------------------
(* Rounding *)

\* Division with remainder has one quotient.
LEMMA QuotientUnique ==
    ASSUME NEW a \in Int, NEW b \in Nat \ {0}, NEW q \in Int,
           b * q <= a, a < b * q + b
    PROVE  a \div b = q
<1> DEFINE p == a \div b
<1>1. p \in Int /\ b * p <= a /\ a < b * p + b
  OBVIOUS
<1> HIDE DEF p
<1>2. ~(p > q)
  <2> SUFFICES ASSUME p >= q + 1 PROVE FALSE
    BY <1>1
  <2>1. b * p >= b * (q + 1)
    BY <1>1, SMTT(30)
  <2>2. b * (q + 1) = b * q + b
    OBVIOUS
  <2> QED BY <1>1, <2>1, <2>2
<1>3. ~(q > p)
  <2> SUFFICES ASSUME q >= p + 1 PROVE FALSE
    BY <1>1
  <2>1. b * q >= b * (p + 1)
    BY <1>1, SMTT(30)
  <2>2. b * (p + 1) = b * p + b
    BY <1>1
  <2> QED BY <1>1, <2>1, <2>2
<1>4. p = q
  BY <1>1, <1>2, <1>3
<1> QED BY <1>4 DEF p

\* A quotient keeps its value when both parts are multiplied.
LEMMA QuotientExpanded ==
    ASSUME NEW m \in Nat \ {0}, NEW x \in Int, NEW y \in Nat \ {0}
    PROVE  (m * x) \div (m * y) = x \div y
<1> DEFINE q == x \div y
<1>1. q \in Int /\ y * q <= x /\ x < y * q + y
  OBVIOUS
<1> HIDE DEF q
<1>2. y * q \in Int /\ y * q + y \in Int
  BY <1>1
<1>3. m * (y * q) <= m * x /\ m * x < m * (y * q + y)
  BY <1>1, <1>2, SMTT(30)
<1>4. m * (y * q) = (m * y) * q /\ m * (y * q + y) = (m * y) * q + m * y
  BY <1>1, <1>2, SMTT(30)
<1>5. m * y \in Nat \ {0} /\ m * x \in Int
  BY SMTT(30)
<1>6. (m * x) \div (m * y) = q
  BY <1>1, <1>3, <1>4, <1>5, QuotientUnique
<1> QED BY <1>6 DEF q

LEMMA MinOfTwo ==
    ASSUME NEW a \in Int, NEW b \in Int
    PROVE  Min({a, b}) = IF a <= b THEN a ELSE b
<1>1. \E x \in {a, b} : \A y \in {a, b} : x <= y
  OBVIOUS
<1>2. Min({a, b}) \in {a, b} /\ \A y \in {a, b} : Min({a, b}) <= y
  BY <1>1 DEF Min
<1> QED BY <1>2

-----------------------------------------------------------------------------
(* The nodes and the rows *)

\* The one row a service is mapped to is within the threshold.
LEMMA MatchesWithin ==
    ASSUME NEW R, NEW far \in [R -> Nat], NEW k, NEW m \in Matches(far, k), m # {}
    PROVE  \A i \in m : far[i] \in 0..DistanceThreshold
<1>1. PICK docs \in SimilaritySearch(far, k) : m \in BestMatch(far, docs)
  BY DEF Matches
<1>2. m \subseteq Relevant(far, docs)
  BY <1>1 DEF BestMatch, Best
<1>3. docs \subseteq R
  BY <1>1 DEF SimilaritySearch, NearestRows
<1>4. DistanceThreshold \in Int
  BY DEF DistanceThreshold
<1> QED BY <1>2, <1>3, <1>4 DEF Relevant

\* AgentNodes may replace the rows by a number and an average: what the mapper
\* returns for n services, each searched in a catalogue of its own, is one of
\* the answers of MapperMatched, and the evaluator gives it the same score,
\* whenever the average distance is one of Distances (mapper.py:141-223,
\* evaluator.py:74-103).
THEOREM MapperFitsNodes ==
    ASSUME NEW n \in Nat, NEW Rows,
           NEW far \in [1..n -> UNION {[R -> Nat] : R \in SUBSET Rows}],
           NEW k, NEW found \in MatchLists(far, k)
    PROVE  LET mapped == Cardinality(Mapping(found))
               total  == TotalDistance(far, found)
           IN  /\ mapped \in 0..n
               /\ total \in 0..(DistanceThreshold * mapped)
               /\ \A s \in AgentState, mean \in Distances :
                     s.extracted_services = n /\ total = mean * mapped =>
                        LET r == Mapped(s, mapped, IF mapped = 0 THEN 0 ELSE mean, "None")
                        IN  r \in MapperMatched(s) /\ Score(r) = Confidence(far, found)
<1> DEFINE mapped == Cardinality(Mapping(found))
           total  == TotalDistance(far, found)
<1>1. DOMAIN found = 1..n /\ \A i \in 1..n : found[i] \in Matches(far[i], k)
  BY DEF MatchLists
<1>2. /\ IsFiniteSet(1..n) /\ Cardinality(1..n) = n
  BY FS_Interval
<1>3. IsFiniteSet(Mapping(found)) /\ mapped \in 0..n
  BY <1>1, <1>2, FS_Subset, FS_CardinalityType DEF Mapping
<1>4. \A i \in Mapping(found) : DistanceOf(far, found, i) \in 0..DistanceThreshold
  <2> TAKE i \in Mapping(found)
  <2>1. i \in 1..n /\ found[i] # {}
    BY <1>1 DEF Mapping
  <2>2. PICK R \in SUBSET Rows : far[i] \in [R -> Nat]
    BY <2>1
  <2>3. \A row \in found[i] : far[i][row] \in 0..DistanceThreshold
    BY <1>1, <2>1, <2>2, MatchesWithin
  <2> QED BY <2>1, <2>3 DEF DistanceOf
<1>5. DistanceThreshold \in Nat
  BY DEF DistanceThreshold
<1>6. total \in 0..(DistanceThreshold * mapped)
  BY <1>3, <1>4, <1>5, SumsBounded, TotalOfSums
<1>7. ASSUME NEW s \in AgentState, NEW mean \in Distances,
             s.extracted_services = n, total = mean * mapped,
             NEW r, r = Mapped(s, mapped, IF mapped = 0 THEN 0 ELSE mean, "None")
      PROVE  r \in MapperMatched(s) /\ Score(r) = Confidence(far, found)
  <2>0. mean \in Nat
    OBVIOUS
  <2>1. CASE mapped = 0
    <3>1. r = Mapped(s, 0, 0, "None")
      BY <1>7, <2>1
    <3>2. r.mapped_services = 0
      BY <3>1 DEF Mapped, AgentState
    <3>3. Confidence(far, found) = 0
      BY <2>1 DEF Confidence
    <3> QED BY <3>1, <3>2, <3>3 DEF MapperMatched, Score
  <2>2. CASE mapped # 0
    <3>0. mapped \in Nat \ {0} /\ n \in Nat \ {0} /\ mapped <= n
      BY <1>3, <2>2
    <3>1. r = Mapped(s, mapped, mean, "None")
      BY <1>7, <2>2
    <3>2. /\ r.extracted_services = n /\ r.mapped_services = mapped
          /\ r.avg_distance = mean
      BY <1>7, <3>1 DEF Mapped, AgentState
    <3>a. mean <= DistanceThreshold
      <4> HIDE DEF mapped, total
      <4>1. mean * mapped <= DistanceThreshold * mapped
        BY <1>5, <1>6, <1>7, <2>0, <3>0
      <4>2. ASSUME mean > DistanceThreshold PROVE FALSE
        <5>1. mean * mapped > DistanceThreshold * mapped
          BY <1>5, <2>0, <3>0, <4>2, SMTT(30)
        <5> QED BY <1>5, <2>0, <3>0, <4>1, <5>1
      <4> QED BY <1>5, <2>0, <4>2
    <3>b. r \in MapperMatched(s)
      BY <1>7, <3>0, <3>1, <3>a DEF MapperMatched, RelevantDistances
    <3> HIDE DEF mapped, total
    <3> DEFINE near == Scale - (IF mean < Scale THEN mean ELSE Scale)
    <3>4. Score(r) = Clamp(RoundedQuotient(mapped * near, n))
      <4> DEFINE m == IF mapped < n THEN mapped ELSE n
      <4>1. Score(r) = Clamp(RoundedQuotient(m * near, n))
        BY <3>2, <3>0 DEF Score
      <4>2. m = mapped
        BY <3>0
      <4> HIDE DEF m
      <4> QED BY <4>1, <4>2
    <3>5. Min({mapped, n}) = mapped
      BY <3>0, MinOfTwo
    <3>6. mapped * Scale - Min({total, mapped * Scale}) = mapped * near
      <4>1. Min({total, mapped * Scale}) =
              IF total <= mapped * Scale THEN total ELSE mapped * Scale
        <5>1. total \in Int /\ mapped * Scale \in Int
          BY <1>7, <2>0, <3>0
        <5> QED BY <5>1, MinOfTwo
      <4>2. CASE mean < Scale
        <5>1. mean * mapped <= mapped * Scale
          BY <2>0, <3>0, <4>2, SMTT(30)
        <5>2. mapped * Scale - mean * mapped = mapped * (Scale - mean)
          BY <2>0, <3>0, SMTT(30)
        <5> QED BY <1>7, <4>1, <4>2, <5>1, <5>2
      <4>3. CASE mean >= Scale
        <5>1. mean * mapped >= mapped * Scale
          BY <2>0, <3>0, <4>3, SMTT(30)
        <5>2. near = 0
          BY <2>0, <4>3
        <5>3. mapped * 0 = 0 /\ mapped * Scale \in Nat /\ mean * mapped \in Nat
          BY <2>0, <3>0
        <5>4. Min({total, mapped * Scale}) = mapped * Scale
          BY <1>7, <4>1, <5>1, <5>3
        <5> HIDE DEF near
        <5> QED BY <5>2, <5>3, <5>4
      <4> QED BY <2>0, <4>2, <4>3
    <3>7. Confidence(far, found) =
            Clamp(RoundedQuotient(mapped * (mapped * near), n * mapped))
      BY <1>1, <1>2, <2>2, <3>5, <3>6 DEF Confidence, mapped, total
    <3>8. RoundedQuotient(mapped * (mapped * near), n * mapped)
            = RoundedQuotient(mapped * near, n)
      <4> DEFINE a == mapped * near
      <4>1. a \in Int
        BY <2>0, <3>0
      <4> HIDE DEF a
      <4>2. 2 * (mapped * a) + n * mapped = mapped * (2 * a + n)
        BY <3>0, <4>1, SMTT(30)
      <4>3. 2 * (n * mapped) = mapped * (2 * n)
        BY <3>0, SMTT(30)
      <4>4. (mapped * (2 * a + n)) \div (mapped * (2 * n)) = (2 * a + n) \div (2 * n)
        BY <3>0, <4>1, QuotientExpanded
      <4> QED BY <4>2, <4>3, <4>4 DEF RoundedQuotient, a
    <3> QED BY <3>4, <3>7, <3>8, <3>b
  <2> QED BY <2>1, <2>2
<1> QED BY <1>3, <1>6, <1>7

=============================================================================
