----------------------------- MODULE HybridPricing -----------------------------
(***************************************************************************)
(* The price of a service from the LLM's answer to the quote: the           *)
(* validators of ServiceItem, the CHECK constraint of the catalogue, the    *)
(* sum of the calculator.                                                   *)
(***************************************************************************)

PriceType == {"FIXED", "FREE", "VARIABLE"}

\* text is no number; a NaN, which no comparison refuses, is like positive.
RawPrices == {"absent", "null", "text", "negative", "zero", "positive"}

\* missing: absent, null or empty.
RawEntries ==
    [price_type : PriceType \cup {"missing", "other"}, price : RawPrices]

PricedRows == [price_type : PriceType, price : {"null", "zero", "positive"}]

\* Before validation.
InferredType(entry) ==
    IF entry.price_type # "missing" THEN entry.price_type
    ELSE IF entry.price \in {"absent", "null"} THEN "VARIABLE" ELSE "FIXED"

\* The field's default.
GivenPrice(entry) == IF entry.price = "absent" THEN "zero" ELSE entry.price

\* ValidationError: an unknown type, a price that is none or negative, of
\* whatever type, a fixed price that is null.
Refused(entry) ==
    \/ InferredType(entry) \notin PriceType
    \/ GivenPrice(entry) \in {"text", "negative"}
    \/ InferredType(entry) = "FIXED" /\ GivenPrice(entry) = "null"

\* After validation.
CoercedPrice(entry) ==
    CASE InferredType(entry) = "FREE"     -> "zero"
      [] InferredType(entry) = "VARIABLE" -> "null"
      [] OTHER                            -> GivenPrice(entry)

ValidatedPrice(entry) ==
    [price_type |-> InferredType(entry), price |-> CoercedPrice(entry)]

\* The placeholder for a refused entry is validated too.
Placeholder == [price_type |-> "missing", price |-> "zero"]

WrittenRow(entry) == ValidatedPrice(IF Refused(entry) THEN Placeholder ELSE entry)

\* chk_hybrid_pricing_logic
Legal(row) ==
    \/ row.price_type = "FREE" /\ row.price = "zero"
    \/ row.price_type = "FIXED" /\ row.price # "null"
    \/ row.price_type = "VARIABLE" /\ row.price = "null"

\* float(None) in _sum_prices.
SumRaises(rows) ==
    \E r \in rows : r.price_type # "VARIABLE" /\ r.price = "null"

=============================================================================
