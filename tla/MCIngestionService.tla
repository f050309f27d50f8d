-------------------------- MODULE MCIngestionService --------------------------
(* IngestionService with chunks of two rows and confidences in quarters.   *)
EXTENDS IngestionService, HybridPricing

Entry(form, id, confidence, suspect) ==
    [form |-> form, id |-> id, confidence |-> confidence,
     flagged |-> FALSE, suspect |-> suspect]

\* A good answer with an id given twice; a good entry, a refused one and one
\* that is no object, which beside the other leave the average high.
MCReplies ==
    {<<Entry("valid", 1, 4, FALSE), Entry("valid", 1, 4, FALSE)>>,
     <<Entry("valid", 0, 4, FALSE), Entry("invalid", 0, 4, FALSE),
       Entry("skipped", 0, 4, FALSE)>>}

\* Also a suspect entry, one below the wanted average and one below the
\* flag, and an answer that cannot be read.
MCAllReplies ==
    MCReplies \cup
    {<<Entry("valid", 0, 4, TRUE)>>,
     <<Entry("valid", 0, 2, FALSE), Entry("valid", 0, 1, FALSE)>>,
     <<>>}

\* Every answer of the LLM ends in a row that the catalogue accepts and the
\* calculator can sum, and a price is kept unless its type forbids it
\* (models.py:137-198).
ASSUME MCIngestedPricesAddUp ==
    /\ \A entry \in RawEntries :
          /\ Legal(WrittenRow(entry))
          /\ entry.price = "positive" /\ entry.price_type \in {"FIXED", "missing"} =>
                WrittenRow(entry).price = "positive"
    /\ ~SumRaises({WrittenRow(entry) : entry \in RawEntries})

=============================================================================
