--------------------------- MODULE MCLeadService ---------------------------
(* LeadService on small instances: scores are all or nothing (Scale = 1, a *)
(* match is perfect or on the limit of the mapper and worth nothing), one  *)
(* service per lead, one retry, two delivery attempts.                     *)
EXTENDS LeadService

MCDistances == {0, 1}

============================================================================
