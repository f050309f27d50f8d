---------------------------- MODULE LeadLifecycle ----------------------------
(***************************************************************************)
(* What the service promises about one lead: the status a client reads    *)
(* from GET /status/{thread_id} (core/state.py:70-71, README: queued ->   *)
(* processing -> pending_review / completed / error) and the quote that   *)
(* reaches the tenant.  A lead is quoted at most once and only while it   *)
(* is processed; it is "completed" only with its quote delivered and fails *)
(* only without one; nothing leaves "completed" or "error"; a lead in     *)
(* review moves only when it is decided upon or fails.                     *)
(***************************************************************************)

VARIABLES
    status,   \* what GET /status answers
    quotes    \* quotes the tenant's system accepted for this lead

lifecycleVars == <<status, quotes>>

Init ==
    /\ status = "queued"
    /\ quotes = 0

\* A worker takes the job, or takes it up again after an approval.
Process ==
    /\ status = "queued"
    /\ status' = "processing"
    /\ UNCHANGED quotes

AskForReview ==
    /\ status = "processing"
    /\ status' = "pending_review"
    /\ UNCHANGED quotes

Approve ==
    /\ status = "pending_review"
    /\ status' = "queued"
    /\ UNCHANGED quotes

\* A rejection by the operator, or a failure anywhere on the way.
Fail ==
    /\ status \in {"queued", "processing", "pending_review"}
    /\ quotes = 0
    /\ status' = "error"
    /\ UNCHANGED quotes

\* The tenant's system accepts the quote before the client can read of it.
Quote ==
    /\ status = "processing"
    /\ quotes = 0
    /\ quotes' = 1
    /\ UNCHANGED status

Complete ==
    /\ status = "processing"
    /\ status' = "completed"
    /\ quotes' = 1

Next == Process \/ AskForReview \/ Approve \/ Fail \/ Quote \/ Complete

Spec == Init /\ [][Next]_lifecycleVars

=============================================================================
