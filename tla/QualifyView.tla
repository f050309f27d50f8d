------------------------------ MODULE QualifyView ------------------------------
(***************************************************************************)
(* The "Lead Qualification" view of the browser (stores/qualify.js) and   *)
(* its pollers (api.js): a lead is posted, then GET /status is repeated   *)
(* until a status the poller stops at.  The service behind it is its      *)
(* abstract specification, LeadLifecycle, once per lead.                  *)
(*                                                                         *)
(* JavaScript runs one callback at a time: an action is a callback, from  *)
(* one await to the next.  A GET is answered in two steps, since the      *)
(* status is read when the service gets to it and shown when the answer   *)
(* arrives.                                                                *)
(***************************************************************************)
EXTENDS Integers

CONSTANTS
    MaxLeads,     \* bound: leads submitted in one session of the browser
    MaxLogouts,   \* bound: logouts, by the button or by a 401
    MaxChanges    \* bound: a status may have changed so often when a review
                  \* is approved

ASSUME QualifyViewAssumption ==
    /\ MaxLeads \in Nat \ {0}
    /\ MaxLogouts \in Nat
    /\ MaxChanges \in Nat

VARIABLES
    view,        \* the qualify store
    pollers,     \* the Poller made for each lead, if any
    posts,       \* the POST /lead of each lead
    gets,        \* the GET /status requests in flight
    server,      \* each lead at the service
    loggedIn,    \* the auth store has a token
    logouts,     \* logouts so far
    seen,        \* history: how new the status shown is
    done         \* history: calls of onDone and onError, by poller

vars == <<view, pollers, posts, gets, server, loggedIn, logouts, seen, done>>

Leads == 1..MaxLeads
NoLead == 0
Statuses == {"queued", "processing", "pending_review", "completed", "error"}
TERMINAL == {"completed", "error", "pending_review"}

-----------------------------------------------------------------------------
(* State *)

\* result: the lead whose last answer filled result and errorDetail.
Views ==
    [status   : Statuses \cup {"idle"},
     threadId : Leads \cup {NoLead},
     poller   : Leads \cup {NoLead},
     result   : Leads \cup {NoLead}]

Pollers == [timer : BOOLEAN, inflight : BOOLEAN]

Gets ==
    [lead : Leads, answer : Statuses \cup {"none"}, version : Nat]

\* version: how often the status or the quotes have changed.
ServerLeads ==
    [status : Statuses, quotes : 0..1, version : Nat]

TypeOK ==
    /\ view \in Views
    /\ pollers \in [Leads -> Pollers]
    /\ posts \in [Leads -> {"none", "sent", "accepted", "over"}]
    /\ gets \subseteq Gets
    /\ server \in [Leads -> ServerLeads]
    /\ loggedIn \in BOOLEAN
    /\ logouts \in 0..MaxLogouts
    /\ seen \in Nat
    /\ done \in [Leads -> Nat]

\* What reset() leaves.
IdleView ==
    [status |-> "idle", threadId |-> NoLead, poller |-> NoLead,
     result |-> NoLead]

Init ==
    /\ view = IdleView
    /\ pollers = [l \in Leads |-> [timer |-> FALSE, inflight |-> FALSE]]
    /\ posts = [l \in Leads |-> "none"]
    /\ gets = {}
    /\ server = [l \in Leads |-> [status |-> "queued", quotes |-> 0, version |-> 0]]
    /\ loggedIn = TRUE
    /\ logouts = 0
    /\ seen = 0
    /\ done = [l \in Leads |-> 0]

isLoading == view.status \in {"queued", "processing"}

-----------------------------------------------------------------------------
(* The service *)

Lead(l) == INSTANCE LeadLifecycle WITH
              status <- server[l].status,
              quotes <- server[l].quotes

\* POST /lead is accepted.
AcceptLead(l) ==
    /\ posts[l] = "sent"
    /\ posts' = [posts EXCEPT ![l] = "accepted"]
    /\ UNCHANGED <<view, pollers, gets, server, loggedIn, logouts, seen, done>>

ServerStep(l) ==
    /\ posts[l] \in {"accepted", "over"}
    /\ \E s \in Statuses, q \in 0..1 :
          /\ server' = [server EXCEPT ![l] =
                          [status |-> s, quotes |-> q, version |-> @.version + 1]]
          /\ s = "queued" => server[l].version < MaxChanges
    /\ Lead(l)!Next
    /\ UNCHANGED <<view, pollers, posts, gets, loggedIn, logouts, seen, done>>

\* GET /status reads the checkpoint.
ServeGet(l) ==
    \E g \in gets :
        /\ g.lead = l
        /\ g.answer = "none"
        /\ gets' = (gets \ {g}) \cup
              {[lead |-> l, answer |-> server[l].status,
                version |-> server[l].version]}
        /\ UNCHANGED <<view, pollers, posts, server, loggedIn, logouts, seen, done>>

-----------------------------------------------------------------------------
(* Poller *)

Request(l) == [lead |-> l, answer |-> "none", version |-> 0]

\* Mutant of Tick: no guard against a second request.
TickOverlapping(l) ==
    /\ pollers[l].timer
    /\ pollers' = [pollers EXCEPT ![l].inflight = TRUE]
    /\ gets' = gets \cup {Request(l)}
    /\ UNCHANGED <<view, posts, server, loggedIn, logouts, seen, done>>

\* A tick of the interval; with a request in flight it does nothing.
Tick(l) ==
    /\ pollers[l].timer
    /\ ~pollers[l].inflight
    /\ pollers' = [pollers EXCEPT ![l].inflight = TRUE]
    /\ gets' = gets \cup {Request(l)}
    /\ UNCHANGED <<view, posts, server, loggedIn, logouts, seen, done>>

Stopped == [timer |-> FALSE, inflight |-> FALSE]

\* Mutant of Answered: the flag is cleared for a terminal status only.
AnsweredInflight(g) ==
    pollers' = [pollers EXCEPT ![g.lead] =
                  IF g.answer \in TERMINAL THEN Stopped ELSE @]

Answered(g) ==
    pollers' = [pollers EXCEPT ![g.lead] =
                  IF g.answer \in TERMINAL THEN Stopped
                  ELSE [@ EXCEPT !.inflight = FALSE]]

\* The answer arrives, whether or not the poller was stopped meanwhile:
\* onUpdate, then onDone if the status is one to stop at.
GetAnswered(l) ==
    \E g \in gets :
        /\ g.lead = l
        /\ g.answer # "none"
        /\ gets' = gets \ {g}
        /\ Answered(g)
        /\ view' = IF g.answer \in TERMINAL
                   THEN [view EXCEPT !.status = g.answer, !.result = l,
                                     !.poller = NoLead]
                   ELSE [view EXCEPT !.status = g.answer]
        /\ done' = IF g.answer \in TERMINAL
                   THEN [done EXCEPT ![l] = @ + 1]
                   ELSE done
        /\ seen' = g.version
        /\ UNCHANGED <<posts, server, loggedIn, logouts>>

\* The pollers after reset().
ResetPollers ==
    IF view.poller = NoLead THEN pollers
    ELSE [pollers EXCEPT ![view.poller].timer = FALSE]

\* handle401: the event is handled before the error is thrown.
Unauthorized ==
    /\ logouts < MaxLogouts
    /\ loggedIn' = FALSE
    /\ logouts' = logouts + 1

\* Mutant of ShowFailure: a status the page has no text for.
ShowFailureAsFailed(before) ==
    view' = [before EXCEPT !.status = "failed", !.poller = NoLead]

\* Mutant of ShowFailure: only the message is set.
ShowFailureKeepsStatus(before) == view' = [before EXCEPT !.poller = NoLead]

ShowFailure(before) ==
    view' = [before EXCEPT !.status = "error", !.poller = NoLead]

\* The request fails: onError.
GetFailed(l) ==
    \E g \in gets :
        /\ g.lead = l
        /\ gets' = gets \ {g}
        /\ done' = [done EXCEPT ![l] = @ + 1]
        /\ \/ /\ ShowFailure(view)
              /\ pollers' = [pollers EXCEPT ![l] = Stopped]
              /\ UNCHANGED <<loggedIn, logouts, seen>>
           \/ /\ Unauthorized
              /\ ShowFailure(IdleView)
              /\ pollers' = [ResetPollers EXCEPT ![l] = Stopped]
              /\ seen' = 0
        /\ UNCHANGED <<posts, server>>

-----------------------------------------------------------------------------
(* The qualify store and App *)

\* Mutant of canSubmit: the button ignores the lead in progress.
canSubmitAlways == loggedIn

canSubmit == loggedIn /\ ~isLoading

\* submitLead up to its await: reset(), then the POST.
Submit(l) ==
    /\ canSubmit
    /\ posts[l] = "none"
    /\ \A k \in Leads : k < l => posts[k] # "none"
    /\ view' = [IdleView EXCEPT !.status = "queued"]
    /\ pollers' = ResetPollers
    /\ posts' = [posts EXCEPT ![l] = "sent"]
    /\ seen' = 0
    /\ UNCHANGED <<gets, server, loggedIn, logouts, done>>

\* The answer of the POST, whatever happened to the view since: a new poller,
\* whose first tick is at once.
PostAnswered(l) ==
    /\ posts[l] = "accepted"
    /\ posts' = [posts EXCEPT ![l] = "over"]
    /\ view' = [view EXCEPT !.threadId = l, !.poller = l]
    /\ pollers' = [pollers EXCEPT ![l] = [timer |-> TRUE, inflight |-> TRUE]]
    /\ gets' = gets \cup {Request(l)}
    /\ UNCHANGED <<server, loggedIn, logouts, seen, done>>

\* The POST fails, before or after the service accepted the lead; the poller
\* of another lead stays in the store.
PostFailed(l) ==
    /\ posts[l] \in {"sent", "accepted"}
    /\ posts' = [posts EXCEPT ![l] = "over"]
    /\ \/ /\ view' = [view EXCEPT !.status = "error"]
          /\ UNCHANGED <<pollers, loggedIn, logouts, seen>>
       \/ /\ posts[l] = "sent"
          /\ Unauthorized
          /\ view' = [IdleView EXCEPT !.status = "error"]
          /\ pollers' = ResetPollers
          /\ seen' = 0
    /\ UNCHANGED <<gets, server, done>>

\* The button: the auth store is cleared, the qualify store reset.
Logout ==
    /\ loggedIn
    /\ Unauthorized
    /\ view' = IdleView
    /\ pollers' = ResetPollers
    /\ seen' = 0
    /\ UNCHANGED <<posts, gets, server, done>>

Login ==
    /\ ~loggedIn
    /\ loggedIn' = TRUE
    /\ UNCHANGED <<view, pollers, posts, gets, server, logouts, seen, done>>

-----------------------------------------------------------------------------

BrowserStep(l) ==
    \/ Tick(l) \/ GetAnswered(l) \/ GetFailed(l)
    \/ PostAnswered(l) \/ PostFailed(l)

ServiceStep(l) == AcceptLead(l) \/ ServeGet(l)

UserStep == Logout \/ Login \/ \E l \in Leads : Submit(l)

Next ==
    \/ UserStep
    \/ \E l \in Leads : BrowserStep(l) \/ ServiceStep(l) \/ ServerStep(l)

\* The interval keeps firing; a request is answered or fails; a lead comes to
\* a status the poller stops at (LeadService, LeadsAreAnswered).
Fairness ==
    \A l \in Leads :
        /\ WF_vars(Tick(l))
        /\ WF_vars(ServeGet(l))
        /\ WF_vars(GetAnswered(l))
        /\ WF_vars(PostAnswered(l) \/ PostFailed(l))
        /\ WF_vars(AcceptLead(l))
        /\ WF_vars(ServerStep(l) /\ server[l].status \notin TERMINAL)

Spec == Init /\ [][Next]_vars /\ Fairness

-----------------------------------------------------------------------------
(* Properties *)

\* onDone is "called once when a terminal state is reached" (api.js:175) and
\* onError stops the poller: of the two there is at most one call per poller,
\* with late answers, stopped pollers and logouts.
DoneOnce == \A l \in Leads : done[l] <= 1

\* Until a logout the button is disabled only while something will enable it
\* again: the answer of a POST, or a poller that runs, is the store's and does
\* not wait for a request that is gone (qualify.js:63-69, api.js:212-231).
LoadingIsWatched ==
    logouts = 0 /\ isLoading =>
        \/ \E l \in Leads : posts[l] \in {"sent", "accepted"}
        \/ /\ view.poller # NoLead /\ pollers[view.poller].timer
           /\ pollers[view.poller].inflight => \E g \in gets : g.lead = view.poller

\* Until a logout the result shown is that of the lead whose thread is shown,
\* under the status that came with it (qualify.js:120-130).
ResultIsOfThread ==
    logouts = 0 /\ view.result # NoLead =>
        /\ view.result = view.threadId
        /\ view.status \in TERMINAL

\* Until a logout a status is never replaced by one the service reported
\* before it: answers that overtake each other do no harm, since a poller has
\* one request at a time (api.js:188, 212).
NoOlderStatus ==
    [][logouts' = 0 /\ view'.threadId = view.threadId => seen' >= seen]_vars

\* The view of a submitted lead comes to a status on which another one can be
\* submitted, or the user has logged out.
ViewIsReleased == isLoading ~> ~isLoading \/ logouts > 0

=============================================================================
