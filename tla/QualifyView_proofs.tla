-------------------------- MODULE QualifyView_proofs --------------------------
(***************************************************************************)
(* Theorems about QualifyView, for any number of leads, logouts and       *)
(* changes of status.                                                      *)
(***************************************************************************)
EXTENDS QualifyView, TLAPS

USE QualifyViewAssumption

\* No lead is numbered 0.
LEMMA LeadsType == Leads \subseteq Nat \ {0} /\ NoLead \notin Leads
  BY DEF Leads, NoLead

LEMMA ResetPollersType ==
  ASSUME TypeOK
  PROVE  /\ ResetPollers \in [Leads -> Pollers]
         /\ \A l \in Leads : /\ ResetPollers[l].timer => pollers[l].timer
                             /\ ResetPollers[l].inflight = pollers[l].inflight
<1>1. pollers \in [Leads -> Pollers] /\ view.poller \in Leads \cup {NoLead}
  BY DEF TypeOK, Views
<1>2. CASE view.poller = NoLead
  BY <1>1, <1>2 DEF ResetPollers
<1>3. CASE view.poller # NoLead
  <2>1. view.poller \in Leads
    BY <1>1, <1>3
  <2>2. ResetPollers = [pollers EXCEPT ![view.poller].timer = FALSE]
    BY <1>3 DEF ResetPollers
  <2> QED
    BY <1>1, <2>1, <2>2 DEF Pollers
<1> QED
  BY <1>2, <1>3

LEMMA StoppedType == Stopped \in Pollers /\ ~Stopped.timer /\ ~Stopped.inflight
  BY DEF Stopped, Pollers

LEMMA IdleViewType ==
  /\ IdleView \in Views /\ [IdleView EXCEPT !.status = "error"] \in Views
  /\ [IdleView EXCEPT !.status = "queued"] \in Views
  BY DEF IdleView, Views, Statuses, NoLead

\* The type of what an answered request leaves.
LEMMA AnsweredType ==
  ASSUME TypeOK, NEW g \in gets, Answered(g)
  PROVE  /\ pollers' \in [Leads -> Pollers]
         /\ ~pollers'[g.lead].inflight
         /\ pollers'[g.lead].timer => pollers[g.lead].timer /\ g.answer \notin TERMINAL
         /\ \A k \in Leads \ {g.lead} : pollers'[k] = pollers[k]
<1>1. g.lead \in Leads /\ pollers \in [Leads -> Pollers]
  BY DEF TypeOK, Gets
<1>2. CASE g.answer \in TERMINAL
  <2>1. pollers' = [pollers EXCEPT ![g.lead] = Stopped]
    BY <1>2 DEF Answered
  <2>2. pollers' \in [Leads -> Pollers] /\ pollers'[g.lead] = Stopped
    BY <1>1, <2>1, StoppedType
  <2>3. \A k \in Leads \ {g.lead} : pollers'[k] = pollers[k]
    BY <1>1, <2>1
  <2>4. ~pollers'[g.lead].inflight /\ ~pollers'[g.lead].timer
    BY <2>2, StoppedType
  <2> QED
    BY <2>2, <2>3, <2>4
<1>3. CASE g.answer \notin TERMINAL
  <2>1. pollers' = [pollers EXCEPT ![g.lead].inflight = FALSE]
    BY <1>1, <1>3 DEF Answered
  <2> QED
    BY <1>1, <1>3, <2>1 DEF Pollers
<1> QED
  BY <1>2, <1>3

LEMMA RequestType ==
  ASSUME NEW l \in Leads
  PROVE  /\ Request(l) \in Gets /\ Request(l).lead = l
         /\ Request(l).answer = "none" /\ Request(l).version = 0
  BY DEF Request, Gets

LEMMA NextType == TypeOK /\ [Next]_vars => TypeOK'
<1> SUFFICES ASSUME TypeOK, [Next]_vars PROVE TypeOK'
  OBVIOUS
<1>0. /\ pollers \in [Leads -> Pollers] /\ view \in Views
      /\ gets \subseteq Gets /\ logouts \in 0..MaxLogouts
  BY DEF TypeOK
<1>1. ASSUME NEW l \in Leads, Submit(l) PROVE TypeOK'
  BY <1>1, ResetPollersType, IdleViewType DEF Submit, TypeOK
<1>2. CASE Logout
  <2>1. logouts' \in 0..MaxLogouts
    BY <1>0, <1>2 DEF Logout, Unauthorized
  <2> QED
    BY <1>2, <2>1, ResetPollersType, IdleViewType DEF Logout, Unauthorized, TypeOK
<1>3. CASE Login
  BY <1>3 DEF Login, TypeOK
<1>4. ASSUME NEW l \in Leads, Tick(l) PROVE TypeOK'
  <2>1. pollers' \in [Leads -> Pollers]
    BY <1>0, <1>4 DEF Tick, Pollers
  <2> QED
    BY <1>4, <2>1, RequestType DEF Tick, TypeOK
<1>5. ASSUME NEW l \in Leads, GetAnswered(l) PROVE TypeOK'
  <2>1. PICK g \in gets : /\ g.lead = l /\ g.answer # "none"
                          /\ gets' = gets \ {g} /\ Answered(g)
                          /\ seen' = g.version
                          /\ view' = IF g.answer \in TERMINAL
                                     THEN [view EXCEPT !.status = g.answer, !.result = l,
                                                       !.poller = NoLead]
                                     ELSE [view EXCEPT !.status = g.answer]
    BY <1>5 DEF GetAnswered
  <2>2. g.answer \in Statuses /\ g.version \in Nat
    BY <1>0, <2>1 DEF Gets
  <2>3. view' \in Views
    BY <1>0, <2>1, <2>2 DEF Views
  <2>4. done' \in [Leads -> Nat]
    BY <1>5 DEF GetAnswered, TypeOK
  <2>5. pollers' \in [Leads -> Pollers]
    BY <2>1, AnsweredType
  <2>6. UNCHANGED <<posts, server, loggedIn, logouts>>
    BY <1>5 DEF GetAnswered
  <2> QED
    BY <2>1, <2>2, <2>3, <2>4, <2>5, <2>6 DEF TypeOK
<1>6. ASSUME NEW l \in Leads, GetFailed(l) PROVE TypeOK'
  <2>1. gets' \subseteq gets /\ UNCHANGED <<posts, server>>
    BY <1>6 DEF GetFailed
  <2>2. done' \in [Leads -> Nat]
    BY <1>6 DEF GetFailed, TypeOK
  <2>3. view' \in Views
    BY <1>0, <1>6 DEF GetFailed, ShowFailure, Views, IdleView, Statuses
  <2>4. pollers' \in [Leads -> Pollers]
    BY <1>0, <1>6, ResetPollersType, StoppedType DEF GetFailed
  <2>5. logouts' \in 0..MaxLogouts
    BY <1>0, <1>6 DEF GetFailed, Unauthorized
  <2>6. loggedIn' \in BOOLEAN
    BY <1>6 DEF GetFailed, Unauthorized, TypeOK
  <2>7. seen' \in Nat
    <3>1. seen' = seen \/ seen' = 0
      BY <1>6 DEF GetFailed
    <3> QED
      BY <3>1 DEF TypeOK
  <2> QED
    BY <2>1, <2>2, <2>3, <2>4, <2>5, <2>6, <2>7 DEF TypeOK
<1>7. ASSUME NEW l \in Leads, PostAnswered(l) PROVE TypeOK'
  <2>1. view' \in Views
    BY <1>0, <1>7 DEF PostAnswered, Views
  <2>2. pollers' \in [Leads -> Pollers]
    BY <1>0, <1>7 DEF PostAnswered, Pollers
  <2> QED
    BY <1>7, <2>1, <2>2, RequestType DEF PostAnswered, TypeOK
<1>8. ASSUME NEW l \in Leads, PostFailed(l) PROVE TypeOK'
  <2>1. view' \in Views
    BY <1>0, <1>8 DEF PostFailed, Views, IdleView, Statuses
  <2>2. pollers' \in [Leads -> Pollers]
    BY <1>0, <1>8, ResetPollersType DEF PostFailed
  <2>3. logouts' \in 0..MaxLogouts
    BY <1>0, <1>8 DEF PostFailed, Unauthorized
  <2>4. loggedIn' \in BOOLEAN
    BY <1>8 DEF PostFailed, Unauthorized, TypeOK
  <2>5. seen' \in Nat
    <3>1. seen' = seen \/ seen' = 0
      BY <1>8 DEF PostFailed
    <3> QED
      BY <3>1 DEF TypeOK
  <2>6. posts' \in [Leads -> {"none", "sent", "accepted", "over"}]
    BY <1>8 DEF PostFailed, TypeOK
  <2>7. UNCHANGED <<gets, server, done>>
    BY <1>8 DEF PostFailed
  <2> QED
    BY <2>1, <2>2, <2>3, <2>4, <2>5, <2>6, <2>7 DEF TypeOK
<1>9. ASSUME NEW l \in Leads, AcceptLead(l) PROVE TypeOK'
  BY <1>9 DEF AcceptLead, TypeOK
<1>10. ASSUME NEW l \in Leads, ServeGet(l) PROVE TypeOK'
  <2>1. server[l] \in ServerLeads
    BY DEF TypeOK
  <2>2. [lead |-> l, answer |-> server[l].status, version |-> server[l].version]
           \in Gets
    BY <2>1 DEF ServerLeads, Gets
  <2>3. gets' \subseteq Gets
    BY <1>0, <1>10, <2>2 DEF ServeGet
  <2> QED
    BY <1>10, <2>3 DEF ServeGet, TypeOK
<1>11. ASSUME NEW l \in Leads, ServerStep(l) PROVE TypeOK'
  <2> DEFINE v == server[l].version + 1
  <2>1. v \in Nat
    BY DEF TypeOK, ServerLeads
  <2>2. PICK s \in Statuses, q \in 0..1 :
            server' = [server EXCEPT ![l] = [status |-> s, quotes |-> q, version |-> v]]
    BY <1>11 DEF ServerStep, TypeOK
  <2> HIDE DEF v
  <2>3. server' \in [Leads -> ServerLeads]
    BY <2>1, <2>2 DEF TypeOK, ServerLeads
  <2> QED
    BY <1>11, <2>3 DEF ServerStep, TypeOK
<1>12. CASE UNCHANGED vars
  BY <1>12 DEF vars, TypeOK
<1> QED
  BY <1>1, <1>2, <1>3, <1>4, <1>5, <1>6, <1>7, <1>8, <1>9, <1>10, <1>11, <1>12
     DEF Next, UserStep, BrowserStep, ServiceStep

\* Store, pollers, requests and the service's leads keep their types.
THEOREM TypeCorrect == Spec => []TypeOK
<1>1. Init => TypeOK
  <2> SUFFICES ASSUME Init PROVE TypeOK
    OBVIOUS
  <2>1. view \in Views /\ logouts \in 0..MaxLogouts
    BY IdleViewType DEF Init
  <2>2. pollers \in [Leads -> Pollers]
    BY DEF Init, Pollers
  <2>3. server \in [Leads -> ServerLeads]
    BY DEF Init, ServerLeads, Statuses
  <2> QED
    BY <2>1, <2>2, <2>3 DEF Init, TypeOK
<1> QED
  BY <1>1, NextType, PTL DEF Spec

-----------------------------------------------------------------------------
(* A poller has one request at a time, and none after its last callback *)

Quiet(l) == ~pollers[l].timer /\ \A g \in gets : g.lead # l

OneRequest ==
    /\ \A g, h \in gets : g.lead = h.lead => g = h
    /\ \A g \in gets : pollers[g.lead].inflight

QuietInv ==
    \A l \in Leads :
        /\ posts[l] # "over" => Quiet(l) /\ done[l] = 0
        /\ done[l] # 0 => Quiet(l) /\ done[l] = 1

PollInv == OneRequest /\ QuietInv

\* A poller whose flag is set waits for a request that is there.
FlagInv == \A l \in Leads : pollers[l].inflight => \E g \in gets : g.lead = l

-----------------------------------------------------------------------------
(* Until a logout the view follows the one lead in progress *)

Pending(l) == posts[l] \in {"sent", "accepted"}

\* A poller that runs, or whose request is in flight, is the store's.
WatchedInv == \A l \in Leads : ~Quiet(l) => view.poller = l

\* While the POST is in flight the view is as submitLead left it.
PendingInv ==
    \A l \in Leads : Pending(l) =>
        /\ view.status = "queued" /\ view.threadId = NoLead
        /\ view.poller = NoLead /\ view.result = NoLead
        /\ \A k \in Leads : Pending(k) => k = l

\* While the poller runs the view shows its lead and no result.
PollingInv ==
    view.poller # NoLead =>
        /\ pollers[view.poller].timer /\ posts[view.poller] = "over"
        /\ view.threadId = view.poller /\ view.result = NoLead
        /\ isLoading

\* A lead is in progress exactly while its POST or its poller is.
LoadingInv == isLoading => view.poller # NoLead \/ \E l \in Leads : Pending(l)

ResultInv ==
    view.result # NoLead =>
        /\ view.result = view.threadId
        /\ view.status \in TERMINAL

\* Nothing was shown before the thread is known; what is shown is no newer
\* than the answer in flight, which is no newer than the service.
SeenInv ==
    /\ view.threadId = NoLead => seen = 0
    /\ view.poller # NoLead => seen <= server[view.poller].version
    /\ \A g \in gets : g.answer # "none" =>
          seen <= g.version /\ g.version <= server[g.lead].version

ViewInv ==
    logouts = 0 =>
        /\ WatchedInv /\ PendingInv /\ PollingInv
        /\ LoadingInv /\ ResultInv /\ SeenInv

LEMMA PollInit == Init => PollInv
<1> SUFFICES ASSUME Init PROVE PollInv
  OBVIOUS
<1>1. OneRequest
  BY DEF Init, OneRequest
<1>2. QuietInv
  BY DEF Init, QuietInv, Quiet
<1> QED
  BY <1>1, <1>2 DEF PollInv

\* What the two invariants say of lead l depends on its poller, its POST, its
\* callbacks and its requests, and a step that makes it quieter keeps it.
LEMMA QuietKept ==
  ASSUME QuietInv, NEW l \in Leads,
         Quiet(l) => Quiet(l)',
         posts'[l] # "over" => posts[l] # "over",
         done'[l] = done[l]
  PROVE  /\ posts'[l] # "over" => Quiet(l)' /\ done'[l] = 0
         /\ done'[l] # 0 => Quiet(l)' /\ done'[l] = 1
  BY DEF QuietInv

\* A poller is made when its POST is answered, so it had no request before.
LEMMA TickPoll ==
  ASSUME TypeOK, PollInv, NEW l \in Leads, Tick(l)
  PROVE  PollInv'
<1>0. pollers \in [Leads -> Pollers] /\ gets \subseteq Gets
  BY DEF TypeOK
<1>1. /\ pollers' = [pollers EXCEPT ![l].inflight = TRUE]
      /\ gets' = gets \cup {Request(l)}
      /\ pollers[l].timer /\ ~pollers[l].inflight
      /\ UNCHANGED <<posts, done>>
  BY DEF Tick
<1>2. \A k \in Leads : /\ pollers'[k].timer = pollers[k].timer
                       /\ k # l => pollers'[k] = pollers[k]
  BY <1>0, <1>1 DEF Pollers
<1>3. pollers'[l].inflight
  BY <1>0, <1>1 DEF Pollers
<1>4. \A g \in gets : g.lead # l /\ g.lead \in Leads
  BY <1>0, <1>1 DEF PollInv, OneRequest, Gets
<1>5. Request(l).lead = l
  BY RequestType
<1>6. OneRequest'
  <2>1. \A g, h \in gets' : g.lead = h.lead => g = h
    BY <1>1, <1>4, <1>5 DEF PollInv, OneRequest
  <2>2. \A g \in gets' : pollers'[g.lead].inflight
    BY <1>1, <1>2, <1>3, <1>4, <1>5 DEF PollInv, OneRequest
  <2> QED
    BY <2>1, <2>2 DEF OneRequest
<1>7. \A k \in Leads : Quiet(k) => Quiet(k)'
  BY <1>1, <1>2, <1>5 DEF Quiet
<1>8. QuietInv'
  BY <1>1, <1>7, QuietKept DEF PollInv, QuietInv
<1> QED
  BY <1>6, <1>8 DEF PollInv

\* The requests of other leads and their pollers stay as they are when a
\* request of l goes.
LEMMA RequestGone ==
  ASSUME TypeOK, PollInv, NEW l \in Leads, NEW g \in gets, g.lead = l,
         gets' = gets \ {g},
         \A k \in Leads : /\ pollers'[k].timer => pollers[k].timer
                          /\ k # l => pollers'[k].inflight = pollers[k].inflight
  PROVE  /\ OneRequest'
         /\ \A h \in gets' : h.lead # l
         /\ \A k \in Leads : Quiet(k) => Quiet(k)'
<1>0. gets \subseteq Gets
  BY DEF TypeOK
<1>1. \A h \in gets' : h \in gets /\ h.lead # l /\ h.lead \in Leads
  BY <1>0 DEF PollInv, OneRequest, Gets
<1>2. OneRequest'
  <2>1. \A h, i \in gets' : h.lead = i.lead => h = i
    BY <1>1 DEF PollInv, OneRequest
  <2>2. \A h \in gets' : pollers'[h.lead].inflight
    BY <1>1 DEF PollInv, OneRequest
  <2> QED
    BY <2>1, <2>2 DEF OneRequest
<1>3. \A k \in Leads : Quiet(k) => Quiet(k)'
  BY <1>1 DEF Quiet
<1> QED
  BY <1>1, <1>2, <1>3

\* With its request gone and its interval cleared, a poller makes no more
\* calls; the one of this step was its first, since it was not quiet.
LEMMA LastCallback ==
  ASSUME TypeOK, PollInv, NEW l \in Leads, NEW g \in gets, g.lead = l,
         gets' = gets \ {g}, UNCHANGED posts,
         done' = [done EXCEPT ![l] = @ + 1],
         ~pollers'[l].timer,
         \A k \in Leads : /\ pollers'[k].timer => pollers[k].timer
                          /\ k # l => pollers'[k].inflight = pollers[k].inflight
  PROVE  PollInv'
<1>1. /\ OneRequest' /\ \A h \in gets' : h.lead # l
      /\ \A k \in Leads : Quiet(k) => Quiet(k)'
  BY RequestGone
<1>2. ~Quiet(l)
  BY DEF Quiet
<1>3. done[l] = 0 /\ posts[l] = "over"
  BY <1>2 DEF PollInv, QuietInv
<1>4. done'[l] = 1
  BY <1>3 DEF TypeOK
<1>5. \A k \in Leads : k # l => done'[k] = done[k]
  BY DEF TypeOK
<1>6. Quiet(l)'
  BY <1>1 DEF Quiet
<1>7. ASSUME NEW k \in Leads
      PROVE  /\ posts'[k] # "over" => Quiet(k)' /\ done'[k] = 0
             /\ done'[k] # 0 => Quiet(k)' /\ done'[k] = 1
  <2>1. CASE k = l
    BY <1>3, <1>4, <1>6, <2>1
  <2>2. CASE k # l
    BY <1>1, <1>5, <2>2, QuietKept DEF PollInv
  <2> QED
    BY <2>1, <2>2
<1> QED
  BY <1>1, <1>7 DEF PollInv, QuietInv

LEMMA AnsweredPoll ==
  ASSUME TypeOK, PollInv, NEW l \in Leads, GetAnswered(l)
  PROVE  PollInv'
<1>1. PICK g \in gets : /\ g.lead = l /\ g.answer # "none"
                        /\ gets' = gets \ {g} /\ Answered(g)
                        /\ done' = IF g.answer \in TERMINAL
                                   THEN [done EXCEPT ![l] = @ + 1]
                                   ELSE done
  BY DEF GetAnswered
<1>2. UNCHANGED posts
  BY DEF GetAnswered
<1>3. \A k \in Leads : /\ pollers'[k].timer => pollers[k].timer
                       /\ k # l => pollers'[k].inflight = pollers[k].inflight
  BY <1>1, AnsweredType
<1>4. CASE g.answer \in TERMINAL
  <2>1. ~pollers'[l].timer
    BY <1>1, <1>4, AnsweredType
  <2>2. done' = [done EXCEPT ![l] = @ + 1]
    BY <1>1, <1>4
  <2> QED
    BY <1>1, <1>2, <1>3, <2>1, <2>2, LastCallback
<1>5. CASE g.answer \notin TERMINAL
  <2>1. OneRequest' /\ \A k \in Leads : Quiet(k) => Quiet(k)'
    BY <1>1, <1>3, RequestGone
  <2>2. QuietInv'
    BY <1>1, <1>2, <1>5, <2>1, QuietKept DEF PollInv, QuietInv
  <2> QED
    BY <2>1, <2>2 DEF PollInv
<1> QED
  BY <1>4, <1>5

\* The pollers after onError, with or without the reset of a 401.
LEMMA FailedPollers ==
  ASSUME TypeOK, NEW l \in Leads,
         \/ pollers' = [pollers EXCEPT ![l] = Stopped]
         \/ pollers' = [ResetPollers EXCEPT ![l] = Stopped]
  PROVE  /\ ~pollers'[l].timer
         /\ \A k \in Leads : /\ pollers'[k].timer => pollers[k].timer
                             /\ k # l => pollers'[k].inflight = pollers[k].inflight
<1>1. pollers \in [Leads -> Pollers] /\ ResetPollers \in [Leads -> Pollers]
  BY ResetPollersType DEF TypeOK
<1>2. PICK P \in [Leads -> Pollers] :
         /\ pollers' = [P EXCEPT ![l] = Stopped]
         /\ \A k \in Leads : /\ P[k].timer => pollers[k].timer
                             /\ P[k].inflight = pollers[k].inflight
  BY <1>1, ResetPollersType
<1>3. pollers'[l] = Stopped /\ \A k \in Leads \ {l} : pollers'[k] = P[k]
  BY <1>2
<1> QED
  BY <1>2, <1>3, StoppedType

LEMMA FailedPoll ==
  ASSUME TypeOK, PollInv, NEW l \in Leads, GetFailed(l)
  PROVE  PollInv'
<1>1. PICK g \in gets : g.lead = l /\ gets' = gets \ {g}
  BY DEF GetFailed
<1>2. UNCHANGED posts /\ done' = [done EXCEPT ![l] = @ + 1]
  BY DEF GetFailed
<1>3. \/ pollers' = [pollers EXCEPT ![l] = Stopped]
      \/ pollers' = [ResetPollers EXCEPT ![l] = Stopped]
  BY DEF GetFailed
<1> QED
  BY <1>1, <1>2, <1>3, FailedPollers, LastCallback

\* A step of the view that at most clears an interval.
LEMMA ResetPoll ==
  ASSUME TypeOK, PollInv, UNCHANGED <<gets, done>>,
         pollers' = pollers \/ pollers' = ResetPollers,
         \A k \in Leads : posts'[k] # "over" => posts[k] # "over"
  PROVE  PollInv'
<1>1. \A k \in Leads : /\ pollers'[k].timer => pollers[k].timer
                       /\ pollers'[k].inflight = pollers[k].inflight
  BY ResetPollersType
<1>2. \A g \in gets : g.lead \in Leads
  BY DEF TypeOK, Gets
<1>3. OneRequest'
  BY <1>1, <1>2 DEF PollInv, OneRequest
<1>4. \A k \in Leads : Quiet(k) => Quiet(k)'
  BY <1>1 DEF Quiet
<1>5. QuietInv'
  BY <1>4, QuietKept DEF PollInv, QuietInv
<1> QED
  BY <1>3, <1>5 DEF PollInv

\* Until its POST is over a lead has no poller and no request.
LEMMA PostAnsweredPoll ==
  ASSUME TypeOK, PollInv, NEW l \in Leads, PostAnswered(l)
  PROVE  PollInv'
<1> DEFINE P == [timer |-> TRUE, inflight |-> TRUE]
<1>0. /\ pollers \in [Leads -> Pollers] /\ gets \subseteq Gets
      /\ posts \in [Leads -> {"none", "sent", "accepted", "over"}]
  BY DEF TypeOK
<1>1. /\ pollers' = [pollers EXCEPT ![l] = P]
      /\ gets' = gets \cup {Request(l)}
      /\ posts' = [posts EXCEPT ![l] = "over"]
      /\ posts[l] = "accepted" /\ UNCHANGED done
  BY DEF PostAnswered
<1>2. Quiet(l) /\ done[l] = 0
  BY <1>1 DEF PollInv, QuietInv
<1>3. \A g \in gets : g.lead # l /\ g.lead \in Leads
  BY <1>0, <1>2 DEF Quiet, Gets
<1>4. pollers'[l].inflight /\ \A k \in Leads \ {l} : pollers'[k] = pollers[k]
  BY <1>0, <1>1
<1>5. Request(l).lead = l
  BY RequestType
<1>6. OneRequest'
  <2>1. \A g, h \in gets' : g.lead = h.lead => g = h
    BY <1>1, <1>3, <1>5 DEF PollInv, OneRequest
  <2>2. \A g \in gets' : pollers'[g.lead].inflight
    BY <1>1, <1>3, <1>4, <1>5 DEF PollInv, OneRequest
  <2> QED
    BY <2>1, <2>2 DEF OneRequest
<1>7. ASSUME NEW k \in Leads
      PROVE  /\ posts'[k] # "over" => Quiet(k)' /\ done'[k] = 0
             /\ done'[k] # 0 => Quiet(k)' /\ done'[k] = 1
  <2>1. CASE k = l
    BY <1>0, <1>1, <1>2, <2>1
  <2>2. CASE k # l
    <3>1. Quiet(k) => Quiet(k)'
      BY <1>1, <1>4, <1>5, <2>2 DEF Quiet
    <3> QED
      BY <1>0, <1>1, <2>2, <3>1, QuietKept DEF PollInv
  <2> QED
    BY <2>1, <2>2
<1> QED
  BY <1>6, <1>7 DEF PollInv, QuietInv

LEMMA ServeGetPoll ==
  ASSUME TypeOK, PollInv, NEW l \in Leads, ServeGet(l)
  PROVE  PollInv'
<1> DEFINE a == [lead |-> l, answer |-> server[l].status,
                 version |-> server[l].version]
<1>1. PICK g \in gets : g.lead = l /\ gets' = (gets \ {g}) \cup {a}
  BY DEF ServeGet
<1>2. UNCHANGED <<pollers, posts, done>>
  BY DEF ServeGet
<1>3. a.lead = l
  OBVIOUS
<1> HIDE DEF a
<1>4. \A h \in gets' : h = a \/ (h \in gets /\ h.lead # l)
  BY <1>1 DEF PollInv, OneRequest
<1>5. OneRequest'
  <2>1. \A h, i \in gets' : h.lead = i.lead => h = i
    BY <1>3, <1>4 DEF PollInv, OneRequest
  <2>2. \A h \in gets' : pollers'[h.lead].inflight
    BY <1>1, <1>2, <1>3, <1>4 DEF PollInv, OneRequest
  <2> QED
    BY <2>1, <2>2 DEF OneRequest
<1>6. \A k \in Leads : Quiet(k) => Quiet(k)'
  BY <1>1, <1>2, <1>3, <1>4 DEF Quiet
<1>7. QuietInv'
  BY <1>2, <1>6, QuietKept DEF PollInv, QuietInv
<1> QED
  BY <1>5, <1>7 DEF PollInv

LEMMA PollNext == TypeOK /\ PollInv /\ [Next]_vars => PollInv'
<1> SUFFICES ASSUME TypeOK, PollInv, [Next]_vars PROVE PollInv'
  OBVIOUS
<1>0. posts \in [Leads -> {"none", "sent", "accepted", "over"}]
  BY DEF TypeOK
<1>1. ASSUME NEW l \in Leads, Submit(l) PROVE PollInv'
  BY <1>0, <1>1, ResetPoll DEF Submit
<1>2. CASE Logout
  BY <1>2, ResetPoll DEF Logout
<1>3. CASE Login
  BY <1>3, ResetPoll DEF Login
<1>4. ASSUME NEW l \in Leads, PostFailed(l) PROVE PollInv'
  BY <1>0, <1>4, ResetPoll DEF PostFailed
<1>5. ASSUME NEW l \in Leads, AcceptLead(l) PROVE PollInv'
  BY <1>0, <1>5, ResetPoll DEF AcceptLead
<1>6. ASSUME NEW l \in Leads, ServerStep(l) PROVE PollInv'
  BY <1>6, ResetPoll DEF ServerStep
<1>7. CASE UNCHANGED vars
  BY <1>7, ResetPoll DEF vars
<1> QED
  BY <1>1, <1>2, <1>3, <1>4, <1>5, <1>6, <1>7, TickPoll, AnsweredPoll,
     FailedPoll, PostAnsweredPoll, ServeGetPoll
     DEF Next, UserStep, BrowserStep, ServiceStep

\* A flag outlives its request in no callback: a tick that finds it set for
\* nothing would be the last thing the poller did.
LEMMA FlagNext == TypeOK /\ PollInv /\ FlagInv /\ [Next]_vars => FlagInv'
<1> SUFFICES ASSUME TypeOK, PollInv, FlagInv, [Next]_vars PROVE FlagInv'
  OBVIOUS
<1>0. pollers \in [Leads -> Pollers] /\ gets \subseteq Gets
  BY DEF TypeOK
\* A request is added for the poller whose flag is set.
<1>a. ASSUME NEW l \in Leads, gets' = gets \cup {Request(l)},
             \A k \in Leads \ {l} : pollers'[k] = pollers[k]
      PROVE  FlagInv'
  BY <1>a, RequestType DEF FlagInv
\* A request goes, and the flag with it.
<1>b. ASSUME NEW l \in Leads, NEW g \in gets, g.lead = l, gets' = gets \ {g},
             ~pollers'[l].inflight,
             \A k \in Leads \ {l} : pollers'[k].inflight = pollers[k].inflight
      PROVE  FlagInv'
  BY <1>b DEF FlagInv
\* The view is reset, or the step is none of the pollers'.
<1>c. ASSUME UNCHANGED gets, pollers' = pollers \/ pollers' = ResetPollers
      PROVE  FlagInv'
  <2>1. \A k \in Leads : pollers'[k].inflight = pollers[k].inflight
    BY <1>c, ResetPollersType
  <2> QED
    BY <1>c, <2>1 DEF FlagInv
<1>1. ASSUME NEW l \in Leads, Tick(l) PROVE FlagInv'
  BY <1>0, <1>1, <1>a DEF Tick
<1>2. ASSUME NEW l \in Leads, PostAnswered(l) PROVE FlagInv'
  BY <1>0, <1>2, <1>a DEF PostAnswered
<1>3. ASSUME NEW l \in Leads, GetAnswered(l) PROVE FlagInv'
  <2>1. PICK g \in gets : g.lead = l /\ gets' = gets \ {g} /\ Answered(g)
    BY <1>3 DEF GetAnswered
  <2>2. /\ ~pollers'[l].inflight
        /\ \A k \in Leads \ {l} : pollers'[k].inflight = pollers[k].inflight
    BY <2>1, AnsweredType
  <2> QED
    BY <1>b, <2>1, <2>2
<1>4. ASSUME NEW l \in Leads, GetFailed(l) PROVE FlagInv'
  <2>1. PICK g \in gets : g.lead = l /\ gets' = gets \ {g}
    BY <1>4 DEF GetFailed
  <2>2. \/ pollers' = [pollers EXCEPT ![l] = Stopped]
        \/ pollers' = [ResetPollers EXCEPT ![l] = Stopped]
    BY <1>4 DEF GetFailed
  <2>3. pollers'[l] = Stopped
    BY <1>0, <2>2, ResetPollersType
  <2>4. \A k \in Leads \ {l} : pollers'[k].inflight = pollers[k].inflight
    BY <2>2, FailedPollers
  <2> QED
    BY <1>b, <2>1, <2>3, <2>4, StoppedType
<1>5. ASSUME NEW l \in Leads, ServeGet(l) PROVE FlagInv'
  <2>1. /\ \A g \in gets : \E h \in gets' : h.lead = g.lead
        /\ UNCHANGED pollers
    BY <1>5 DEF ServeGet
  <2> QED
    BY <2>1 DEF FlagInv
<1>6. ASSUME NEW l \in Leads,
             Submit(l) \/ PostFailed(l) \/ AcceptLead(l) \/ ServerStep(l)
      PROVE  FlagInv'
  BY <1>6, <1>c DEF Submit, PostFailed, AcceptLead, ServerStep
<1>7. CASE Logout \/ Login \/ UNCHANGED vars
  BY <1>7, <1>c DEF Logout, Login, vars
<1> QED
  BY <1>1, <1>2, <1>3, <1>4, <1>5, <1>6, <1>7
     DEF Next, UserStep, BrowserStep, ServiceStep

\* At most one call of onDone or onError per poller, with late answers,
\* stopped pollers and logouts.
THEOREM OneCallback == Spec => []DoneOnce
<1>1. TypeOK /\ PollInv => DoneOnce
  BY DEF TypeOK, PollInv, QuietInv, DoneOnce
<1> QED
  BY <1>1, TypeCorrect, PollInit, PollNext, PTL DEF Spec

LEMMA ViewInit == Init => ViewInv
<1> SUFFICES ASSUME Init PROVE ViewInv
  OBVIOUS
<1>1. WatchedInv
  BY DEF Init, WatchedInv, Quiet
<1>2. PendingInv /\ LoadingInv
  BY DEF Init, PendingInv, LoadingInv, Pending, IdleView, isLoading
<1>3. PollingInv /\ ResultInv /\ SeenInv
  BY DEF Init, PollingInv, ResultInv, SeenInv, IdleView
<1> QED
  BY <1>1, <1>2, <1>3 DEF ViewInv

\* The parts of ViewInv, before the first logout.
Following ==
    /\ WatchedInv /\ PendingInv /\ PollingInv
    /\ LoadingInv /\ ResultInv /\ SeenInv

\* Only from a view that is not loading, and so has no poller.
LEMMA SubmitView ==
  ASSUME TypeOK, Following, NEW l \in Leads, Submit(l)
  PROVE  Following'
<1>0. posts \in [Leads -> {"none", "sent", "accepted", "over"}] /\ NoLead \notin Leads
  BY LeadsType DEF TypeOK
<1>1. /\ ~isLoading
      /\ view' = [IdleView EXCEPT !.status = "queued"]
      /\ posts' = [posts EXCEPT ![l] = "sent"] /\ seen' = 0
      /\ UNCHANGED <<gets, server>>
  BY DEF Submit, canSubmit
<1>2. view.poller = NoLead
  BY <1>1 DEF Following, PollingInv
<1>3. UNCHANGED pollers
  BY <1>2 DEF Submit, ResetPollers
<1>4. \A k \in Leads : ~Pending(k)
  BY <1>1 DEF Following, PendingInv, isLoading
<1>5. \A k \in Leads : Pending(k)' <=> k = l
  BY <1>0, <1>1, <1>4 DEF Pending
<1>6. /\ view'.status = "queued" /\ view'.threadId = NoLead
      /\ view'.poller = NoLead /\ view'.result = NoLead
  BY <1>1 DEF IdleView
<1>7. \A k \in Leads : Quiet(k)'
  BY <1>0, <1>1, <1>2, <1>3 DEF Following, WatchedInv, Quiet
<1>8. SeenInv'
  <2>1. \A g \in gets : FALSE
    BY <1>1, <1>7 DEF Quiet, TypeOK, Gets
  <2> QED
    BY <1>1, <1>6, <2>1 DEF SeenInv
<1>9. WatchedInv' /\ PendingInv' /\ LoadingInv'
  BY <1>5, <1>6, <1>7 DEF WatchedInv, PendingInv, LoadingInv
<1>10. PollingInv' /\ ResultInv'
  BY <1>6 DEF PollingInv, ResultInv
<1> QED
  BY <1>8, <1>9, <1>10 DEF Following

LEMMA TickView ==
  ASSUME TypeOK, Following, NEW l \in Leads, Tick(l)
  PROVE  Following'
<1>0. pollers \in [Leads -> Pollers]
  BY DEF TypeOK
<1>1. /\ pollers' = [pollers EXCEPT ![l].inflight = TRUE]
      /\ gets' = gets \cup {Request(l)} /\ pollers[l].timer
      /\ UNCHANGED <<view, posts, server, seen>>
  BY DEF Tick
<1>2. \A k \in Leads : pollers'[k].timer = pollers[k].timer
  BY <1>0, <1>1 DEF Pollers
<1>3. Request(l).lead = l /\ Request(l).answer = "none"
  BY RequestType
<1>4. ~Quiet(l) /\ \A k \in Leads : k # l /\ Quiet(k) => Quiet(k)'
  BY <1>1, <1>2, <1>3 DEF Quiet
<1>5. WatchedInv'
  BY <1>1, <1>4 DEF Following, WatchedInv
<1>6. PollingInv'
  BY <1>1, <1>2 DEF Following, PollingInv, isLoading, TypeOK, Views
<1>7. SeenInv'
  BY <1>1, <1>3 DEF Following, SeenInv
<1>8. PendingInv' /\ LoadingInv' /\ ResultInv'
  BY <1>1 DEF Following, PendingInv, LoadingInv, ResultInv, Pending, isLoading
<1> QED
  BY <1>5, <1>6, <1>7, <1>8 DEF Following

\* The answer is of the one poller, whose lead the view shows.
LEMMA AnsweredView ==
  ASSUME TypeOK, PollInv, Following, NEW l \in Leads, GetAnswered(l)
  PROVE  Following' /\ seen' >= seen /\ view'.threadId = view.threadId
<1>0. view \in Views /\ gets \subseteq Gets /\ NoLead \notin Leads
  BY LeadsType DEF TypeOK
<1>1. PICK g \in gets : /\ g.lead = l /\ g.answer # "none"
                        /\ gets' = gets \ {g} /\ Answered(g)
                        /\ seen' = g.version
                        /\ view' = IF g.answer \in TERMINAL
                                   THEN [view EXCEPT !.status = g.answer, !.result = l,
                                                     !.poller = NoLead]
                                   ELSE [view EXCEPT !.status = g.answer]
  BY DEF GetAnswered
<1>2. UNCHANGED <<posts, server>>
  BY DEF GetAnswered
<1>3. view.poller = l
  BY <1>1 DEF Quiet, Following, WatchedInv
<1>4. /\ view.threadId = l /\ view.result = NoLead
      /\ posts[l] = "over" /\ pollers[l].timer
  BY <1>0, <1>3 DEF Following, PollingInv
<1>5. \A k \in Leads : ~Pending(k)
  BY <1>0, <1>3 DEF Following, PendingInv
<1>6. \A k \in Leads \ {l} : Quiet(k)
  BY <1>3 DEF Following, WatchedInv
<1>7. gets' = {}
  BY <1>0, <1>1, <1>6 DEF PollInv, OneRequest, Quiet, Gets
<1>8. seen <= g.version /\ g.version <= server[l].version
  BY <1>1 DEF Following, SeenInv
<1>9. \A k \in Leads \ {l} : pollers'[k] = pollers[k]
  BY <1>1, AnsweredType
<1>10. \A k \in Leads \ {l} : Quiet(k)'
  BY <1>6, <1>7, <1>9 DEF Quiet
<1>11. view'.threadId = l
  BY <1>0, <1>1, <1>4 DEF Views
<1>12. PendingInv' /\ \A k \in Leads : ~Pending(k)'
  BY <1>2, <1>5 DEF PendingInv, Pending
<1>13. seen' >= seen /\ view'.threadId = view.threadId
  <2>1. seen \in Nat /\ g.version \in Nat
    BY <1>0 DEF TypeOK, Gets
  <2> QED
    BY <1>1, <1>4, <1>8, <1>11, <2>1
<1>14. CASE g.answer \in TERMINAL
  <2>1. view'.status = g.answer /\ view'.result = l /\ view'.poller = NoLead
    BY <1>0, <1>1, <1>14 DEF Views
  <2>2. ~pollers'[l].timer
    BY <1>1, <1>14, AnsweredType
  <2>3. WatchedInv'
    BY <1>7, <1>10, <2>2 DEF WatchedInv, Quiet
  <2>4. PollingInv' /\ ResultInv'
    BY <1>11, <1>14, <2>1 DEF PollingInv, ResultInv
  <2>5. ~isLoading'
    BY <1>14, <2>1 DEF isLoading, TERMINAL
  <2>6. SeenInv'
    BY <1>0, <1>7, <1>11, <2>1 DEF SeenInv
  <2> QED
    BY <1>12, <1>13, <2>3, <2>4, <2>5, <2>6 DEF Following, LoadingInv
<1>15. CASE g.answer \notin TERMINAL
  <2>1. view' = [view EXCEPT !.status = g.answer]
    BY <1>1, <1>15
  <2>2. view'.status = g.answer /\ view'.result = NoLead /\ view'.poller = l
    BY <1>0, <1>3, <1>4, <2>1 DEF Views
  <2>3. g.answer \in {"queued", "processing"}
    BY <1>0, <1>1, <1>15 DEF Gets, Statuses, TERMINAL
  <2>4. pollers'[l].timer
    <3>1. pollers' = [pollers EXCEPT ![l].inflight = FALSE]
      BY <1>1, <1>15 DEF Answered, TypeOK
    <3> QED
      BY <1>4, <3>1 DEF TypeOK, Pollers
  <2>5. WatchedInv'
    BY <1>10, <2>2 DEF WatchedInv
  <2>6. isLoading'
    BY <2>2, <2>3 DEF isLoading
  <2>7. PollingInv' /\ ResultInv' /\ LoadingInv'
    BY <1>0, <1>2, <1>4, <1>11, <2>2, <2>4, <2>6 DEF PollingInv, ResultInv, LoadingInv
  <2>8. SeenInv'
    BY <1>0, <1>1, <1>2, <1>7, <1>8, <1>11, <2>2 DEF SeenInv
  <2> QED
    BY <1>12, <1>13, <2>5, <2>7, <2>8 DEF Following
<1> QED
  BY <1>14, <1>15

\* The failure is of the one poller too.
LEMMA FailedView ==
  ASSUME TypeOK, PollInv, Following, logouts' = logouts,
         NEW l \in Leads, GetFailed(l)
  PROVE  Following' /\ seen' = seen
<1>0. /\ view \in Views /\ gets \subseteq Gets /\ NoLead \notin Leads
      /\ pollers \in [Leads -> Pollers] /\ logouts \in Nat
  BY LeadsType DEF TypeOK
<1>1. PICK g \in gets : g.lead = l /\ gets' = gets \ {g}
  BY DEF GetFailed
<1>2. /\ ShowFailure(view) /\ pollers' = [pollers EXCEPT ![l] = Stopped]
      /\ UNCHANGED seen
  BY <1>0 DEF GetFailed, Unauthorized
<1>3. UNCHANGED <<posts, server>>
  BY DEF GetFailed
<1>4. view.poller = l
  BY <1>1 DEF Quiet, Following, WatchedInv
<1>5. view.threadId = l /\ view.result = NoLead
  BY <1>0, <1>4 DEF Following, PollingInv
<1>6. \A k \in Leads : ~Pending(k)
  BY <1>0, <1>4 DEF Following, PendingInv
<1>7. \A k \in Leads \ {l} : Quiet(k)
  BY <1>4 DEF Following, WatchedInv
<1>8. gets' = {}
  BY <1>0, <1>1, <1>7 DEF PollInv, OneRequest, Quiet, Gets
<1>9. /\ view'.status = "error" /\ view'.poller = NoLead
      /\ view'.threadId = l /\ view'.result = NoLead
  BY <1>0, <1>2, <1>5 DEF ShowFailure, Views
<1>10. ~pollers'[l].timer /\ \A k \in Leads \ {l} : pollers'[k] = pollers[k]
  BY <1>0, <1>2, StoppedType
<1>11. WatchedInv'
  BY <1>7, <1>8, <1>10 DEF WatchedInv, Quiet
<1>12. PendingInv' /\ ~isLoading'
  BY <1>3, <1>6, <1>9 DEF PendingInv, Pending, isLoading
<1>13. SeenInv'
  BY <1>0, <1>8, <1>9 DEF SeenInv
<1> QED
  BY <1>2, <1>9, <1>11, <1>12, <1>13 DEF Following, PollingInv, LoadingInv, ResultInv

\* The view of a lead whose POST is in flight has no poller.
LEMMA PostAnsweredView ==
  ASSUME TypeOK, PollInv, Following, NEW l \in Leads, PostAnswered(l)
  PROVE  Following' /\ seen' = seen
<1> DEFINE P == [timer |-> TRUE, inflight |-> TRUE]
<1>0. /\ view \in Views /\ gets \subseteq Gets /\ NoLead \notin Leads
      /\ pollers \in [Leads -> Pollers]
      /\ posts \in [Leads -> {"none", "sent", "accepted", "over"}]
      /\ server \in [Leads -> ServerLeads]
  BY LeadsType DEF TypeOK
<1>1. /\ posts[l] = "accepted" /\ posts' = [posts EXCEPT ![l] = "over"]
      /\ view' = [view EXCEPT !.threadId = l, !.poller = l]
      /\ pollers' = [pollers EXCEPT ![l] = P]
      /\ gets' = gets \cup {Request(l)}
      /\ UNCHANGED <<server, seen>>
  BY DEF PostAnswered
<1>2. /\ view.status = "queued" /\ view.threadId = NoLead
      /\ view.poller = NoLead /\ view.result = NoLead
      /\ \A k \in Leads : Pending(k) => k = l
  BY <1>1 DEF Following, PendingInv, Pending
<1>3. \A k \in Leads : Quiet(k)
  BY <1>0, <1>2 DEF Following, WatchedInv
<1>4. gets = {}
  BY <1>0, <1>3 DEF Quiet, Gets
<1>5. Request(l).lead = l /\ Request(l).answer = "none"
  BY RequestType
<1>6. /\ view'.status = "queued" /\ view'.threadId = l
      /\ view'.poller = l /\ view'.result = NoLead
  BY <1>0, <1>1, <1>2 DEF Views
<1>7. pollers'[l].timer /\ \A k \in Leads \ {l} : pollers'[k] = pollers[k]
  BY <1>0, <1>1
<1>8. WatchedInv'
  BY <1>1, <1>3, <1>4, <1>5, <1>6, <1>7 DEF WatchedInv, Quiet
<1>9. posts'[l] = "over" /\ \A k \in Leads : ~Pending(k)'
  BY <1>0, <1>1, <1>2 DEF Pending
<1>10. PollingInv' /\ LoadingInv' /\ ResultInv' /\ PendingInv'
  BY <1>0, <1>6, <1>7, <1>9 DEF PollingInv, LoadingInv, ResultInv, PendingInv, isLoading
<1>11. seen = 0
  BY <1>2 DEF Following, SeenInv
<1>12. SeenInv'
  <2>1. seen' <= server'[l].version
    BY <1>0, <1>1, <1>11 DEF ServerLeads
  <2> QED
    BY <1>0, <1>1, <1>4, <1>5, <1>6, <2>1 DEF SeenInv
<1> QED
  BY <1>1, <1>8, <1>10, <1>12 DEF Following

LEMMA PostFailedView ==
  ASSUME TypeOK, Following, logouts' = logouts, NEW l \in Leads, PostFailed(l)
  PROVE  Following' /\ seen' = seen
<1>0. /\ view \in Views /\ logouts \in Nat
      /\ posts \in [Leads -> {"none", "sent", "accepted", "over"}]
  BY DEF TypeOK
<1>1. posts[l] \in {"sent", "accepted"} /\ posts' = [posts EXCEPT ![l] = "over"]
  BY DEF PostFailed
<1>2. view' = [view EXCEPT !.status = "error"] /\ UNCHANGED <<pollers, seen>>
  BY <1>0 DEF PostFailed, Unauthorized
<1>3. UNCHANGED <<gets, server>>
  BY DEF PostFailed
<1>4. /\ view.threadId = NoLead /\ view.poller = NoLead /\ view.result = NoLead
      /\ \A k \in Leads : Pending(k) => k = l
  BY <1>1 DEF Following, PendingInv, Pending
<1>5. /\ view'.status = "error" /\ view'.threadId = NoLead
      /\ view'.poller = NoLead /\ view'.result = NoLead
  BY <1>0, <1>2, <1>4 DEF Views
<1>6. \A k \in Leads : ~Pending(k)'
  BY <1>0, <1>1, <1>4 DEF Pending
<1>7. WatchedInv'
  BY <1>2, <1>3, <1>4, <1>5 DEF Following, WatchedInv, Quiet
<1>8. SeenInv'
  BY <1>2, <1>3, <1>4, <1>5 DEF Following, SeenInv
<1>9. ~isLoading'
  BY <1>5 DEF isLoading
<1> QED
  BY <1>2, <1>5, <1>6, <1>7, <1>8, <1>9
     DEF Following, PollingInv, LoadingInv, ResultInv, PendingInv

\* An answer takes the status the service has at the time.
LEMMA ServeGetView ==
  ASSUME TypeOK, Following, NEW l \in Leads, ServeGet(l)
  PROVE  Following'
<1> DEFINE a == [lead |-> l, answer |-> server[l].status,
                 version |-> server[l].version]
<1>0. NoLead \notin Leads /\ server \in [Leads -> ServerLeads]
  BY LeadsType DEF TypeOK
<1>1. PICK g \in gets : g.lead = l /\ gets' = (gets \ {g}) \cup {a}
  BY DEF ServeGet
<1>2. UNCHANGED <<view, pollers, posts, server, seen>>
  BY DEF ServeGet
<1>3. a.lead = l /\ a.version = server[l].version
  OBVIOUS
<1> HIDE DEF a
<1>4. ~Quiet(l) /\ \A k \in Leads : Quiet(k) => Quiet(k)'
  BY <1>1, <1>2, <1>3 DEF Quiet
<1>5. view.poller = l
  BY <1>4 DEF Following, WatchedInv
<1>6. WatchedInv'
  BY <1>2, <1>4 DEF Following, WatchedInv
<1>7. SeenInv'
  <2>1. seen <= a.version /\ a.version <= server[l].version
    BY <1>0, <1>3, <1>5 DEF Following, SeenInv, ServerLeads
  <2> QED
    BY <1>1, <1>2, <1>3, <2>1 DEF Following, SeenInv
<1>8. PendingInv' /\ PollingInv' /\ LoadingInv' /\ ResultInv'
  BY <1>2 DEF Following, PendingInv, PollingInv, LoadingInv, ResultInv, Pending, isLoading
<1> QED
  BY <1>6, <1>7, <1>8 DEF Following

\* The version at the service only grows.
LEMMA ServerStepView ==
  ASSUME TypeOK, Following, NEW l \in Leads, ServerStep(l)
  PROVE  Following'
<1>0. server \in [Leads -> ServerLeads]
  BY DEF TypeOK
<1>1. UNCHANGED <<view, pollers, posts, gets, seen>>
  BY DEF ServerStep
<1>2. PICK s \in Statuses, q \in 0..1 :
         server' = [server EXCEPT ![l] = [status |-> s, quotes |-> q,
                                          version |-> server[l].version + 1]]
  BY <1>0 DEF ServerStep
<1> DEFINE v == server[l].version + 1
<1>3. v \in Nat /\ server[l].version <= v
  BY <1>0 DEF ServerLeads
<1>4. server' = [server EXCEPT ![l] = [status |-> s, quotes |-> q, version |-> v]]
  BY <1>2
<1> HIDE DEF v
<1>5. server'[l].version = v /\ \A k \in Leads : k # l => server'[k] = server[k]
  BY <1>0, <1>4
<1>6. \A k \in Leads, n \in Nat : n <= server[k].version => n <= server'[k].version
  <2>1. \A k \in Leads : server[k].version \in Nat
    BY <1>0 DEF ServerLeads
  <2> QED
    BY <1>3, <1>5, <2>1
<1>7. SeenInv'
  <2>1. /\ seen \in Nat /\ view.poller \in Leads \cup {NoLead}
        /\ \A g \in gets : g.lead \in Leads /\ g.version \in Nat
    BY DEF TypeOK, Views, Gets
  <2> QED
    BY <1>1, <1>6, <2>1 DEF Following, SeenInv
<1>8. WatchedInv' /\ PendingInv' /\ PollingInv' /\ LoadingInv' /\ ResultInv'
  BY <1>1 DEF Following, WatchedInv, Quiet, PendingInv, PollingInv, LoadingInv,
     ResultInv, Pending, isLoading
<1> QED
  BY <1>7, <1>8 DEF Following

LEMMA StillView ==
  ASSUME Following, UNCHANGED <<view, pollers, gets, server, seen>>,
         UNCHANGED posts
         \/ \E l \in Leads : posts[l] = "sent" /\ posts' = [posts EXCEPT ![l] = "accepted"],
         TypeOK
  PROVE  Following'
<1>1. \A k \in Leads : Pending(k)' = Pending(k) /\ (posts[k] = "over" => posts'[k] = "over")
  BY DEF TypeOK, Pending
<1>2. PendingInv' /\ LoadingInv'
  BY <1>1 DEF Following, PendingInv, LoadingInv, isLoading
<1>3. PollingInv'
  BY <1>1 DEF Following, PollingInv, isLoading, TypeOK, Views
<1>4. WatchedInv' /\ ResultInv' /\ SeenInv'
  BY DEF Following, WatchedInv, Quiet, ResultInv, SeenInv
<1> QED
  BY <1>2, <1>3, <1>4 DEF Following

\* Before the first logout every step keeps the parts of ViewInv, and what is
\* shown of a thread gets no older.
LEMMA ViewStep ==
  ASSUME TypeOK, PollInv, Following, logouts = 0, logouts' = 0, [Next]_vars
  PROVE  Following' /\ (view'.threadId = view.threadId => seen' >= seen)
<1>0. seen \in Nat /\ (seen' = seen => seen' >= seen)
  BY DEF TypeOK
<1>1. ASSUME NEW l \in Leads, Submit(l)
      PROVE  Following' /\ (view'.threadId = view.threadId => seen' >= seen)
  <2>1. view'.threadId = NoLead /\ seen' = 0
    BY <1>1 DEF Submit, IdleView
  <2> QED
    BY <1>1, <2>1, SubmitView DEF Following, SeenInv
<1>2. ~Logout
  BY DEF Logout, Unauthorized
<1>3. CASE Login
  BY <1>0, <1>3, StillView DEF Login
<1>4. ASSUME NEW l \in Leads, Tick(l) PROVE Following' /\ seen' >= seen
  <2>1. UNCHANGED seen
    BY <1>4 DEF Tick
  <2>2. Following'
    BY <1>4, TickView
  <2> QED
    BY <1>0, <2>1, <2>2
<1>5. ASSUME NEW l \in Leads, GetAnswered(l) PROVE Following' /\ seen' >= seen
  BY <1>5, AnsweredView
<1>6. ASSUME NEW l \in Leads, GetFailed(l) PROVE Following' /\ seen' >= seen
  BY <1>0, <1>6, FailedView
<1>7. ASSUME NEW l \in Leads, PostAnswered(l) PROVE Following' /\ seen' >= seen
  BY <1>0, <1>7, PostAnsweredView
<1>8. ASSUME NEW l \in Leads, PostFailed(l) PROVE Following' /\ seen' >= seen
  BY <1>0, <1>8, PostFailedView
<1>9. ASSUME NEW l \in Leads, AcceptLead(l) PROVE Following' /\ seen' >= seen
  <2>1. UNCHANGED seen
    BY <1>9 DEF AcceptLead
  <2>2. Following'
    BY <1>9, StillView DEF AcceptLead
  <2> QED
    BY <1>0, <2>1, <2>2
<1>10. ASSUME NEW l \in Leads, ServeGet(l) PROVE Following' /\ seen' >= seen
  BY <1>0, <1>10, ServeGetView DEF ServeGet
<1>11. ASSUME NEW l \in Leads, ServerStep(l) PROVE Following' /\ seen' >= seen
  <2>1. UNCHANGED seen
    BY <1>11 DEF ServerStep
  <2>2. Following'
    BY <1>11, ServerStepView
  <2> QED
    BY <1>0, <2>1, <2>2
<1>12. CASE UNCHANGED vars
  BY <1>0, <1>12, StillView DEF vars
<1> QED
  BY <1>1, <1>2, <1>3, <1>4, <1>5, <1>6, <1>7, <1>8, <1>9, <1>10, <1>11, <1>12
     DEF Next, UserStep, BrowserStep, ServiceStep

\* No step takes a logout back.
LEMMA LogoutsGrow ==
  ASSUME TypeOK, [Next]_vars, logouts' = 0
  PROVE  logouts = 0
<1>0. logouts \in Nat
  BY DEF TypeOK
<1>1. logouts' = logouts \/ logouts' = logouts + 1
  BY DEF Next, UserStep, BrowserStep, ServiceStep, Submit, Logout, Login, Tick,
     GetAnswered, GetFailed, PostAnswered, PostFailed, AcceptLead, ServeGet,
     ServerStep, Unauthorized, vars
<1> QED
  BY <1>0, <1>1

LEMMA ViewNext == TypeOK /\ PollInv /\ ViewInv /\ [Next]_vars => ViewInv'
  BY ViewStep, LogoutsGrow DEF ViewInv, Following

LEMMA AllInv == Spec => [](TypeOK /\ PollInv /\ FlagInv /\ ViewInv)
<1>1. Init => FlagInv
  BY DEF Init, FlagInv
<1> QED
  BY <1>1, TypeCorrect, PollInit, PollNext, FlagNext, ViewInit, ViewNext, PTL
     DEF Spec

\* Until a logout a view that loads waits for a POST or for a poller that
\* runs and is not stuck.
THEOREM LoadingIsWaiting == Spec => []LoadingIsWatched
<1>1. TypeOK /\ FlagInv /\ ViewInv => LoadingIsWatched
  <2>1. TypeOK => view.poller \in Leads \cup {NoLead}
    BY DEF TypeOK, Views
  <2> QED
    BY <2>1 DEF ViewInv, FlagInv, LoadingIsWatched, LoadingInv, PollingInv, Pending
<1> QED
  BY <1>1, AllInv, PTL

\* Until a logout the result shown is of the thread shown.
THEOREM ResultMatches == Spec => []ResultIsOfThread
<1>1. ViewInv => ResultIsOfThread
  BY DEF ViewInv, ResultIsOfThread, ResultInv
<1> QED
  BY <1>1, AllInv, PTL

\* Until a logout a status is never replaced by an older one.
THEOREM StatusMovesOn == Spec => NoOlderStatus
<1>1. TypeOK /\ PollInv /\ ViewInv /\ [Next]_vars
        => [logouts' = 0 /\ view'.threadId = view.threadId => seen' >= seen]_vars
  BY ViewStep, LogoutsGrow DEF ViewInv, Following
<1> QED
  BY <1>1, AllInv, PTL DEF Spec, NoOlderStatus

=============================================================================
