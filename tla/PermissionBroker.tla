--------------------------- MODULE PermissionBroker ---------------------------
(***************************************************************************)
(* PermissionBroker: a turn thread asks for permission (resolve), the      *)
(* transport's io thread shows the question to the attached clients, and   *)
(* the first of a client's decision, the deadline, the turn's cancellation *)
(* or the shutdown answers it.                                             *)
(*                                                                         *)
(* One session, whose turn thread asks one question after the other.  An   *)
(* action is one critical section of the broker's mutex or one call made   *)
(* outside it.  The io thread runs one handler at a time: posted closures  *)
(* in order, and between them timers, decisions and (un)subscriptions.     *)
(***************************************************************************)
EXTENDS Naturals, Sequences, FiniteSets

CONSTANTS Requests,     \* questions the turn thread may ask, each once
          ForceAsk,     \* those with force_ask set
          Clients,      \* interactive clients of the daemon
          Timeouts      \* permission_timeout > 0

ASSUME ForceAskAssumption == ForceAsk \subseteq Requests
ASSUME TimeoutsAssumption == Timeouts \in BOOLEAN

VARIABLES
    \* the resolver (turn thread)
    phase,          \* where resolve is, per request
    cancelled,      \* the request's token is cancelled
    hooked,         \* the on_cancel callback is registered
    firing,         \* its callback is due
    \* the broker
    pending,        \* requests in `pending`
    requestPosted,  \* Pending::request_posted
    deferred,       \* Pending::deferred_notice is set
    shuttingDown,
    outcome,        \* the value of the promise
    by,             \* what claimed the request
    winner,         \* how far whoever claimed it has got
    remembered,     \* the policy holds a grant for the tool
    \* the transport
    up,             \* post() is accepted
    halted,         \* the io context has stopped
    queue,          \* closures posted to the io thread
    timers,         \* requests with a deadline timer
    \* the clients
    subscribed,     \* clients subscribed to the session
    published,      \* HostRuntime::subscriber_counts_ for the session
    shown,          \* per client, requests with an open or queued dialog
    told            \* per client, requests whose notice it has received

resolver  == <<phase, cancelled, hooked, firing>>
broker    == <<pending, requestPosted, deferred, shuttingDown, outcome, by,
               winner, remembered>>
transport == <<up, halted, queue, timers>>
clients   == <<subscribed, published, shown, told>>
vars      == <<resolver, broker, transport, clients>>

Phases == {"new", "asked", "counted", "registered", "hooked", "scheduled",
           "posting", "posted", "unposted", "flushing", "failed", "returned"}
Answers == {"once", "always", "deny"}
Reasons == Answers \cup {"none", "rule", "no-subscribers", "cancelled", "timeout",
                         "transport", "internal", "shutdown"}
Stages  == {"none", "claimed", "answered", "announcing", "remembering", "done"}

Init == /\ phase = [r \in Requests |-> "new"]
        /\ cancelled = [r \in Requests |-> FALSE]
        /\ hooked = {} /\ firing = {}
        /\ pending = {} /\ requestPosted = {} /\ deferred = {}
        /\ shuttingDown = FALSE
        /\ outcome = [r \in Requests |-> "none"]
        /\ by = [r \in Requests |-> "none"]
        /\ winner = [r \in Requests |-> "none"]
        /\ remembered \in BOOLEAN       \* by an earlier question
        /\ up = TRUE /\ halted = FALSE /\ queue = <<>> /\ timers = {}
        /\ subscribed = {} /\ published = 0
        /\ shown = [c \in Clients |-> {}] /\ told = [c \in Clients |-> {}]

-----------------------------------------------------------------------------
(* resolve: the turn thread *)

Answered(r) == outcome[r] # "none"

\* The turn thread waits on each future before it goes on.
TurnThreadFree ==
    \A r \in Requests : phase[r] = "new" \/ (phase[r] = "returned" /\ Answered(r))

Return(r, value) == /\ phase' = [phase EXCEPT ![r] = "returned"]
                    /\ outcome' = [outcome EXCEPT ![r] = value]

Go(r, p) == phase' = [phase EXCEPT ![r] = p]

\* The policy decides on its own when a grant covers the request; otherwise it
\* asks, unless the turn is cancelled already.
Evaluate(r) ==
    /\ phase[r] = "new" /\ TurnThreadFree
    /\ \/ /\ remembered /\ r \notin ForceAsk
          /\ Return(r, "rule")
       \/ /\ ~(remembered /\ r \notin ForceAsk) /\ cancelled[r]
          /\ Return(r, "cancelled")
       \/ /\ ~(remembered /\ r \notin ForceAsk) /\ ~cancelled[r]
          /\ Go(r, "asked")
          /\ UNCHANGED outcome
    /\ UNCHANGED <<cancelled, hooked, firing, pending, requestPosted, deferred,
                   shuttingDown, by, winner, remembered, transport, clients>>

\* The snapshot of the subscriber count, taken outside the broker's mutex.
ReadCount(r) ==
    /\ phase[r] = "asked"
    /\ \/ /\ published = 0
          /\ Return(r, "no-subscribers")
       \/ /\ published # 0
          /\ Go(r, "counted")
          /\ UNCHANGED outcome
    /\ UNCHANGED <<cancelled, hooked, firing, pending, requestPosted, deferred,
                   shuttingDown, by, winner, remembered, transport, clients>>

\* A registration that does not look for the shutdown.
RegisterAnyway(r) ==
    /\ phase[r] = "counted"
    /\ pending' = pending \cup {r} /\ Go(r, "registered")
    /\ UNCHANGED <<cancelled, hooked, firing, requestPosted, deferred, shuttingDown,
                   outcome, by, winner, remembered, transport, clients>>

Register(r) ==
    /\ phase[r] = "counted"
    /\ \/ /\ shuttingDown
          /\ Return(r, "shutdown")
          /\ UNCHANGED pending
       \/ /\ ~shuttingDown
          /\ pending' = pending \cup {r}
          /\ Go(r, "registered")
          /\ UNCHANGED outcome
    /\ UNCHANGED <<cancelled, hooked, firing, requestPosted, deferred, shuttingDown,
                   by, winner, remembered, transport, clients>>

\* on_cancel: a token already cancelled runs the callback at once.
Hook(r) ==
    /\ phase[r] = "registered"
    /\ Go(r, "hooked")
    /\ hooked' = hooked \cup {r}
    /\ firing' = IF cancelled[r] THEN firing \cup {r} ELSE firing
    /\ UNCHANGED <<cancelled, broker, transport, clients>>

Schedule(r) ==
    /\ phase[r] = "hooked"
    /\ \/ ~Timeouts /\ Go(r, "scheduled") /\ UNCHANGED timers
       \/ Timeouts /\ up /\ Go(r, "scheduled") /\ timers' = timers \cup {r}
       \/ Timeouts /\ ~up /\ Go(r, "failed") /\ UNCHANGED timers
    /\ UNCHANGED <<cancelled, hooked, firing, broker, up, halted, queue, clients>>

\* Phase 2: whether the request was resolved meanwhile.
CheckResolved(r) ==
    /\ phase[r] = "scheduled"
    /\ Go(r, IF r \in pending THEN "posting" ELSE "returned")
    /\ UNCHANGED <<cancelled, hooked, firing, broker, transport, clients>>

\* The request goes to the io thread; the mutex is not held.
PostRequest(r) ==
    /\ phase[r] = "posting"
    /\ \/ up /\ Go(r, "posted") /\ queue' = Append(queue, <<"request", r>>)
       \/ ~up /\ Go(r, "unposted") /\ UNCHANGED queue
    /\ UNCHANGED <<cancelled, hooked, firing, broker, up, halted, timers, clients>>

\* A post that forgets the notice deferred to it.
RecordPostOnly(r) ==
    /\ phase[r] \in {"posted", "unposted"}
    /\ Go(r, IF phase[r] = "unposted" THEN "failed" ELSE "returned")
    /\ requestPosted' = IF phase[r] = "posted" THEN requestPosted \cup {r}
                                               ELSE requestPosted
    /\ UNCHANGED <<cancelled, hooked, firing, pending, deferred, shuttingDown, outcome,
                   by, winner, remembered, transport, clients>>

\* Under the mutex: what a resolution that came before found missing.
RecordPost(r) ==
    /\ phase[r] \in {"posted", "unposted"}
    /\ Go(r, IF phase[r] = "unposted" THEN "failed"
             ELSE IF r \in deferred THEN "flushing" ELSE "returned")
    /\ requestPosted' = IF phase[r] = "posted" THEN requestPosted \cup {r}
                                               ELSE requestPosted
    /\ deferred' = deferred \ {r}
    /\ UNCHANGED <<cancelled, hooked, firing, pending, shuttingDown, outcome, by,
                   winner, remembered, transport, clients>>

PostNotice(r) == queue' = IF up THEN Append(queue, <<"notice", r>>) ELSE queue

Flush(r) ==
    /\ phase[r] = "flushing"
    /\ Go(r, "returned")
    /\ PostNotice(r)
    /\ UNCHANGED <<cancelled, hooked, firing, broker, up, halted, timers, clients>>

\* A claim that does not ask whether the request is still pending.
ClaimAgain(r, reason) ==
    /\ pending' = pending \ {r}
    /\ by' = [by EXCEPT ![r] = reason]
    /\ winner' = [winner EXCEPT ![r] = "claimed"]

\* claim: the first to find the request pending takes it out of the list.
Claim(r, reason) ==
    /\ r \in pending
    /\ pending' = pending \ {r}
    /\ by' = [by EXCEPT ![r] = reason]
    /\ winner' = [winner EXCEPT ![r] = "claimed"]

\* The transport refused, or a call threw: the resolver answers itself.
GiveUp(r) ==
    /\ phase[r] = "failed"
    /\ Go(r, "returned")
    /\ \/ Claim(r, "transport")
       \/ r \notin pending /\ UNCHANGED <<pending, by, winner>>
    /\ UNCHANGED <<cancelled, hooked, firing, requestPosted, deferred, shuttingDown,
                   outcome, remembered, transport, clients>>

Throw(r) ==
    /\ phase[r] \in {"registered", "hooked", "posting"}
    /\ Go(r, "returned")
    /\ \/ Claim(r, "internal")
       \/ r \notin pending /\ UNCHANGED <<pending, by, winner>>
    /\ UNCHANGED <<cancelled, hooked, firing, requestPosted, deferred, shuttingDown,
                   outcome, remembered, transport, clients>>

-----------------------------------------------------------------------------
(* Whoever claimed a request answers it, announces it and, when it was a    *)
(* client's decision, remembers it.                                         *)

Announces(reason) == reason \in Answers \cup {"timeout", "cancelled"}

\* What is left to do once the notice is posted or deferred.
AfterNotice(r) == IF by[r] \in Answers THEN "remembering" ELSE "done"

SetValue(r) ==
    /\ winner[r] = "claimed"
    /\ outcome' = [outcome EXCEPT ![r] = by[r]]
    /\ winner' = [winner EXCEPT ![r] = IF Announces(by[r]) THEN "answered" ELSE "done"]
    /\ UNCHANGED <<resolver, pending, requestPosted, deferred, shuttingDown, by,
                   remembered, transport, clients>>

\* notify_resolved, under the mutex: the notice must not overtake the request.
ReadPosted(r) ==
    /\ winner[r] = "answered"
    /\ \/ /\ r \in requestPosted
          /\ winner' = [winner EXCEPT ![r] = "announcing"]
          /\ UNCHANGED deferred
       \/ /\ r \notin requestPosted
          /\ deferred' = deferred \cup {r}
          /\ winner' = [winner EXCEPT ![r] = AfterNotice(r)]
    /\ UNCHANGED <<resolver, pending, requestPosted, shuttingDown, outcome, by,
                   remembered, transport, clients>>

Announce(r) ==
    /\ winner[r] = "announcing"
    /\ winner' = [winner EXCEPT ![r] = AfterNotice(r)]
    /\ PostNotice(r)
    /\ UNCHANGED <<resolver, pending, requestPosted, deferred, shuttingDown, outcome,
                   by, remembered, up, halted, timers, clients>>

Remember(r) ==
    /\ winner[r] = "remembering"
    /\ winner' = [winner EXCEPT ![r] = "done"]
    /\ remembered' = (remembered \/ (r \notin ForceAsk /\ by[r] = "always"))
    /\ UNCHANGED <<resolver, pending, requestPosted, deferred, shuttingDown, outcome,
                   by, transport, clients>>

-----------------------------------------------------------------------------
(* The io thread *)

\* A decision or a deadline is handled to its end before the next handler.
IoFree == /\ ~halted
          /\ \A r \in Requests : by[r] \in Answers \cup {"timeout"}
                                   => winner[r] \in {"none", "done"}

\* A posted closure runs: request and notice go to every subscribed client.
Deliver ==
    /\ IoFree /\ queue # <<>>
    /\ queue' = Tail(queue)
    /\ LET kind == Head(queue)[1]
           r    == Head(queue)[2]
       IN \/ /\ kind = "request"
             /\ shown' = [c \in Clients |-> IF c \in subscribed
                                            THEN shown[c] \cup {r} ELSE shown[c]]
             /\ UNCHANGED told
          \/ /\ kind = "notice"
             /\ shown' = [c \in Clients |-> IF c \in subscribed
                                            THEN shown[c] \ {r} ELSE shown[c]]
             /\ told' = [c \in Clients |-> IF c \in subscribed
                                           THEN told[c] \cup {r} ELSE told[c]]
    /\ UNCHANGED <<resolver, broker, up, halted, timers, subscribed, published>>

TimerFires(r) ==
    /\ IoFree /\ r \in timers
    /\ timers' = timers \ {r}
    /\ \/ Claim(r, "timeout")
       \/ r \notin pending /\ UNCHANGED <<pending, by, winner>>
    /\ UNCHANGED <<resolver, requestPosted, deferred, shuttingDown, outcome,
                   remembered, up, halted, queue, clients>>

\* onDecision, for a client that shows the dialog; its dialog closes.
Decide(c, r, answer) ==
    /\ IoFree /\ c \in subscribed /\ r \in shown[c]
    /\ shown' = [shown EXCEPT ![c] = @ \ {r}]
    /\ \/ Claim(r, answer)
       \/ r \notin pending /\ UNCHANGED <<pending, by, winner>>
    /\ UNCHANGED <<resolver, requestPosted, deferred, shuttingDown, outcome,
                   remembered, transport, subscribed, published, told>>

\* A late subscriber that is sent what was posted, pending or not.
AttachToPosted(c) ==
    /\ IoFree /\ c \notin subscribed
    /\ subscribed' = subscribed \cup {c}
    /\ published' = Cardinality(subscribed')
    /\ shown' = [d \in Clients |-> IF d \in subscribed'
                                   THEN shown[d] \cup requestPosted ELSE shown[d]]
    /\ UNCHANGED <<resolver, broker, transport, told>>

\* A client subscribes: the count is published and the pending requests are
\* sent again, to every subscriber of the session.
Attach(c) ==
    /\ IoFree /\ c \notin subscribed
    /\ subscribed' = subscribed \cup {c}
    /\ published' = Cardinality(subscribed')
    /\ shown' = [d \in Clients |-> IF d \in subscribed'
                                   THEN shown[d] \cup pending ELSE shown[d]]
    /\ UNCHANGED <<resolver, broker, transport, told>>

\* It unsubscribes or its connection is dropped.
Leave(c) ==
    /\ IoFree /\ c \in subscribed
    /\ subscribed' = subscribed \ {c}
    /\ shown' = [shown EXCEPT ![c] = {}]
    /\ told' = [told EXCEPT ![c] = {}]
    /\ UNCHANGED <<resolver, broker, transport, published>>

-----------------------------------------------------------------------------
(* Cancellation of the turn, and the daemon's shutdown *)

Cancel(r) ==
    /\ ~cancelled[r] /\ ~Answered(r)
    /\ cancelled' = [cancelled EXCEPT ![r] = TRUE]
    /\ firing' = IF r \in hooked THEN firing \cup {r} ELSE firing
    /\ UNCHANGED <<phase, hooked, broker, transport, clients>>

FireCallback(r) ==
    /\ r \in firing
    /\ firing' = firing \ {r}
    /\ \/ Claim(r, "cancelled")
       \/ r \notin pending /\ UNCHANGED <<pending, by, winner>>
    /\ UNCHANGED <<phase, cancelled, hooked, requestPosted, deferred, shuttingDown,
                   outcome, remembered, transport, clients>>

\* A shutdown that clears the list and answers nobody.
DenyNobody ==
    /\ ~shuttingDown
    /\ shuttingDown' = TRUE /\ pending' = {}
    /\ UNCHANGED <<resolver, requestPosted, deferred, outcome, by, winner, remembered,
                   transport, clients>>

\* denyAll takes every pending request; no later one can register.
DenyAll ==
    /\ ~shuttingDown
    /\ shuttingDown' = TRUE
    /\ pending' = {}
    /\ by' = [r \in Requests |-> IF r \in pending THEN "shutdown" ELSE by[r]]
    /\ winner' = [r \in Requests |-> IF r \in pending THEN "claimed" ELSE winner[r]]
    /\ UNCHANGED <<resolver, requestPosted, deferred, outcome, remembered,
                   transport, clients>>

\* TransportServer::stop, in the teardown or when the start-up fails.  What was
\* posted before it still runs; timers are dropped.
Stop ==
    /\ up
    /\ up' = FALSE
    /\ UNCHANGED <<resolver, broker, halted, queue, timers, clients>>

Halt ==
    /\ ~up /\ queue = <<>> /\ IoFree
    /\ halted' = TRUE /\ timers' = {}
    /\ UNCHANGED <<resolver, broker, up, queue, clients>>

-----------------------------------------------------------------------------
Resolve(r) == \/ Evaluate(r) \/ ReadCount(r) \/ Register(r) \/ Hook(r)
              \/ Schedule(r) \/ CheckResolved(r) \/ PostRequest(r)
              \/ RecordPost(r) \/ Flush(r) \/ GiveUp(r)

Settle(r) == SetValue(r) \/ ReadPosted(r) \/ Announce(r) \/ Remember(r)

Next == \/ \E r \in Requests : \/ Resolve(r) \/ Throw(r) \/ Settle(r)
                               \/ TimerFires(r) \/ Cancel(r) \/ FireCallback(r)
        \/ \E c \in Clients : \/ Attach(c) \/ Leave(c)
                              \/ \E r \in Requests, a \in Answers : Decide(c, r, a)
        \/ Deliver \/ DenyAll \/ Stop \/ Halt

Spec == Init /\ [][Next]_vars

\* Threads that can run do, a deadline passes, and the broker of a daemon whose
\* transport was stopped is destroyed.  Nothing makes a client answer.
Fairness == /\ \A r \in Requests : /\ WF_vars(Resolve(r)) /\ WF_vars(Settle(r))
                                   /\ SF_vars(TimerFires(r))
                                   /\ WF_vars(FireCallback(r))
            /\ SF_vars(Deliver)
            /\ WF_vars(~up /\ DenyAll)

FairSpec == Spec /\ Fairness

-----------------------------------------------------------------------------
(* Properties *)

\* Every variable keeps its type.
TypeOK == /\ phase \in [Requests -> Phases]
          /\ cancelled \in [Requests -> BOOLEAN]
          /\ hooked \subseteq Requests /\ firing \subseteq Requests
          /\ pending \subseteq Requests /\ requestPosted \subseteq Requests
          /\ deferred \subseteq Requests /\ timers \subseteq Requests
          /\ shuttingDown \in BOOLEAN /\ remembered \in BOOLEAN
          /\ outcome \in [Requests -> Reasons] /\ by \in [Requests -> Reasons]
          /\ winner \in [Requests -> Stages]
          /\ up \in BOOLEAN /\ halted \in BOOLEAN
          /\ queue \in Seq({"request", "notice"} \X Requests)
          /\ subscribed \subseteq Clients /\ published \in Nat
          /\ shown \in [Clients -> SUBSET Requests]
          /\ told \in [Clients -> SUBSET Requests]

\* D19.2 "first-wins": whatever races with it, the answer a request got first is
\* the one it keeps (a second set_value on the promise would throw).
FirstDecisionWins ==
    [][\A r \in Requests : /\ Answered(r) => outcome'[r] = outcome[r]
                           /\ by[r] # "none" => by'[r] = by[r]]_vars

\* 95-I10: no client is shown a request after it was told of its resolution.
RequestBeforeNotice ==
    [][\A c \in Clients : \A r \in told[c] : r \notin shown'[c]]_vars

\* Nothing is under way for r: its resolver returned, whoever claimed it is
\* done, no callback is due and the io thread has run all it was given.
Quiet(r) == /\ phase[r] = "returned" /\ winner[r] \in {"none", "done"}
            /\ queue = <<>> /\ up

\* A request that reached the clients and was answered by a decision, a deadline
\* or a cancellation leaves no dialog behind, however the answer raced its post.
PostedDialogsClose ==
    \A r \in requestPosted : Quiet(r) /\ Announces(outcome[r])
        => \A c \in subscribed : r \notin shown[c]

\* AL13: once denyAll has run no request waits for anybody, and none registers.
NothingPendingAfterShutdown == shuttingDown => pending = {}

\* A request the broker no longer lists has its answer or will get it from
\* whoever claimed it; none is dropped, and none is claimed twice.
ClaimedOrPending ==
    \A r \in Requests :
        /\ r \in pending => by[r] = "none" /\ ~Answered(r)
        /\ phase[r] \notin {"new", "asked", "counted"} /\ r \notin pending
             => Answered(r) \/ winner[r] = "claimed"

\* "any failure resolves fail-closed": every resolve ends with an answer, given
\* a deadline, even with no client left and the transport gone.
EveryRequestAnswered ==
    \A r \in Requests : (phase[r] = "asked") ~> Answered(r)
=============================================================================
