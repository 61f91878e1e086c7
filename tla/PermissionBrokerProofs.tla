------------------------ MODULE PermissionBrokerProofs ------------------------
(***************************************************************************)
(* Proofs about the broker for any requests, clients and timeout setting.  *)
(*                                                                         *)
(* Two claimants race for a request, and the resolver may answer it before *)
(* it is registered at all.  What makes "first wins" true is that the list *)
(* `pending` is the single token of the race (Token): a request is in the  *)
(* list only while nothing else is known of it, and leaving it appoints    *)
(* the one claimant that sets the promise.                                 *)
(*                                                                         *)
(* What the clients see rests on a second invariant (Fate): a notice is    *)
(* put in the queue only once the request is recorded as posted, and from  *)
(* then on either a notice is still due or every dialog is closed.         *)
(***************************************************************************)
EXTENDS PermissionBroker, FiniteSetTheorems, TLAPS

Early(r) == phase[r] \in {"new", "asked", "counted"}

Types == /\ phase \in [Requests -> Phases]
         /\ pending \subseteq Requests
         /\ outcome \in [Requests -> Reasons]
         /\ by \in [Requests -> Reasons]
         /\ winner \in [Requests -> Stages]

Token(r) ==
    /\ Early(r) \/ r \in pending => /\ by[r] = "none" /\ winner[r] = "none"
                                    /\ outcome[r] = "none"
    /\ Early(r) => r \notin pending
    /\ ~Early(r) /\ r \notin pending => Answered(r) \/ winner[r] = "claimed"
    /\ winner[r] = "claimed" => by[r] # "none" /\ outcome[r] = "none"

IInv == /\ Types
        /\ \A r \in Requests : Token(r)
        /\ NothingPendingAfterShutdown

\* What one step does to the fate of request r.
Kept(r) == /\ phase'[r] = phase[r] \/ (~Early(r) /\ ~Early(r)')
           /\ (r \in pending') = (r \in pending)
           /\ outcome'[r] = outcome[r] /\ by'[r] = by[r]
           /\ winner'[r] = winner[r] \/ {winner[r], winner'[r]} \cap {"none", "claimed"} = {}

LEMMA KeptToken ==
    ASSUME NEW r \in Requests, Token(r), Kept(r) PROVE Token(r)'
    BY DEF Token, Kept, Early, Answered

-----------------------------------------------------------------------------
(* One lemma per group of actions: types, tokens and the two promises that  *)
(* are never broken.                                                        *)

Stable(r) == /\ Answered(r) => outcome'[r] = outcome[r]
             /\ by[r] # "none" => by'[r] = by[r]

Good == IInv' /\ \A r \in Requests : Stable(r)

LEMMA ClaimGood ==
    ASSUME IInv, NEW r \in Requests, NEW reason \in Reasons \ {"none"},
           Claim(r, reason), outcome' = outcome,
           shuttingDown' = shuttingDown, phase' \in [Requests -> Phases],
           \A q \in Requests : phase'[q] = phase[q] \/ (~Early(q) /\ ~Early(q)')
    PROVE  Good
<1> USE DEF IInv, Types, Claim
<1>1. Types'
    BY DEF Stages
<1>2. ~Early(r) /\ ~Early(r)'
    BY DEF Token, Early
<1>3. Token(r)' /\ Stable(r)
    BY <1>2 DEF Token, Stable, Answered
<1>4. ASSUME NEW q \in Requests, q # r PROVE Kept(q)
    BY <1>4 DEF Kept
<1>5. \A q \in Requests : Token(q)' /\ Stable(q)
    BY <1>3, <1>4, KeptToken DEF Kept, Stable
<1>6. NothingPendingAfterShutdown'
    BY DEF NothingPendingAfterShutdown
<1>7. QED
    BY <1>1, <1>5, <1>6 DEF Good

\* Steps that touch no token.
LEMMA KeepGood ==
    ASSUME IInv, Types', shuttingDown' = shuttingDown, pending' = pending,
           \A q \in Requests : Kept(q)
    PROVE  Good
<1>1. \A q \in Requests : Token(q)' /\ Stable(q)
    BY KeptToken DEF IInv, Kept, Stable
<1>2. QED
    BY <1>1 DEF IInv, Good, NothingPendingAfterShutdown

\* The steps of resolve before the request is registered.
LEMMA EarlyGood ==
    ASSUME IInv, NEW r \in Requests, Evaluate(r) \/ ReadCount(r) \/ Register(r)
    PROVE  Good
<1> USE DEF IInv, Types
<1>1. /\ Early(r) /\ r \notin pending /\ by[r] = "none" /\ winner[r] = "none"
      /\ outcome[r] = "none"
    BY DEF Token, Evaluate, ReadCount, Register, Early
<1>2. Types'
    BY DEF Evaluate, ReadCount, Register, Return, Go, Phases, Reasons
<1>3. ASSUME NEW q \in Requests, q # r PROVE Kept(q)
    BY <1>3 DEF Kept, Evaluate, ReadCount, Register, Return, Go
<1>4. by'[r] = "none" /\ winner'[r] = "none"
    BY <1>1 DEF Evaluate, ReadCount, Register
<1>5. \/ Early(r)' /\ r \notin pending' /\ outcome'[r] = "none"
      \/ ~Early(r)' /\ r \notin pending' /\ Answered(r)'
      \/ ~Early(r)' /\ r \in pending' /\ outcome'[r] = "none"
    BY <1>1 DEF Evaluate, ReadCount, Register, Return, Go, Early, Answered
<1>6. Token(r)' /\ Stable(r)
    BY <1>1, <1>4, <1>5 DEF Token, Stable, Answered
<1>7. \A q \in Requests : Token(q)' /\ Stable(q)
    BY <1>3, <1>6, KeptToken DEF Kept, Stable
<1>8. NothingPendingAfterShutdown'
    BY DEF NothingPendingAfterShutdown, Evaluate, ReadCount, Register
<1>9. QED
    BY <1>2, <1>7, <1>8 DEF Good

\* The other steps of the resolver that claim nothing.
LEMMA ResolverGood ==
    ASSUME IInv, NEW r \in Requests,
           \/ Hook(r) \/ Schedule(r) \/ CheckResolved(r) \/ PostRequest(r)
           \/ RecordPost(r) \/ Flush(r)
    PROVE  Good
<1> USE DEF IInv, Types
<1>1. UNCHANGED <<pending, shuttingDown, outcome, by, winner>>
    BY DEF Hook, Schedule, CheckResolved, PostRequest, RecordPost, Flush, broker
<1>2. phase' \in [Requests -> Phases]
    BY DEF Hook, Schedule, CheckResolved, PostRequest, RecordPost, Flush, Go, Phases
<1>3. \A q \in Requests : phase'[q] = phase[q] \/ (~Early(q) /\ ~Early(q)')
    BY DEF Hook, Schedule, CheckResolved, PostRequest, RecordPost, Flush, Go, Early
<1>4. \A q \in Requests : Kept(q)
    BY <1>1, <1>3 DEF Kept
<1>5. QED
    BY <1>1, <1>2, <1>4, KeepGood

\* A resolver whose call failed or threw claims its own request, if it can.
LEMMA GiveUpGood ==
    ASSUME IInv, NEW r \in Requests, GiveUp(r) \/ Throw(r)
    PROVE  Good
<1>1. /\ outcome' = outcome /\ shuttingDown' = shuttingDown
      /\ phase' = [phase EXCEPT ![r] = "returned"]
    BY DEF GiveUp, Throw, Go
<1>2. phase' \in [Requests -> Phases]
    BY <1>1 DEF IInv, Types, Phases
<1>3. \A q \in Requests : phase'[q] = phase[q] \/ (~Early(q) /\ ~Early(q)')
    BY <1>1 DEF GiveUp, Throw, Early, IInv, Types
<1>4. CASE Claim(r, "transport") \/ Claim(r, "internal")
  <2>1. "transport" \in Reasons \ {"none"} /\ "internal" \in Reasons \ {"none"}
      BY DEF Reasons
  <2>2. QED
      BY <1>1, <1>2, <1>3, <1>4, <2>1, ClaimGood
<1>5. CASE UNCHANGED <<pending, by, winner>>
    BY <1>1, <1>2, <1>3, <1>5, KeepGood DEF Kept, IInv, Types
<1>6. QED
    BY <1>4, <1>5 DEF GiveUp, Throw

LEMMA SettleGood ==
    ASSUME IInv, NEW r \in Requests, Settle(r)
    PROVE  Good
<1> USE DEF IInv, Types
<1>1. CASE SetValue(r)
  <2>1. r \notin pending /\ ~Early(r) /\ by[r] # "none" /\ outcome[r] = "none"
      BY <1>1 DEF SetValue, Token
  <2>2. Types'
      BY <1>1 DEF SetValue, resolver, Stages
  <2>3. ~Early(r)' /\ Answered(r)' /\ r \notin pending' /\ winner'[r] # "claimed"
      BY <1>1, <2>1 DEF SetValue, resolver, Answered, Early
  <2>4. Token(r)' /\ Stable(r)
      BY <1>1, <2>1, <2>3 DEF Token, Stable, SetValue, Answered
  <2>5. ASSUME NEW q \in Requests, q # r PROVE Kept(q)
      BY <1>1, <2>5 DEF SetValue, Kept, resolver
  <2>6. \A q \in Requests : Token(q)' /\ Stable(q)
      BY <2>4, <2>5, KeptToken DEF Kept, Stable
  <2>7. QED
      BY <1>1, <2>2, <2>6 DEF Good, NothingPendingAfterShutdown, SetValue
<1>2. CASE ReadPosted(r) \/ Announce(r) \/ Remember(r)
  <2>1. UNCHANGED <<phase, pending, shuttingDown, outcome, by>>
      BY <1>2 DEF ReadPosted, Announce, Remember, resolver
  <2>2. winner' \in [Requests -> Stages]
      BY <1>2 DEF ReadPosted, Announce, Remember, AfterNotice, Stages
  <2>3. \A q \in Requests : Kept(q)
      BY <1>2, <2>1 DEF ReadPosted, Announce, Remember, AfterNotice, Kept
  <2>4. QED
      BY <2>1, <2>2, <2>3, KeepGood
<1>3. QED
    BY <1>1, <1>2 DEF Settle

\* The io thread and the cancellation callback claim, if they can.
LEMMA CallbackGood ==
    ASSUME IInv, NEW r \in Requests, NEW reason \in Reasons \ {"none"},
           \/ Claim(r, reason)
           \/ UNCHANGED <<pending, by, winner>>,
           UNCHANGED <<phase, outcome, shuttingDown>>
    PROVE  Good
<1>1. CASE Claim(r, reason)
    BY <1>1, ClaimGood DEF IInv, Types
<1>2. CASE UNCHANGED <<pending, by, winner>>
    BY <1>2, KeepGood DEF Kept, IInv, Types
<1>3. QED
    BY <1>1, <1>2

LEMMA DenyAllGood ==
    ASSUME IInv, DenyAll
    PROVE  Good
<1> USE DEF IInv, Types, DenyAll, resolver
<1>1. Types'
    BY DEF Reasons, Stages
<1>2. ASSUME NEW r \in Requests, r \in pending PROVE Token(r)' /\ Stable(r)
    BY <1>2 DEF Token, Stable, Early, Answered
<1>3. ASSUME NEW r \in Requests, r \notin pending PROVE Kept(r)
    BY <1>3 DEF Kept
<1>4. \A r \in Requests : Token(r)' /\ Stable(r)
    BY <1>2, <1>3, KeptToken DEF Kept, Stable
<1>5. QED
    BY <1>1, <1>4 DEF Good, NothingPendingAfterShutdown

LEMMA StepGood == IInv /\ [Next]_vars => Good
<1> SUFFICES ASSUME IInv, [Next]_vars PROVE Good
    OBVIOUS
<1>1. ASSUME NEW r \in Requests, Resolve(r) \/ Throw(r) \/ Settle(r) PROVE Good
    BY <1>1, EarlyGood, ResolverGood, GiveUpGood, SettleGood DEF Resolve
<1>2. ASSUME NEW r \in Requests, TimerFires(r) \/ FireCallback(r) PROVE Good
  <2>1. "timeout" \in Reasons \ {"none"} /\ "cancelled" \in Reasons \ {"none"}
      BY DEF Reasons
  <2>2. QED
      BY <1>2, <2>1, CallbackGood DEF TimerFires, FireCallback, resolver
<1>3. ASSUME NEW c \in Clients, NEW r \in Requests, NEW a \in Answers,
             Decide(c, r, a)
      PROVE  Good
  <2>1. a \in Reasons \ {"none"}
      BY DEF Reasons, Answers
  <2>2. QED
      BY <1>3, <2>1, CallbackGood DEF Decide, resolver
<1>4. CASE DenyAll
    BY <1>4, DenyAllGood
<1>5. CASE \/ \E r \in Requests : Cancel(r)
           \/ \E c \in Clients : Attach(c) \/ Leave(c)
           \/ Deliver \/ Stop \/ Halt \/ UNCHANGED vars
  <2>1. UNCHANGED <<phase, pending, outcome, by, winner, shuttingDown>>
      BY <1>5 DEF Cancel, Attach, Leave, Deliver, Stop, Halt, vars, resolver, broker
  <2>2. QED
      BY <2>1, KeepGood DEF Kept, IInv, Types
<1>6. QED
    BY <1>1, <1>2, <1>3, <1>4, <1>5 DEF Next

-----------------------------------------------------------------------------
LEMMA Invariance == Spec => []IInv
<1>1. Init => IInv
    BY DEF Init, IInv, Types, Token, Early, Answered, NothingPendingAfterShutdown,
           Phases, Reasons, Stages
<1>2. IInv /\ [Next]_vars => IInv'
    BY StepGood DEF Good
<1>3. QED
    BY <1>1, <1>2, PTL DEF Spec

\* D19.2: the first answer a request gets is the one it keeps, and so is the
\* claimant: a promise is set once, whatever races.
THEOREM First_Decision_Wins == Spec => FirstDecisionWins
<1>1. IInv /\ [Next]_vars
        => [\A r \in Requests : /\ Answered(r) => outcome'[r] = outcome[r]
                                /\ by[r] # "none" => by'[r] = by[r]]_vars
    BY StepGood DEF Good, Stable
<1>2. QED
    BY Invariance, <1>1, PTL DEF Spec, FirstDecisionWins

\* AL13: after denyAll the list is empty and stays so, hence no turn thread
\* waits on the broker when the executor is joined.
THEOREM Nothing_Pending_After_Shutdown == Spec => []NothingPendingAfterShutdown
<1>1. IInv => NothingPendingAfterShutdown
    BY DEF IInv
<1>2. QED
    BY Invariance, <1>1, PTL

\* A registered request is listed, claimed or answered: none is lost.
THEOREM Claimed_Or_Pending == Spec => []ClaimedOrPending
<1>1. IInv => ClaimedOrPending
    BY DEF IInv, ClaimedOrPending, Token, Early, Answered
<1>2. QED
    BY Invariance, <1>1, PTL
-----------------------------------------------------------------------------
(* Types *)

Closures == {"request", "notice"} \X Requests

\* Posting appends to the queue; running a closure takes the first.
LEMMA PostFacts ==
    ASSUME NEW q \in Seq(Closures), NEW e \in Closures
    PROVE  /\ Append(q, e) \in Seq(Closures) /\ Len(q) \in Nat
           /\ Len(Append(q, e)) = Len(q) + 1
           /\ Append(q, e)[Len(q) + 1] = e
           /\ \A j \in 1..Len(q) : Append(q, e)[j] = q[j]
OBVIOUS

LEMMA RunFacts ==
    ASSUME NEW q \in Seq(Closures), q # <<>>
    PROVE  /\ Tail(q) \in Seq(Closures) /\ Len(q) \in Nat \ {0}
           /\ Len(Tail(q)) = Len(q) - 1
           /\ Head(q) = q[1] /\ q[1] \in Closures
           /\ \A j \in 1..Len(Tail(q)) : Tail(q)[j] = q[j + 1] /\ j + 1 \in 2..Len(q)
OBVIOUS

Typed == TypeOK /\ IsFiniteSet(subscribed)

LEMMA TypeStep == Typed /\ [Next]_vars => Typed'
<1> SUFFICES ASSUME Typed, [Next]_vars PROVE Typed'
    OBVIOUS
<1>0. queue \in Seq(Closures)
    BY DEF Typed, TypeOK, Closures
<1> USE DEF Typed, TypeOK
<1>1. ASSUME NEW r \in Requests,
             Evaluate(r) \/ ReadCount(r) \/ Register(r) \/ Hook(r)
             \/ Schedule(r) \/ CheckResolved(r) \/ RecordPost(r)
      PROVE  Typed'
    BY <1>1 DEF Evaluate, ReadCount, Register, Hook, Schedule, CheckResolved,
                RecordPost, Return, Go, Phases, Reasons, resolver, broker, transport,
                clients
<1>2. ASSUME NEW r \in Requests, PostRequest(r) \/ Flush(r) \/ Announce(r)
      PROVE  Typed'
  <2>1. <<"request", r>> \in Closures /\ <<"notice", r>> \in Closures
      BY DEF Closures
  <2>2. queue' \in Seq(Closures)
    <3>1. queue' \in {queue, Append(queue, <<"request", r>>), Append(queue, <<"notice", r>>)}
        BY <1>2 DEF PostRequest, Flush, Announce, PostNotice
    <3> HIDE DEF Typed, TypeOK
    <3>2. QED
        BY <1>0, <2>1, <3>1, PostFacts
  <2>3. UNCHANGED <<cancelled, hooked, firing, pending, requestPosted, deferred,
                    shuttingDown, outcome, by, remembered, up, halted, timers, clients>>
      BY <1>2 DEF PostRequest, Flush, Announce, broker, resolver
  <2>4. phase' \in [Requests -> Phases] /\ winner' \in [Requests -> Stages]
      BY <1>2 DEF PostRequest, Flush, Announce, Go, Phases, Stages, AfterNotice,
                  broker, resolver
  <2>5. QED
      BY <2>2, <2>3, <2>4 DEF Closures, clients
<1>3. ASSUME NEW r \in Requests, GiveUp(r) \/ Throw(r) \/ TimerFires(r) \/ FireCallback(r)
      PROVE  Typed'
  <2>1. /\ pending' \subseteq Requests /\ by' \in [Requests -> Reasons]
        /\ winner' \in [Requests -> Stages]
      BY <1>3 DEF GiveUp, Throw, TimerFires, FireCallback, Claim, Reasons, Stages
  <2>2. /\ phase' \in [Requests -> Phases] /\ firing' \subseteq Requests
        /\ timers' \subseteq Requests
        /\ UNCHANGED <<cancelled, hooked, requestPosted, deferred, shuttingDown, outcome,
                       remembered, up, halted, queue, clients>>
      BY <1>3 DEF GiveUp, Throw, TimerFires, FireCallback, Go, Phases, resolver, transport
  <2>3. QED
      BY <2>1, <2>2 DEF clients
<1>4. ASSUME NEW r \in Requests, SetValue(r) \/ ReadPosted(r) \/ Remember(r)
      PROVE  Typed'
    BY <1>4 DEF SetValue, ReadPosted, Remember, AfterNotice, Stages, resolver,
                transport, clients
<1>5. ASSUME NEW r \in Requests, Cancel(r) PROVE Typed'
    BY <1>5 DEF Cancel, broker, transport, clients
<1>6. CASE Deliver
  <2>1. queue' \in Seq(Closures) /\ Head(queue) \in Closures
      BY <1>0, <1>6, RunFacts DEF Deliver
  <2>2. Head(queue)[2] \in Requests
      BY <2>1 DEF Closures
  <2>3. shown' \in [Clients -> SUBSET Requests] /\ told' \in [Clients -> SUBSET Requests]
    <3> DEFINE r == Head(queue)[2]
    <3>1. \/ /\ shown' = [c \in Clients |-> IF c \in subscribed
                                             THEN shown[c] \cup {r} ELSE shown[c]]
             /\ told' = told
          \/ /\ shown' = [c \in Clients |-> IF c \in subscribed
                                             THEN shown[c] \ {r} ELSE shown[c]]
             /\ told' = [c \in Clients |-> IF c \in subscribed
                                            THEN told[c] \cup {r} ELSE told[c]]
        BY <1>6 DEF Deliver
    <3> HIDE DEF r
    <3>2. r \in Requests
        BY <2>2 DEF r
    <3>3. QED
        BY <3>1, <3>2
  <2>4. QED
      BY <1>6, <2>1, <2>3 DEF Deliver, resolver, broker, Closures
<1>7. ASSUME NEW c \in Clients, NEW r \in Requests, NEW a \in Answers, Decide(c, r, a)
      PROVE  Typed'
    BY <1>7 DEF Decide, Claim, Answers, Reasons, Stages, resolver, transport
<1>8. ASSUME NEW c \in Clients, Attach(c) PROVE Typed'
  <2>1. IsFiniteSet(subscribed') /\ published' \in Nat
      BY <1>8, FS_AddElement, FS_CardinalityType DEF Attach
  <2>2. QED
      BY <1>8, <2>1 DEF Attach, resolver, broker, transport
<1>9. ASSUME NEW c \in Clients, Leave(c) PROVE Typed'
  <2>1. IsFiniteSet(subscribed')
      BY <1>9, FS_RemoveElement DEF Leave
  <2>2. QED
      BY <1>9, <2>1 DEF Leave, resolver, broker, transport
<1>10. CASE DenyAll \/ Stop \/ Halt \/ UNCHANGED vars
    BY <1>10 DEF DenyAll, Stop, Halt, vars, Reasons, Stages, resolver, broker,
                 transport, clients
<1>11. QED
    BY <1>1, <1>2, <1>3, <1>4, <1>5, <1>6, <1>7, <1>8, <1>9, <1>10
       DEF Next, Resolve, Settle

LEMMA TypeInv == Spec => []Typed
<1>1. Init => Typed
  <2>1. IsFiniteSet({}) /\ <<>> \in Seq({"request", "notice"} \X Requests)
      BY FS_EmptySet
  <2>2. /\ "new" \in Phases /\ "none" \in Reasons /\ "none" \in Stages
      BY DEF Phases, Reasons, Stages
  <2> SUFFICES ASSUME Init PROVE Typed
      OBVIOUS
  <2>3. /\ phase \in [Requests -> Phases] /\ outcome \in [Requests -> Reasons]
        /\ by \in [Requests -> Reasons] /\ winner \in [Requests -> Stages]
        /\ cancelled \in [Requests -> BOOLEAN]
      BY <2>2 DEF Init
  <2>4. queue \in Seq({"request", "notice"} \X Requests) /\ IsFiniteSet(subscribed)
      BY <2>1 DEF Init
  <2>5. /\ hooked \subseteq Requests /\ firing \subseteq Requests
        /\ pending \subseteq Requests /\ requestPosted \subseteq Requests
        /\ deferred \subseteq Requests /\ timers \subseteq Requests
        /\ shuttingDown \in BOOLEAN /\ remembered \in BOOLEAN
        /\ up \in BOOLEAN /\ halted \in BOOLEAN
        /\ subscribed \subseteq Clients /\ published \in Nat
        /\ shown \in [Clients -> SUBSET Requests] /\ told \in [Clients -> SUBSET Requests]
      BY DEF Init
  <2>6. QED
      BY <2>3, <2>4, <2>5 DEF Typed, TypeOK
<1>2. QED
    BY <1>1, TypeStep, PTL DEF Spec

\* The variables keep their types.
THEOREM TypeCorrect == Spec => []TypeOK
<1>1. Typed => TypeOK
    BY DEF Typed
<1>2. QED
    BY TypeInv, <1>1, PTL

-----------------------------------------------------------------------------
(* The order of a request and its notice *)

InQueue(kind, r) == \E j \in 1..Len(queue) : queue[j] = <<kind, r>>

\* No request behind its own notice.
InOrder(r) == \A i, j \in 1..Len(queue) :
                 i < j /\ queue[i] = <<"notice", r>> => queue[j] # <<"request", r>>

Told(r) == \E c \in Clients : r \in told[c]

\* A client that was told of the resolution shows no dialog.
ToldHidden(r) == \A c \in Clients : r \in told[c] => r \notin shown[c]

Hidden(r) == \A c \in subscribed : r \notin shown[c]

\* The claimant, its stage and the value of the promise go together; a request
\* answered before it was registered is never posted.
Consistent(r) ==
    /\ by[r] = "none" <=> winner[r] = "none"
    /\ winner[r] \notin {"none", "claimed"} => outcome[r] = by[r]
    /\ by[r] = "none" /\ outcome[r] # "none" => phase[r] = "returned" /\ r \notin requestPosted

\* A notice exists, or is about to, only once the request is recorded as posted.
Ordered(r) ==
    /\ r \in requestPosted => phase[r] \in {"flushing", "returned"}
    /\ phase[r] = "flushing" \/ winner[r] = "announcing" \/ InQueue("notice", r) \/ Told(r)
         => r \in requestPosted /\ r \notin pending
    /\ r \in deferred => winner[r] \in {"remembering", "done"}
    /\ InOrder(r) /\ ToldHidden(r)
    /\ Told(r) => ~InQueue("request", r)

\* The notice of a resolved request is still to come, or was dropped with the
\* transport.
NoticeDue(r) == \/ phase[r] = "flushing"
                \/ winner[r] \in {"claimed", "answered", "announcing"}
                \/ InQueue("notice", r) \/ ~up

\* What a resolution that is announced leaves behind is closed, or will be.
Closing(r) ==
    /\ Announces(by[r]) /\ r \notin deferred /\ phase[r] \notin {"failed", "returned", "flushing"}
         => winner[r] \in {"claimed", "answered"}
    /\ r \in requestPosted /\ Announces(by[r])
         => NoticeDue(r) \/ (Hidden(r) /\ ~InQueue("request", r))

Fate(r) == Consistent(r) /\ Ordered(r) /\ Closing(r)

\* A client that is not subscribed shows nothing.
Blank == \A c \in Clients : c \notin subscribed => shown[c] = {}

OInv == Blank /\ \A r \in Requests : Fate(r)
\* What a step that leaves a request's closures and dialogs alone keeps of them.
QueueKeeps(r) ==
    /\ InQueue("notice", r)' <=> InQueue("notice", r)
    /\ InQueue("request", r)' <=> InQueue("request", r)
    /\ InOrder(r) => InOrder(r)'

ClientsKeep(r) ==
    /\ Told(r)' <=> Told(r)
    /\ ToldHidden(r) => ToldHidden(r)'
    /\ Hidden(r) => Hidden(r)'

LEMMA QueueSame == ASSUME UNCHANGED queue, NEW r PROVE QueueKeeps(r)
    BY DEF QueueKeeps, InQueue, InOrder

\* Dialogs may close, and none opens.
LEMMA ClientsSame ==
    ASSUME UNCHANGED <<told, subscribed>>, subscribed \subseteq Clients,
           \A c \in Clients : shown'[c] \subseteq shown[c], NEW r
    PROVE  ClientsKeep(r)
BY DEF ClientsKeep, Told, ToldHidden, Hidden

\* A closure of another request goes in.
LEMMA PostOther ==
    ASSUME queue \in Seq(Closures), NEW kind \in {"request", "notice"},
           NEW q \in Requests, queue' = Append(queue, <<kind, q>>),
           NEW r \in Requests, r # q
    PROVE  QueueKeeps(r)
<1> DEFINE e == <<kind, q>>
<1>1. e \in Closures /\ e # <<"notice", r>> /\ e # <<"request", r>> /\ queue' = Append(queue, e)
    BY DEF Closures
<1> HIDE DEF e
<1>2. /\ Len(queue) \in Nat /\ Len(queue') = Len(queue) + 1
      /\ queue'[Len(queue) + 1] = e
      /\ \A j \in 1..Len(queue) : queue'[j] = queue[j]
  <2>1. e \in Closures /\ queue \in Seq(Closures) /\ queue' = Append(queue, e)
      BY <1>1
  <2>2. QED
      BY ONLY <2>1
<1>3. \A j \in 1..Len(queue') : j \in 1..Len(queue) \/ j = Len(queue) + 1
    BY <1>2
<1>4. \A j \in 1..Len(queue) : j \in 1..Len(queue')
    BY <1>2
<1>5. InQueue("notice", r)' <=> InQueue("notice", r)
    BY <1>1, <1>2, <1>3, <1>4 DEF InQueue
<1>6. InQueue("request", r)' <=> InQueue("request", r)
    BY <1>1, <1>2, <1>3, <1>4 DEF InQueue
<1>7. InOrder(r) => InOrder(r)'
    BY <1>1, <1>2, <1>3 DEF InOrder
<1>8. QED
    BY <1>5, <1>6, <1>7 DEF QueueKeeps

\* Its request goes in before any notice, or its notice goes in.
LEMMA PostOwn ==
    ASSUME queue \in Seq(Closures), NEW kind \in {"request", "notice"},
           NEW r \in Requests, queue' = Append(queue, <<kind, r>>),
           kind = "request" => ~InQueue("notice", r)
    PROVE  /\ InOrder(r) => InOrder(r)'
           /\ InQueue(kind, r)'
           /\ kind = "request" => (InQueue("notice", r)' <=> InQueue("notice", r))
           /\ kind = "notice" => (InQueue("request", r)' <=> InQueue("request", r))
<1> DEFINE e == <<kind, r>>
<1>1. /\ e \in Closures /\ queue' = Append(queue, e)
      /\ kind = "request" => e # <<"notice", r>>
      /\ kind = "notice" => e # <<"request", r>>
    BY DEF Closures
<1> HIDE DEF e
<1>2. /\ Len(queue) \in Nat /\ Len(queue') = Len(queue) + 1
      /\ queue'[Len(queue) + 1] = e
      /\ \A j \in 1..Len(queue) : queue'[j] = queue[j]
  <2>1. e \in Closures /\ queue \in Seq(Closures) /\ queue' = Append(queue, e)
      BY <1>1
  <2>2. QED
      BY ONLY <2>1
<1>3. \A j \in 1..Len(queue') : j \in 1..Len(queue) \/ j = Len(queue) + 1
    BY <1>2
<1>4. /\ \A j \in 1..Len(queue) : j \in 1..Len(queue')
      /\ Len(queue) + 1 \in 1..Len(queue')
    BY <1>2
<1>5. InQueue(kind, r)'
    BY <1>2, <1>4 DEF InQueue, e
<1>6. kind = "request" => (InQueue("notice", r)' <=> InQueue("notice", r))
    BY <1>1, <1>2, <1>3, <1>4 DEF InQueue
<1>7. kind = "notice" => (InQueue("request", r)' <=> InQueue("request", r))
    BY <1>1, <1>2, <1>3, <1>4 DEF InQueue
<1>8. ASSUME InOrder(r), NEW i \in 1..Len(queue'), NEW j \in 1..Len(queue'),
             i < j, queue'[i] = <<"notice", r>>
      PROVE  queue'[j] # <<"request", r>>
  <2>1. i \in 1..Len(queue)
      BY <1>2, <1>8
  <2>2. InQueue("notice", r) /\ queue[i] = <<"notice", r>>
      BY <1>2, <1>8, <2>1 DEF InQueue
  <2>3. kind = "notice"
      BY <2>2
  <2>4. CASE j \in 1..Len(queue)
      BY <1>2, <1>8, <2>1, <2>2, <2>4 DEF InOrder
  <2>5. CASE j = Len(queue) + 1
      BY <1>1, <1>2, <2>3, <2>5
  <2>6. QED
      BY <1>3, <2>4, <2>5
<1>9. QED
    BY <1>5, <1>6, <1>7, <1>8 DEF InOrder

\* The first closure runs.
LEMMA RunAny ==
    ASSUME queue \in Seq(Closures), queue # <<>>, queue' = Tail(queue),
           NEW r \in Requests
    PROVE  /\ InOrder(r) => InOrder(r)'
           /\ InQueue("notice", r)' => InQueue("notice", r)
           /\ InQueue("request", r)' => InQueue("request", r)
           /\ queue[1] # <<"notice", r>> => (InQueue("notice", r) => InQueue("notice", r)')
           /\ queue[1] # <<"request", r>> => (InQueue("request", r) => InQueue("request", r)')
           /\ queue[1] = <<"notice", r>> /\ InOrder(r)
                => InQueue("notice", r) /\ ~InQueue("request", r)'
           /\ queue[1] = <<"request", r>> => InQueue("request", r)
<1>1. /\ Len(queue) \in Nat \ {0} /\ Len(queue') = Len(queue) - 1
      /\ \A j \in 1..Len(queue') : queue'[j] = queue[j + 1] /\ j + 1 \in 2..Len(queue)
    BY RunFacts
<1>2. \A j \in 2..Len(queue) : j - 1 \in 1..Len(queue') /\ queue'[j - 1] = queue[j]
    BY <1>1
<1>3. /\ 1 \in 1..Len(queue) /\ \A j \in 1..Len(queue) : j = 1 \/ j \in 2..Len(queue)
      /\ \A j \in 2..Len(queue) : j \in 1..Len(queue) /\ 1 < j
      /\ \A i, j \in 1..Len(queue') : i < j => i + 1 < j + 1
    BY <1>1
<1>4. ASSUME InOrder(r), NEW i \in 1..Len(queue'), NEW j \in 1..Len(queue'),
             i < j, queue'[i] = <<"notice", r>>
      PROVE  queue'[j] # <<"request", r>>
    BY <1>1, <1>3, <1>4 DEF InOrder
<1>5. InQueue("notice", r)' => InQueue("notice", r)
    BY <1>1, <1>3 DEF InQueue
<1>6. InQueue("request", r)' => InQueue("request", r)
    BY <1>1, <1>3 DEF InQueue
<1>7. queue[1] # <<"notice", r>> => (InQueue("notice", r) => InQueue("notice", r)')
    BY <1>2, <1>3 DEF InQueue
<1>8. queue[1] # <<"request", r>> => (InQueue("request", r) => InQueue("request", r)')
    BY <1>2, <1>3 DEF InQueue
<1>9. queue[1] = <<"notice", r>> /\ InOrder(r) => InQueue("notice", r) /\ ~InQueue("request", r)'
    BY <1>1, <1>3 DEF InQueue, InOrder
<1>10. queue[1] = <<"request", r>> => InQueue("request", r)
    BY <1>3 DEF InQueue
<1>11. QED
    BY <1>4, <1>5, <1>6, <1>7, <1>8, <1>9, <1>10 DEF InOrder

-----------------------------------------------------------------------------
(* What each action does to the fate of a request *)

Frame(r) == QueueKeeps(r) /\ ClientsKeep(r) /\ (up' => up)

LocalSame(r) ==
    /\ phase'[r] = phase[r] /\ winner'[r] = winner[r]
    /\ by'[r] = by[r] /\ outcome'[r] = outcome[r]
    /\ (r \in pending') = (r \in pending)
    /\ (r \in requestPosted') = (r \in requestPosted)
    /\ (r \in deferred') = (r \in deferred)

USE DEF Fate

LEMMA SameFate ==
    ASSUME NEW r \in Requests, Fate(r), Frame(r), LocalSame(r)
    PROVE  Fate(r)'
BY DEF Frame, LocalSame, QueueKeeps, ClientsKeep, Consistent, Ordered, Closing, NoticeDue

\* A claim leaves the notice to the claimant.
LEMMA ClaimFate ==
    ASSUME NEW r \in Requests, Types, Token(r), Fate(r), Frame(r),
           NEW reason \in Reasons \ {"none"}, Claim(r, reason),
           outcome' = outcome, requestPosted' = requestPosted, deferred' = deferred,
           phase'[r] = phase[r]
             \/ (phase'[r] = "returned" /\ phase[r] \in {"failed", "registered", "hooked", "posting"})
    PROVE  Fate(r)'
<1>1. /\ winner[r] = "none" /\ by[r] = "none" /\ outcome[r] = "none" /\ r \in pending
      /\ winner'[r] = "claimed" /\ by'[r] = reason /\ reason # "none" /\ r \notin pending'
    BY DEF Claim, Token, Types
<1>2. Consistent(r)'
    BY <1>1 DEF Consistent
<1>3. Ordered(r)'
    BY <1>1 DEF Frame, QueueKeeps, ClientsKeep, Ordered
<1>4. Closing(r)'
    BY <1>1 DEF Closing, NoticeDue
<1>5. QED
    BY <1>2, <1>3, <1>4

LEMMA EarlyFate ==
    ASSUME NEW r \in Requests, Types, Token(r), Fate(r), Frame(r),
           Evaluate(r) \/ ReadCount(r) \/ Register(r)
    PROVE  Fate(r)'
<1>1. /\ Early(r) /\ winner[r] = "none" /\ by[r] = "none" /\ outcome[r] = "none"
      /\ r \notin requestPosted /\ r \notin deferred
    BY DEF Evaluate, ReadCount, Register, Early, Token, Ordered
<1>2. /\ winner' = winner /\ by' = by /\ requestPosted' = requestPosted
      /\ deferred' = deferred
      /\ \/ phase'[r] \in {"asked", "counted", "registered"} /\ outcome'[r] = outcome[r]
         \/ phase'[r] = "returned"
    BY DEF Evaluate, ReadCount, Register, Return, Go, Types
<1>3. Consistent(r)' /\ Closing(r)'
    BY <1>1, <1>2 DEF Consistent, Closing, Announces, Answers
<1>4. Ordered(r)'
    BY <1>1, <1>2 DEF Frame, QueueKeeps, ClientsKeep, Ordered
<1>5. QED
    BY <1>3, <1>4

\* The resolver before the request is posted.
LEMMA BeforePostFate ==
    ASSUME NEW r \in Requests, Types, Token(r), Fate(r), Frame(r),
           Hook(r) \/ Schedule(r) \/ CheckResolved(r)
    PROVE  Fate(r)'
<1>1. /\ phase[r] \in {"registered", "hooked", "scheduled"} /\ UNCHANGED broker
      /\ phase'[r] \in {"hooked", "scheduled", "failed", "posting", "returned"}
    BY DEF Hook, Schedule, CheckResolved, Go, Types
<1>2. r \notin requestPosted
    BY <1>1 DEF Ordered
<1>3. Consistent(r)' /\ Closing(r)'
    BY <1>1, <1>2 DEF Consistent, Closing, broker
<1>4. Ordered(r)'
    BY <1>1, <1>2 DEF Frame, QueueKeeps, ClientsKeep, Ordered, broker
<1>5. QED
    BY <1>3, <1>4

LEMMA PostRequestFate ==
    ASSUME NEW r \in Requests, Types, queue \in Seq(Closures), Token(r), Fate(r),
           ClientsKeep(r), PostRequest(r)
    PROVE  Fate(r)'
<1>1. /\ phase[r] = "posting" /\ phase'[r] \in {"posted", "unposted"}
      /\ UNCHANGED <<broker, up>> /\ queue' \in {queue, Append(queue, <<"request", r>>)}
    BY DEF PostRequest, Go, Types
<1>2. r \notin requestPosted /\ ~InQueue("notice", r) /\ ~Told(r)
    BY <1>1 DEF Ordered
<1>3. ~InQueue("notice", r)' /\ (InOrder(r) => InOrder(r)')
    BY <1>1, <1>2, PostOwn, QueueSame DEF QueueKeeps
<1>4. Consistent(r)' /\ Closing(r)'
    BY <1>1, <1>2 DEF Consistent, Closing, broker
<1>5. Ordered(r)'
    BY <1>1, <1>2, <1>3 DEF ClientsKeep, Ordered, broker
<1>6. QED
    BY <1>4, <1>5

LEMMA RecordPostFate ==
    ASSUME NEW r \in Requests, Types, Token(r), Fate(r), Frame(r), RecordPost(r)
    PROVE  Fate(r)'
<1>1. /\ phase[r] \in {"posted", "unposted"} /\ UNCHANGED <<pending, by, winner, outcome, up>>
      /\ phase'[r] = IF phase[r] = "unposted" THEN "failed"
                     ELSE IF r \in deferred THEN "flushing" ELSE "returned"
      /\ r \in requestPosted' <=> r \in requestPosted \/ phase[r] = "posted"
      /\ r \notin deferred'
    BY DEF RecordPost, Go, Types, transport
<1>2. r \notin requestPosted /\ ~InQueue("notice", r) /\ ~Told(r) /\ winner[r] # "announcing"
    BY <1>1 DEF Ordered
<1>3. ~Early(r)
    BY <1>1 DEF Early
<1>4. Consistent(r)'
    BY <1>1 DEF Consistent
<1>5. Ordered(r)'
    BY <1>1, <1>2, <1>3 DEF Frame, QueueKeeps, ClientsKeep, Ordered, Token
<1>6. Closing(r)'
    BY <1>1, <1>2 DEF Closing, NoticeDue
<1>7. QED
    BY <1>4, <1>5, <1>6

LEMMA NoticeFate ==
    ASSUME NEW r \in Requests, Types, queue \in Seq(Closures), Token(r), Fate(r),
           ClientsKeep(r), Flush(r) \/ Announce(r)
    PROVE  Fate(r)'
<1>1. /\ \/ phase[r] = "flushing" /\ phase'[r] = "returned" /\ winner' = winner
         \/ winner[r] = "announcing" /\ winner'[r] \in {"remembering", "done"} /\ phase' = phase
      /\ UNCHANGED <<pending, by, outcome, requestPosted, deferred, up>>
      /\ queue' = IF up THEN Append(queue, <<"notice", r>>) ELSE queue
    BY DEF Flush, Announce, PostNotice, AfterNotice, Go, Types, broker, resolver
<1>2. r \in requestPosted /\ r \notin pending
    BY <1>1 DEF Ordered
<1>3. /\ InOrder(r) => InOrder(r)'
      /\ InQueue("request", r)' <=> InQueue("request", r)
      /\ InQueue("notice", r)' \/ ~up
    BY <1>1, PostOwn, QueueSame DEF QueueKeeps
<1>4. Consistent(r)'
    BY <1>1 DEF Consistent
<1>5. Ordered(r)'
    BY <1>1, <1>2, <1>3 DEF ClientsKeep, Ordered
<1>6. Closing(r)'
  <2>1. phase'[r] \in {"returned", "flushing"}
      BY <1>1, <1>2 DEF Ordered
  <2>2. NoticeDue(r)'
      BY <1>1, <1>3 DEF NoticeDue
  <2>3. QED
      BY <2>1, <2>2 DEF Closing
<1>7. QED
    BY <1>4, <1>5, <1>6

\* The resolver gives up on a request somebody else has claimed.
LEMMA GiveUpFate ==
    ASSUME NEW r \in Requests, Types, Token(r), Fate(r), Frame(r),
           GiveUp(r) \/ Throw(r)
    PROVE  Fate(r)'
<1>1. /\ phase[r] \in {"failed", "registered", "hooked", "posting"} /\ phase'[r] = "returned"
      /\ UNCHANGED <<outcome, requestPosted, deferred>>
    BY DEF GiveUp, Throw, Go, Types
<1>2. r \notin requestPosted
    BY <1>1 DEF Ordered
<1>3. CASE Claim(r, "transport") \/ Claim(r, "internal")
  <2>1. "transport" \in Reasons \ {"none"} /\ "internal" \in Reasons \ {"none"}
      BY DEF Reasons
  <2>2. QED
      BY <1>1, <1>3, <2>1, ClaimFate
<1>4. CASE UNCHANGED <<pending, by, winner>>
    BY <1>1, <1>2, <1>4 DEF Frame, QueueKeeps, ClientsKeep, Consistent, Ordered, Closing
<1>5. QED
    BY <1>3, <1>4 DEF GiveUp, Throw

\* Whoever claimed the request answers it and looks for its post.
LEMMA AnswerFate ==
    ASSUME NEW r \in Requests, Types, Token(r), Fate(r), Frame(r),
           SetValue(r) \/ ReadPosted(r) \/ Remember(r)
    PROVE  Fate(r)'
<1>1. UNCHANGED <<phase, pending, requestPosted, by>>
    BY DEF SetValue, ReadPosted, Remember, resolver
<1>2. CASE SetValue(r)
  <2>1. /\ winner[r] = "claimed" /\ by[r] # "none" /\ outcome'[r] = by[r]
        /\ winner'[r] = IF Announces(by[r]) THEN "answered" ELSE "done"
        /\ deferred' = deferred
      BY <1>2 DEF SetValue, Types, Token
  <2>2. Consistent(r)' /\ Closing(r)'
      BY <1>1, <2>1 DEF Consistent, Closing, NoticeDue
  <2>3. Ordered(r)'
      BY <1>1, <2>1 DEF Frame, QueueKeeps, ClientsKeep, Ordered
  <2>4. QED
      BY <2>2, <2>3
<1>3. CASE ReadPosted(r)
  <2>1. /\ winner[r] = "answered" /\ outcome' = outcome
        /\ \/ r \in requestPosted /\ winner'[r] = "announcing" /\ deferred' = deferred
           \/ /\ r \notin requestPosted /\ r \in deferred'
              /\ winner'[r] \in {"remembering", "done"}
      BY <1>3 DEF ReadPosted, AfterNotice, Types
  <2>2. r \notin pending /\ by[r] # "none"
      BY <2>1 DEF Token, Consistent
  <2>3. Consistent(r)' /\ Closing(r)'
      BY <1>1, <2>1, <2>2 DEF Consistent, Closing, NoticeDue, Ordered
  <2>4. Ordered(r)'
      BY <1>1, <2>1, <2>2 DEF Frame, QueueKeeps, ClientsKeep, Ordered
  <2>5. QED
      BY <2>3, <2>4
<1>4. CASE Remember(r)
  <2>1. /\ winner[r] = "remembering" /\ winner'[r] = "done"
        /\ outcome' = outcome /\ deferred' = deferred
      BY <1>4 DEF Remember, Types
  <2>2. QED
      BY <1>1, <2>1 DEF Frame, QueueKeeps, ClientsKeep, Consistent, Ordered, Closing, NoticeDue
<1>5. QED
    BY <1>2, <1>3, <1>4
\* The io thread runs a closure: a request opens dialogs, a notice closes them.
LEMMA DeliverFate ==
    ASSUME NEW r \in Requests, Typed, Types, Token(r), Fate(r), Deliver
    PROVE  Fate(r)'
<1>0. /\ queue \in Seq(Closures) /\ queue # <<>> /\ queue' = Tail(queue)
      /\ Head(queue) = queue[1] /\ queue[1] \in Closures
      /\ subscribed \subseteq Clients
    BY RunFacts DEF Deliver, Typed, TypeOK, Closures
<1>1. LocalSame(r) /\ UNCHANGED <<up, subscribed>>
    BY DEF Deliver, LocalSame, resolver, broker
<1>2. CASE queue[1] = <<"request", r>>
  <2>1. /\ told' = told
        /\ \A c \in Clients : c \in subscribed \/ shown'[c] = shown[c]
      BY <1>0, <1>2 DEF Deliver
  <2>2. ~Told(r) /\ InQueue("request", r)
      BY <1>0, <1>2, RunAny DEF Ordered
  <2>3. ~Told(r)' /\ ToldHidden(r)'
      BY <2>1, <2>2 DEF Told, ToldHidden
  <2>4. InQueue("notice", r)' <=> InQueue("notice", r)
      BY <1>0, <1>2, RunAny
  <2>5. InOrder(r)'
      BY <1>0, RunAny DEF Ordered
  <2>6. Consistent(r)' /\ Ordered(r)'
      BY <1>1, <2>2, <2>3, <2>4, <2>5 DEF LocalSame, Consistent, Ordered
  <2>7. Closing(r)'
      BY <1>1, <2>2, <2>4 DEF LocalSame, Closing, NoticeDue
  <2>8. QED
      BY <2>6, <2>7
<1>3. CASE queue[1] = <<"notice", r>>
  <2>1. /\ \A c \in Clients : IF c \in subscribed THEN shown'[c] = shown[c] \ {r}
                                                 ELSE shown'[c] = shown[c]
        /\ \A c \in Clients : c \in subscribed \/ told'[c] = told[c]
      BY <1>0, <1>3 DEF Deliver
  <2>2. InQueue("notice", r) /\ InOrder(r)' /\ ~InQueue("request", r)'
      BY <1>0, <1>3, RunAny DEF Ordered
  <2>3. ToldHidden(r)' /\ Hidden(r)'
      BY <1>0, <1>1, <2>1 DEF Ordered, ToldHidden, Hidden
  <2>4. r \in requestPosted /\ r \notin pending
      BY <2>2 DEF Ordered
  <2>5. Consistent(r)' /\ Ordered(r)'
      BY <1>1, <2>2, <2>3, <2>4 DEF LocalSame, Consistent, Ordered
  <2>6. Closing(r)'
      BY <1>1, <2>2, <2>3 DEF LocalSame, Closing
  <2>7. QED
      BY <2>5, <2>6
<1>4. CASE queue[1] # <<"request", r>> /\ queue[1] # <<"notice", r>>
  <2>1. QueueKeeps(r)
      BY <1>0, <1>4, RunAny DEF QueueKeeps
  <2> DEFINE q == queue[1][2]
  <2>2. /\ q # r
        /\ \A c \in Clients : shown'[c] \subseteq shown[c] \cup {q}
        /\ \A c \in Clients : told'[c] \in {told[c], told[c] \cup {q}}
      BY <1>0, <1>4 DEF Deliver, Closures
  <2> HIDE DEF q
  <2>3. ClientsKeep(r)
      BY <1>0, <1>1, <2>2 DEF ClientsKeep, Told, ToldHidden, Hidden
  <2>4. QED
      BY <1>1, <2>1, <2>3, SameFate DEF Frame
<1>5. QED
    BY <1>2, <1>3, <1>4

\* A client subscribes, and is sent what is pending; or it goes.
LEMMA ClientFate ==
    ASSUME NEW r \in Requests, NEW c \in Clients, Typed, Token(r), Fate(r), Blank,
           Attach(c) \/ Leave(c)
    PROVE  Fate(r)'
<1>1. /\ LocalSame(r) /\ UNCHANGED <<up, queue>> /\ QueueKeeps(r)
      /\ subscribed \subseteq Clients
    BY QueueSame DEF Attach, Leave, LocalSame, resolver, broker, transport, Typed, TypeOK
<1>2. CASE Leave(c)
  <2>1. ClientsKeep(r) \/ (~Told(r)' /\ ToldHidden(r)' /\ (Hidden(r) => Hidden(r)'))
    <3>1. /\ \A d \in Clients : told'[d] \subseteq told[d] /\ shown'[d] \subseteq shown[d]
          /\ \A d \in Clients : told'[d] # {} => told'[d] = told[d]
          /\ subscribed' \subseteq subscribed
        BY <1>2 DEF Leave, Typed, TypeOK
    <3>2. QED
        BY <1>1, <3>1 DEF ClientsKeep, Told, ToldHidden, Hidden
  <2>2. QED
      BY <1>1, <2>1 DEF ClientsKeep, QueueKeeps, LocalSame, Consistent, Ordered, Closing, NoticeDue
<1>3. CASE Attach(c)
  <2>1. /\ told' = told /\ subscribed' = subscribed \cup {c} /\ shown[c] = {}
        /\ \A d \in Clients : shown'[d] \subseteq shown[d] \cup pending
      BY <1>3 DEF Attach, Blank
  <2>2. CASE r \in pending
    <3>1. by[r] = "none" /\ ~Told(r)
        BY <2>2 DEF Token, Ordered
    <3>2. ~Told(r)' /\ ToldHidden(r)'
        BY <2>1, <3>1 DEF Told, ToldHidden
    <3>3. Consistent(r)' /\ Closing(r)'
        BY <1>1, <3>1 DEF LocalSame, Consistent, Closing, Announces, Answers
    <3>4. Ordered(r)'
        BY <1>1, <3>1, <3>2 DEF QueueKeeps, LocalSame, Ordered
    <3>5. QED
        BY <3>3, <3>4
  <2>3. CASE r \notin pending
    <3>1. ClientsKeep(r)
        BY <1>1, <2>1, <2>3 DEF ClientsKeep, Told, ToldHidden, Hidden
    <3>2. QED
        BY <1>1, <3>1, SameFate DEF Frame
  <2>4. QED
      BY <2>2, <2>3
<1>4. QED
    BY <1>2, <1>3

LEMMA DenyAllFate ==
    ASSUME NEW r \in Requests, Types, Token(r), Fate(r), Frame(r), DenyAll
    PROVE  Fate(r)'
<1>1. UNCHANGED <<phase, outcome, requestPosted, deferred>> /\ r \notin pending'
    BY DEF DenyAll, resolver
<1>2. CASE r \in pending
  <2>1. /\ winner[r] = "none" /\ by[r] = "none" /\ outcome[r] = "none"
        /\ winner'[r] = "claimed" /\ by'[r] = "shutdown"
      BY <1>2 DEF DenyAll, Token
  <2>2. Consistent(r)' /\ Closing(r)'
      BY <1>1, <2>1 DEF Consistent, Closing, NoticeDue
  <2>3. Ordered(r)'
      BY <1>1, <2>1 DEF Frame, QueueKeeps, ClientsKeep, Ordered
  <2>4. QED
      BY <2>2, <2>3
<1>3. CASE r \notin pending
  <2>1. by'[r] = by[r] /\ winner'[r] = winner[r]
      BY <1>3 DEF DenyAll
  <2>2. QED
      BY <1>1, <1>3, <2>1, SameFate DEF LocalSame
<1>4. QED
    BY <1>2, <1>3

LEMMA BlankStep == Typed /\ Blank /\ [Next]_vars => Blank'
<1> SUFFICES ASSUME Typed, Blank, [Next]_vars PROVE Blank'
    OBVIOUS
<1> USE DEF Blank
<1>1. CASE \E c \in Clients : Attach(c) \/ Leave(c)
    BY <1>1 DEF Attach, Leave, Typed, TypeOK
<1>2. CASE Deliver
    BY <1>2 DEF Deliver
<1>3. CASE \E c \in Clients, r \in Requests, a \in Answers : Decide(c, r, a)
    BY <1>3 DEF Decide, Typed, TypeOK
<1>4. CASE \E r \in Requests : \/ Resolve(r) \/ Throw(r) \/ Settle(r) \/ TimerFires(r)
                               \/ Cancel(r) \/ FireCallback(r)
  <2>1. UNCHANGED clients
      BY <1>4 DEF Resolve, Evaluate, ReadCount, Register, Hook, Schedule, CheckResolved,
                  PostRequest, RecordPost, Flush, GiveUp, Throw, Settle, SetValue,
                  ReadPosted, Announce, Remember, TimerFires, Cancel, FireCallback
  <2>2. QED
      BY <2>1 DEF clients
<1>5. CASE DenyAll \/ Stop \/ Halt \/ UNCHANGED vars
    BY <1>5 DEF DenyAll, Stop, Halt, vars, clients
<1>6. QED
    BY <1>1, <1>2, <1>3, <1>4, <1>5 DEF Next

\* The fate of a request through the steps that concern another one.
LEMMA OtherFate ==
    ASSUME NEW q \in Requests, NEW r \in Requests \ {q}, Typed, Fate(r),
           Resolve(q) \/ Throw(q) \/ Settle(q)
    PROVE  Fate(r)'
<1>1. LocalSame(r)
    BY DEF LocalSame, Typed, TypeOK, Resolve, Evaluate, ReadCount, Register, Hook,
           Schedule, CheckResolved, PostRequest, RecordPost, Flush, GiveUp, Throw,
           Settle, SetValue, ReadPosted, Announce, Remember, Return, Go, Claim,
           resolver, broker
<1>2. UNCHANGED <<subscribed, told, shown, up>>
    BY DEF Resolve, Evaluate, ReadCount, Register, Hook,
           Schedule, CheckResolved, PostRequest, RecordPost, Flush, GiveUp, Throw,
           Settle, SetValue, ReadPosted, Announce, Remember, clients, transport
<1>3. ClientsKeep(r)
    BY <1>2, ClientsSame DEF Typed, TypeOK
<1>4. \/ UNCHANGED queue
      \/ queue' = Append(queue, <<"request", q>>)
      \/ queue' = Append(queue, <<"notice", q>>)
    BY DEF Resolve, Evaluate, ReadCount, Register, Hook,
           Schedule, CheckResolved, PostRequest, RecordPost, Flush, GiveUp, Throw,
           Settle, SetValue, ReadPosted, Announce, Remember, PostNotice, transport
<1>5. QueueKeeps(r)
    BY <1>4, PostOther, QueueSame DEF Typed, TypeOK, Closures
<1>6. QED
    BY <1>1, <1>2, <1>3, <1>5, SameFate DEF Frame

LEMMA FateStep ==
    ASSUME IInv, Typed, OInv, [Next]_vars, NEW r \in Requests
    PROVE  Fate(r)'
<1>0. /\ Types /\ Token(r) /\ Fate(r) /\ Blank
      /\ queue \in Seq(Closures) /\ subscribed \subseteq Clients
    BY DEF IInv, OInv, Typed, TypeOK, Closures
<1>1. ASSUME NEW q \in Requests, Resolve(q) \/ Throw(q) \/ Settle(q) PROVE Fate(r)'
  <2>1. CASE q # r
      BY <1>0, <1>1, <2>1, OtherFate
  <2>2. CASE q = r
    <3>1. UNCHANGED <<told, subscribed, shown, up>>
        BY <1>1 DEF Resolve, Evaluate, ReadCount, Register, Hook,
               Schedule, CheckResolved, PostRequest, RecordPost, Flush, GiveUp, Throw,
               Settle, SetValue, ReadPosted, Announce, Remember, clients, transport
    <3>2. ClientsKeep(r)
        BY <1>0, <3>1, ClientsSame
    <3>3. CASE PostRequest(r)
        BY <1>0, <3>2, <3>3, PostRequestFate
    <3>4. CASE Flush(r) \/ Announce(r)
        BY <1>0, <3>2, <3>4, NoticeFate
    <3>5. CASE ~(PostRequest(r) \/ Flush(r) \/ Announce(r))
      <4>1. UNCHANGED queue
          BY <1>1, <2>2, <3>5 DEF Resolve, Evaluate, ReadCount, Register, Hook,
                 Schedule, CheckResolved, RecordPost, GiveUp, Throw,
                 Settle, SetValue, ReadPosted, Remember, transport
      <4>2. Frame(r)
          BY <3>1, <3>2, <4>1, QueueSame DEF Frame
      <4>3. QED
          BY <1>0, <1>1, <2>2, <3>5, <4>2, EarlyFate, BeforePostFate, RecordPostFate,
             GiveUpFate, AnswerFate DEF Resolve, Settle
    <3>6. QED
        BY <3>3, <3>4, <3>5
  <2>3. QED
      BY <2>1, <2>2
<1>2. ASSUME NEW q \in Requests, NEW reason \in Reasons \ {"none"},
             Claim(q, reason) \/ UNCHANGED <<pending, by, winner>>,
             UNCHANGED <<phase, outcome, requestPosted, deferred, queue, told,
                         subscribed, up>>,
             \A c \in Clients : shown'[c] \subseteq shown[c]
      PROVE  Fate(r)'
  <2>1. Frame(r)
      BY <1>0, <1>2, QueueSame, ClientsSame DEF Frame
  <2>2. CASE Claim(q, reason) /\ q = r
      BY <1>0, <1>2, <2>1, <2>2, ClaimFate
  <2>3. CASE Claim(q, reason) /\ q # r
    <3>1. LocalSame(r)
        BY <1>0, <1>2, <2>3 DEF Claim, LocalSame
    <3>2. QED
        BY <1>0, <2>1, <3>1, SameFate
  <2>4. CASE UNCHANGED <<pending, by, winner>>
    <3>1. LocalSame(r)
        BY <1>2, <2>4 DEF LocalSame
    <3>2. QED
        BY <1>0, <2>1, <3>1, SameFate
  <2>5. QED
      BY <1>2, <2>2, <2>3, <2>4
<1>3. ASSUME NEW q \in Requests, TimerFires(q) \/ FireCallback(q) PROVE Fate(r)'
  <2>1. "timeout" \in Reasons \ {"none"} /\ "cancelled" \in Reasons \ {"none"}
      BY DEF Reasons
  <2>2. /\ UNCHANGED <<phase, outcome, requestPosted, deferred, queue, told, subscribed, up, shown>>
        /\ \/ Claim(q, "timeout") \/ Claim(q, "cancelled")
           \/ UNCHANGED <<pending, by, winner>>
      BY <1>3 DEF TimerFires, FireCallback, resolver, transport, clients
  <2>3. QED
      BY <1>2, <2>1, <2>2
<1>4. ASSUME NEW c \in Clients, NEW q \in Requests, NEW a \in Answers, Decide(c, q, a)
      PROVE  Fate(r)'
  <2>1. a \in Reasons \ {"none"}
      BY DEF Reasons, Answers
  <2>2. /\ UNCHANGED <<phase, outcome, requestPosted, deferred, queue, told, subscribed, up>>
        /\ Claim(q, a) \/ UNCHANGED <<pending, by, winner>>
        /\ \A d \in Clients : shown'[d] \subseteq shown[d]
      BY <1>4 DEF Decide, resolver, transport, Typed, TypeOK
  <2>3. QED
      BY <1>2, <2>1, <2>2
<1>5. CASE DenyAll
  <2>1. Frame(r)
      BY <1>0, <1>5, QueueSame, ClientsSame DEF DenyAll, Frame, transport, clients
  <2>2. QED
      BY <1>0, <1>5, <2>1, DenyAllFate
<1>6. CASE \E c \in Clients : Attach(c) \/ Leave(c)
    BY <1>0, <1>6, ClientFate
<1>7. CASE Deliver
    BY <1>0, <1>7, DeliverFate
<1>8. CASE (\E q \in Requests : Cancel(q)) \/ Stop \/ Halt \/ UNCHANGED vars
  <2>1. /\ UNCHANGED <<phase, broker, queue, clients>> /\ (up' => up)
      BY <1>8 DEF Cancel, Stop, Halt, vars, resolver, transport
  <2>2. LocalSame(r) /\ Frame(r)
      BY <1>0, <2>1, QueueSame, ClientsSame DEF LocalSame, Frame, broker, clients
  <2>3. QED
      BY <1>0, <2>2, SameFate
<1>9. QED
    BY <1>1, <1>3, <1>4, <1>5, <1>6, <1>7, <1>8 DEF Next

LEMMA FateInv == Spec => [](IInv /\ Typed /\ OInv)
<1>1. Init => OInv
    BY DEF Init, OInv, Blank, Consistent, Ordered, Closing, InQueue, InOrder, Told,
           ToldHidden, Announces, Answers
<1>2. IInv /\ Typed /\ OInv /\ [Next]_vars => OInv'
    BY FateStep, BlankStep DEF OInv
<1>3. QED
    BY <1>1, <1>2, Invariance, TypeInv, PTL DEF Spec

\* 95-I10: a client that was told a request is resolved is never shown it again,
\* neither by the request's own late delivery nor by another client's attach.
THEOREM Request_Before_Notice == Spec => RequestBeforeNotice
<1>1. Typed /\ OInv /\ OInv' /\ [Next]_vars
        => [\A c \in Clients : \A r \in told[c] : r \notin shown'[c]]_vars
  <2> SUFFICES ASSUME Typed, OInv, OInv', Next,
                      NEW c \in Clients, NEW r \in told[c], r \in shown'[c]
               PROVE  FALSE
      OBVIOUS
  <2>1. r \in Requests
      BY DEF Typed, TypeOK
  <2>2. (told'[c] = {} /\ shown'[c] = {}) \/ told[c] \subseteq told'[c]
    <3>1. CASE Deliver
        BY <3>1 DEF Deliver, Typed, TypeOK
    <3>2. CASE \E d \in Clients : Leave(d)
        BY <3>2 DEF Leave, Typed, TypeOK
    <3>3. CASE ~Deliver /\ ~\E d \in Clients : Leave(d)
      <4>1. told' = told
          BY <3>3 DEF Next, Resolve, Evaluate, ReadCount, Register, Hook, Schedule,
                 CheckResolved, PostRequest, RecordPost, Flush, GiveUp, Throw, Settle,
                 SetValue, ReadPosted, Announce, Remember, TimerFires, Cancel,
                 FireCallback, Attach, Decide, DenyAll, Stop, Halt, clients
      <4>2. QED
          BY <4>1
    <3>4. QED
        BY <3>1, <3>2, <3>3
  <2>3. QED
      BY <2>1, <2>2 DEF OInv, Ordered, ToldHidden
<1>2. QED
    BY <1>1, FateInv, PTL DEF Spec, RequestBeforeNotice

\* A request that was posted and resolved with a notice leaves no dialog open once
\* nothing is under way, however the resolution raced the post and the clients'
\* coming and going.
THEOREM Posted_Dialogs_Close == Spec => []PostedDialogsClose
<1>1. Typed /\ OInv => PostedDialogsClose
  <2> SUFFICES ASSUME Typed, OInv, NEW r \in requestPosted, Quiet(r), Announces(outcome[r]),
                      NEW c \in subscribed
               PROVE  r \notin shown[c]
      BY DEF PostedDialogsClose
  <2>1. r \in Requests /\ Fate(r)
      BY DEF Typed, TypeOK, OInv
  <2>2. outcome[r] # "none" /\ winner[r] \in {"none", "done"} /\ up /\ queue = <<>>
        /\ phase[r] = "returned"
      BY DEF Announces, Answers, Quiet
  <2>3. by[r] = outcome[r] /\ winner[r] = "done"
      BY <2>1, <2>2 DEF Consistent
  <2>4. ~NoticeDue(r)
      BY <2>2, <2>3 DEF NoticeDue, InQueue
  <2>5. QED
      BY <2>1, <2>3, <2>4 DEF Closing, Hidden
<1>2. QED
    BY <1>1, FateInv, PTL
=============================================================================
