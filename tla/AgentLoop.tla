------------------------------ MODULE AgentLoop ------------------------------
(***************************************************************************)
(* AgentLoop: one session's agent.  Executor tasks put items into its      *)
(* bounded inbox; the task that finds nobody running becomes the driver    *)
(* and works the inbox off, one turn per trigger.  Other threads cancel,   *)
(* suspend or dispose the agent meanwhile.                                 *)
(*                                                                         *)
(* A process is one call made by an executor task: it accepts its item     *)
(* and may then drive.  An action is one critical section of               *)
(* control_mutex_, one access to the atomics running_, state_ and          *)
(* disposed_ (the head of the driver's loop takes several together), or an *)
(* append to the session's log, which only the driver makes.               *)
(***************************************************************************)
EXTENDS Naturals, Sequences, FiniteSets

CONSTANTS Calls,        \* the calls executor tasks make, each once
          Kind,         \* what each call is
          MaxInbox,     \* AgentConfig::max_inbox
          MaxTurnSteps, \* AgentConfig::max_turn_steps
          Controls,     \* which of cancel and suspend others call
          MaxControls,  \* bound: cancels and suspends that find a turn
          Watches,      \* bound: somebody registers an onSettled callback
          Disposes,     \* bound: somebody disposes the agent
          None          \* no call

\* "send" stands for send, followup and an inject with startsTurn.
Kinds == {"send", "steer", "inject", "compact", "activate"}

ASSUME KindAssumption  == Kind \in [Calls -> Kinds]
ASSUME LimitAssumption == MaxInbox \in Nat /\ MaxTurnSteps \in Nat /\ MaxControls \in Nat
                          /\ Watches \in BOOLEAN /\ Disposes \in BOOLEAN
ASSUME ControlAssumption == Controls \subseteq {"cancel", "suspend"}
ASSUME NoneAssumption  == None \notin Calls

VARIABLES
    pc,             \* where each call is
    inbox, accepted,\* inbox_, and every item ever accepted, in order
    failureDue,     \* pending_maintenance_failure_
    running, state, \* running_, state_
    cancelled,      \* the token of turn_cancel_
    reason,         \* cancel_reason_
    turn,           \* the trigger of the turn being run, or None
    steps, nudged, answer, captured,        \* locals of runTurn
    log,            \* the session's log: messages, turn starts, terminal events
    generation,     \* settle_generation_
    watch,          \* one onSettled callback: its state, generation, and the
                    \* log when it was registered: its length, and whether it
                    \* ended in a terminal event still to be noted
    canceller,      \* a cancel or suspend between its test and its effect
    controls,       \* how many have been made
    disposer        \* how far dispose has got

queue    == <<inbox, accepted, failureDue>>
token    == <<cancelled, reason>>
locals   == <<steps, nudged, answer, captured>>
settling == <<generation, watch>>
control  == <<canceller, controls, disposer>>
vars     == <<pc, queue, running, state, token, turn, locals, log, settling, control>>

Reasons == {"user", "superseded"}

\* An event of the log: what it is, and its item or reason.
Terminals == {"failed", "ended", "cancelled"}
Events == ({"message", "started"} \cup Terminals) \X (Calls \cup {None} \cup Reasons)

States == {"Idle", "Thinking", "CallingTool", "WaitingForPermission",
           "Cancelling", "Error"}

\* Where the driver is inside a turn, and where it is between turns.
InTurn  == {"refused", "begun", "step", "think", "call", "stream", "answered",
            "tools", "asking", "ran"}

\* Where a turn whose terminal event is in the log has state_ to store and, if it
\* does so at all, its terminal event to note.
Unnoted == {"failed", "ended", "noting"}
Closing == Unnoted \cup {"dropped"}

Driving == InTurn \cup Closing \cup {"while", "folded", "stop"}
PC      == Driving \cup {"new", "room", "queue", "reject", "full", "recover", "poke",
                         "enter", "rest", "idling", "flush", "calling", "done"}

disposed     == disposer # "none"
turnInFlight == state \notin {"Idle", "Error"}

hasTurnTrigger ==
    \/ \E i \in 1..Len(inbox) : Kind[inbox[i]] # "inject"
    \/ failureDue

Goto(c, where) == pc' = [pc EXCEPT ![c] = where]

\* An Error left by an earlier turn does not outlast new work.
Recovered == IF state = "Error" THEN "Idle" ELSE state

\* A callback that waits no more: its generation went with it.
Spent(how) == [state |-> how, generation |-> 0, at |-> 0, unnoted |-> FALSE]

Init == /\ pc = [c \in Calls |-> "new"]
        /\ inbox = <<>> /\ accepted = <<>> /\ failureDue = FALSE
        /\ running = FALSE /\ state = "Idle"
        /\ cancelled = FALSE /\ reason = "user"
        /\ turn = None
        /\ steps = 0 /\ nudged = FALSE /\ answer = "none" /\ captured = "user"
        /\ log = <<>>
        /\ generation = 0
        /\ watch = Spent("none")
        /\ canceller = "none" /\ controls = 0 /\ disposer = "none"

-----------------------------------------------------------------------------
(* The calls *)

\* enqueue, under the mutex.
Enqueue(c) ==
    /\ \/ pc[c] = "new" /\ Kind[c] \in {"send", "steer", "inject"}
       \/ pc[c] = "queue"
    /\ \/ /\ disposed
          /\ Goto(c, "done") /\ UNCHANGED <<inbox, accepted, state>>
       \/ /\ ~disposed /\ Len(inbox) >= MaxInbox
          /\ Goto(c, IF Kind[c] = "compact" THEN "reject" ELSE "done")
          /\ UNCHANGED <<inbox, accepted, state>>
       \/ /\ ~disposed /\ Len(inbox) < MaxInbox
          /\ state' = Recovered
          /\ inbox' = Append(inbox, c) /\ accepted' = Append(accepted, c)
          /\ Goto(c, "poke")
    /\ UNCHANGED <<failureDue, running, token, turn, locals, log, settling, control>>

\* requestCompaction's own look at the inbox, before it enqueues.
RequestCompaction(c) ==
    /\ \/ /\ pc[c] = "new" /\ Kind[c] = "compact"
          /\ Goto(c, IF disposed THEN "done" ELSE "room") /\ UNCHANGED failureDue
       \/ /\ pc[c] = "room" /\ Len(inbox) < MaxInbox
          /\ Goto(c, "queue") /\ UNCHANGED failureDue
       \/ /\ pc[c] = "room" /\ Len(inbox) >= MaxInbox
          /\ failureDue' = TRUE /\ Goto(c, "full")
    /\ UNCHANGED <<inbox, accepted, running, state, token, turn, locals, log,
                   settling, control>>

Reject(c) ==
    /\ pc[c] = "reject"
    /\ failureDue' = TRUE /\ Goto(c, "full")
    /\ UNCHANGED <<inbox, accepted, running, state, token, turn, locals, log,
                   settling, control>>

\* A rejected compaction activates an agent that rests, to record its failure.
Full(c) ==
    /\ \/ /\ pc[c] = "full"
          /\ Goto(c, IF running THEN "done" ELSE "recover") /\ UNCHANGED state
       \/ /\ pc[c] = "recover"
          /\ Goto(c, "enter") /\ state' = Recovered
    /\ UNCHANGED <<queue, running, token, turn, locals, log, settling, control>>

\* activateSession's test of the state.
ActivateSession(c) ==
    /\ pc[c] = "new" /\ Kind[c] = "activate"
    /\ Goto(c, IF state \in {"Idle", "WaitingForPermission"} THEN "enter" ELSE "done")
    /\ UNCHANGED <<queue, running, state, token, turn, locals, log, settling, control>>

\* enqueue again, after the mutex: is anybody running?
Poke(c) ==
    /\ pc[c] = "poke"
    /\ Goto(c, IF running THEN "done" ELSE "enter")
    /\ UNCHANGED <<queue, running, state, token, turn, locals, log, settling, control>>

-----------------------------------------------------------------------------
(* activate *)

\* running_ stored without being exchanged.
EnterRegardless(c) ==
    /\ pc[c] = "enter" /\ ~disposed
    /\ Goto(c, "while") /\ running' = TRUE
    /\ UNCHANGED <<queue, state, token, turn, locals, log, settling, control>>

Enter(c) ==
    /\ pc[c] = "enter"
    /\ \/ /\ disposed \/ running
          /\ Goto(c, "done") /\ UNCHANGED running
       \/ /\ ~disposed /\ ~running
          /\ Goto(c, "while") /\ running' = TRUE
    /\ UNCHANGED <<queue, state, token, turn, locals, log, settling, control>>

\* Nothing is left to do, or the last turn failed.
Leave(c) ==
    /\ pc[c] = "while"
    /\ disposed \/ ~hasTurnTrigger \/ (~failureDue /\ state = "Error")
    /\ Goto(c, "stop")
    /\ UNCHANGED <<queue, running, state, token, turn, locals, log, settling, control>>

\* The turn is over but for its last stores.
Return(c, to) ==
    /\ turn' = None
    /\ steps' = 0 /\ nudged' = FALSE /\ answer' = "none" /\ captured' = "user"
    /\ Goto(c, to)

\* A terminal event closes the turn in the log ...
Terminal(c, event, to) ==
    /\ log' = Append(log, event)
    /\ Return(c, to)

\* ... then the agent's state is stored: an Error outlasts a turn that failed ...
StoreState(c) ==
    /\ pc[c] \in {"failed", "ended", "dropped"}
    /\ state' = IF pc[c] = "failed" THEN "Error" ELSE "Idle"
    /\ Goto(c, IF pc[c] = "dropped" THEN "while" ELSE "noting")
    /\ UNCHANGED <<queue, running, token, turn, locals, log, settling, control>>

\* ... and then, under the mutex, the terminal event is counted.
noteTerminal(c) ==
    /\ pc[c] = "noting"
    /\ generation' = generation + 1
    /\ Goto(c, "while")
    /\ UNCHANGED <<queue, running, state, token, turn, locals, log, watch, control>>

\* A compaction rejected for a full inbox is recorded as a turn that fails.
MaintenanceFailure(c) ==
    /\ pc[c] = "while" /\ ~disposed /\ failureDue
    /\ failureDue' = FALSE
    /\ log' = Append(log, <<"started", None>>)
    /\ Goto(c, "refused")
    /\ UNCHANGED <<inbox, accepted, running, state, token, turn, locals, settling, control>>

\* drainFoldedItems takes the steers and contexts at the front of the inbox.
Foldable(n) == /\ \A i \in 1..n : Kind[inbox[i]] \in {"steer", "inject"}
               /\ n < Len(inbox) => Kind[inbox[n + 1]] \notin {"steer", "inject"}

Messages(n) == [i \in 1..n |-> <<"message", inbox[i]>>]

FoldItems == \E n \in 0..Len(inbox) :
                /\ Foldable(n)
                /\ inbox' = SubSeq(inbox, n + 1, Len(inbox))
                /\ log' = log \o Messages(n)

\* runTurn folds what the front of the inbox holds ...
RunTurn(c) ==
    /\ pc[c] = "while" /\ ~disposed
    /\ hasTurnTrigger /\ ~failureDue /\ state # "Error"
    /\ FoldItems
    /\ Goto(c, "folded")
    /\ UNCHANGED <<accepted, failureDue, running, state, token, turn, locals, settling,
                   control>>

\* ... and takes what is first by then, of whatever kind, as the turn's trigger.
Trigger(c) ==
    /\ pc[c] = "folded"
    /\ \/ /\ inbox = <<>>
          /\ Goto(c, "while") /\ UNCHANGED <<inbox, log, turn>>
       \/ /\ inbox # <<>>
          /\ turn' = Head(inbox) /\ inbox' = Tail(inbox)
          /\ log' = Append(log, <<"started", Head(inbox)>>)
          /\ Goto(c, "begun")
    /\ UNCHANGED <<accepted, failureDue, running, state, token, locals, settling, control>>

\* A cancellation source of the turn's own.
Begin(c) ==
    /\ pc[c] = "begun"
    /\ cancelled' = FALSE /\ reason' = "user"
    /\ Goto(c, "step")
    /\ UNCHANGED <<queue, running, state, turn, locals, log, settling, control>>

Maintenance == Kind[turn] = "compact"

\* A step that drops what was steered, and one that is not counted.
StepDroppingItems(c) ==
    /\ pc[c] = "step"
    /\ Maintenance \/ steps < MaxTurnSteps
    /\ steps' = steps + 1
    /\ \E n \in 0..Len(inbox) : /\ Foldable(n)
                               /\ inbox' = SubSeq(inbox, n + 1, Len(inbox))
    /\ Goto(c, "think")
    /\ UNCHANGED <<accepted, failureDue, running, state, token, turn, nudged, answer,
                   captured, log, settling, control>>

StepUncounted(c) ==
    /\ pc[c] = "step" /\ (Maintenance \/ steps < MaxTurnSteps)
    /\ IF Maintenance THEN UNCHANGED <<inbox, log>> ELSE FoldItems
    /\ Goto(c, "think")
    /\ UNCHANGED <<accepted, failureDue, running, state, token, turn, locals, settling,
                   control>>

\* StepStarted, and what was steered meanwhile.
Step(c) ==
    /\ pc[c] = "step"
    /\ Maintenance \/ steps < MaxTurnSteps
    /\ steps' = steps + 1
    /\ IF Maintenance THEN UNCHANGED <<inbox, log>> ELSE FoldItems
    /\ Goto(c, "think")
    /\ UNCHANGED <<accepted, failureDue, running, state, token, turn, nudged, answer,
                   captured, settling, control>>

StepCeiling(c) ==
    /\ pc[c] = "step" /\ ~Maintenance /\ steps >= MaxTurnSteps
    /\ Terminal(c, <<"failed", None>>, "ended")
    /\ UNCHANGED <<queue, running, state, token, settling, control>>

Think(c) ==
    /\ pc[c] = "think"
    /\ state' = "Thinking" /\ Goto(c, "call")
    /\ UNCHANGED <<queue, running, token, turn, locals, log, settling, control>>

\* A rejected compaction; or assembly fails, or the tool scheduler throws.
Fail(c) ==
    /\ pc[c] \in {"refused", "call", "ran"}
    /\ Terminal(c, <<"failed", None>>, "failed")
    /\ UNCHANGED <<queue, running, state, token, settling, control>>

\* A slot is refused to a cancelled turn.
CallProvider(c) ==
    /\ pc[c] = "call"
    /\ \/ cancelled /\ answer' = "cancelled" /\ Goto(c, "answered")
       \/ ~cancelled /\ Goto(c, "stream") /\ UNCHANGED answer
    /\ UNCHANGED <<queue, running, state, token, turn, steps, nudged, captured, log,
                   settling, control>>

\* What the provider (or the compactor, in a maintenance turn) came back with.
Answer(c) ==
    /\ pc[c] = "stream"
    /\ answer' \in {"text", "failed"} \cup (IF cancelled THEN {"cancelled"} ELSE {})
                   \cup (IF Maintenance THEN {} ELSE {"blank", "tools"})
    /\ Goto(c, "answered")
    /\ UNCHANGED <<queue, running, state, token, turn, steps, nudged, captured, log,
                   settling, control>>

Conclude(c) ==
    /\ pc[c] = "answered"
    /\ \/ answer = "cancelled" /\ Terminal(c, <<"cancelled", reason>>, "ended")
       \/ answer = "failed"    /\ Terminal(c, <<"failed", None>>, "failed")
       \/ answer = "text"      /\ Terminal(c, <<"ended", None>>, "ended")
       \/ answer = "blank" /\ nudged /\ Terminal(c, <<"failed", None>>, "ended")
    /\ UNCHANGED <<queue, running, state, token, settling, control>>

\* One corrective nudge per turn.
Nudge(c) ==
    /\ pc[c] = "answered" /\ answer = "blank" /\ ~nudged
    /\ nudged' = TRUE /\ Goto(c, "step")
    /\ UNCHANGED <<queue, running, state, token, turn, steps, answer, captured, log,
                   settling, control>>

\* The reason a cancellation would have is read before the tools run.
CallTools(c) ==
    /\ pc[c] = "answered" /\ answer = "tools"
    /\ captured' = reason /\ state' = "CallingTool"
    /\ Goto(c, "tools")
    /\ UNCHANGED <<queue, running, token, turn, steps, nudged, answer, log, settling, control>>

\* A tool call may ask for permission; the state is stored without a look.
Ask(c) ==
    /\ pc[c] = "tools"
    /\ \/ state' = "WaitingForPermission" /\ Goto(c, "asking")
       \/ UNCHANGED state /\ Goto(c, "ran")
    /\ UNCHANGED <<queue, running, token, turn, locals, log, settling, control>>

Permitted(c) ==
    /\ pc[c] = "asking"
    /\ state' = "CallingTool" /\ Goto(c, "ran")
    /\ UNCHANGED <<queue, running, token, turn, locals, log, settling, control>>

\* A cancelled turn that is dropped without its terminal event.
DroppedByTools(c) ==
    /\ pc[c] = "ran" /\ cancelled
    /\ Return(c, "dropped")
    /\ UNCHANGED <<queue, running, state, token, log, settling, control>>

\* The tools are done: a turn cancelled by now ends, and notes no terminal event.
CancelledByTools(c) ==
    /\ pc[c] = "ran" /\ cancelled
    /\ Terminal(c, <<"cancelled", captured>>, "dropped")
    /\ UNCHANGED <<queue, running, state, token, settling, control>>

\* Otherwise the turn goes on, or a progress guard stops it.
ToolsDone(c) ==
    /\ pc[c] = "ran" /\ ~cancelled
    /\ \/ Goto(c, "step") /\ UNCHANGED <<log, turn, locals>>
       \/ Terminal(c, <<"failed", None>>, "ended")
    /\ UNCHANGED <<queue, running, state, token, settling, control>>

\* The inbox is worked off.
Stop(c) ==
    /\ pc[c] = "stop"
    /\ running' = FALSE /\ Goto(c, "rest")
    /\ UNCHANGED <<queue, state, token, turn, locals, log, settling, control>>

\* state_ is looked at, and stored after that.
Rested(c) ==
    /\ \/ pc[c] = "rest" /\ state = "Error"
          /\ Goto(c, "flush") /\ UNCHANGED state
       \/ pc[c] = "rest" /\ state # "Error"
          /\ Goto(c, "idling") /\ UNCHANGED state
       \/ pc[c] = "idling"
          /\ state' = "Idle" /\ Goto(c, "flush")
    /\ UNCHANGED <<queue, running, token, turn, locals, log, settling, control>>

AtRest == ~running /\ ~hasTurnTrigger /\ ~turnInFlight

\* The callback is taken out under the mutex, to be run after it.
TakeIf(c, due) ==
    /\ pc[c] = "flush"
    /\ \/ /\ due /\ watch.state = "waiting"
          /\ watch' = Spent("taken") /\ Goto(c, "calling")
       \/ /\ ~(due /\ watch.state = "waiting")
          /\ Goto(c, "done") /\ UNCHANGED watch
    /\ UNCHANGED <<queue, running, state, token, turn, locals, log, generation, control>>

\* Callbacks taken without a terminal event of their own.
flushAtRest(c) == TakeIf(c, AtRest)

flushSettleCallbacks(c) == TakeIf(c, AtRest /\ watch.generation < generation)

\* Outside the mutex, whatever has become of the agent.
RunCallback(c) ==
    /\ pc[c] = "calling"
    /\ watch' = Spent("fired") /\ Goto(c, "done")
    /\ UNCHANGED <<queue, running, state, token, turn, locals, log, generation, control>>

-----------------------------------------------------------------------------
(* Other threads *)

onSettled ==
    /\ Watches /\ watch.state = "none" /\ ~disposed
    /\ watch' = [state |-> "waiting", generation |-> generation, at |-> Len(log),
                 unnoted |-> \E c \in Calls : pc[c] \in Unnoted]
    /\ UNCHANGED <<pc, queue, running, state, token, turn, locals, log, generation, control>>

\* cancel and suspend look at the state before they take the mutex ...
TestState(how) ==
    /\ canceller = "none" /\ controls < MaxControls
    /\ ~disposed /\ turnInFlight /\ state # "Cancelling"
    /\ canceller' = how /\ controls' = controls + 1
    /\ UNCHANGED <<pc, queue, running, state, token, turn, locals, log, settling, disposer>>

\* ... and cancel whatever turn_cancel_ then is.
Cancel ==
    /\ canceller # "none"
    /\ canceller' = "none"
    /\ reason' = IF canceller = "suspend" THEN "superseded" ELSE "user"
    /\ state' = "Cancelling" /\ cancelled' = TRUE
    /\ UNCHANGED <<pc, queue, running, turn, locals, log, settling, controls, disposer>>

Dispose ==
    /\ Disposes /\ disposer = "none" /\ disposer' = "exchanged"
    /\ UNCHANGED <<pc, queue, running, state, token, turn, locals, log, settling,
                   canceller, controls>>

DisposeClear ==
    /\ disposer = "exchanged" /\ disposer' = "cleared"
    /\ IF turnInFlight
       THEN reason' = "user" /\ state' = "Cancelling" /\ cancelled' = TRUE
       ELSE UNCHANGED <<reason, state, cancelled>>
    /\ inbox' = <<>> /\ failureDue' = FALSE
    /\ watch' = IF watch.state = "waiting" THEN Spent("cleared") ELSE watch
    /\ UNCHANGED <<pc, accepted, running, turn, locals, log, generation, canceller, controls>>

DisposePark ==
    /\ \/ disposer = "cleared" /\ disposer' = "parked"
          /\ state' = "Idle" /\ UNCHANGED running
       \/ disposer = "parked" /\ disposer' = "done"
          /\ running' = FALSE /\ UNCHANGED state
    /\ UNCHANGED <<pc, queue, token, turn, locals, log, settling, canceller, controls>>

-----------------------------------------------------------------------------
Submit(c) == Enqueue(c) \/ RequestCompaction(c) \/ Reject(c) \/ Full(c)
             \/ ActivateSession(c) \/ Poke(c) \/ Enter(c)

Drive(c) == \/ Leave(c) \/ MaintenanceFailure(c)
            \/ RunTurn(c) \/ Trigger(c) \/ Begin(c) \/ Step(c) \/ StepCeiling(c)
            \/ Think(c) \/ Fail(c) \/ StoreState(c) \/ noteTerminal(c)
            \/ CallProvider(c) \/ Answer(c) \/ Conclude(c) \/ Nudge(c)
            \/ CallTools(c) \/ Ask(c) \/ Permitted(c)
            \/ CancelledByTools(c) \/ ToolsDone(c)
            \/ Stop(c) \/ Rested(c) \/ flushSettleCallbacks(c) \/ RunCallback(c)

Next == \/ \E c \in Calls : Submit(c) \/ Drive(c)
        \/ onSettled \/ Cancel \/ \E how \in Controls : TestState(how)
        \/ Dispose \/ DisposeClear \/ DisposePark

Spec == Init /\ [][Next]_vars

\* A driver runs on; provider calls, tools and permission requests end (they
\* have timeouts).  Nothing makes a task, a cancel or a dispose come.
Fairness == \A c \in Calls : WF_vars(Drive(c))

FairSpec == Spec /\ Fairness

-----------------------------------------------------------------------------
(* Properties *)

\* Every variable keeps its type.
TypeOK ==
    /\ pc \in [Calls -> PC]
    /\ inbox \in Seq(Calls) /\ Len(inbox) <= MaxInbox
    /\ accepted \in Seq(Calls)
    /\ failureDue \in BOOLEAN /\ running \in BOOLEAN /\ cancelled \in BOOLEAN
    /\ state \in States /\ reason \in Reasons /\ captured \in Reasons
    /\ turn \in Calls \cup {None}
    /\ steps \in Nat /\ nudged \in BOOLEAN
    /\ answer \in {"none", "text", "blank", "tools", "failed", "cancelled"}
    /\ log \in Seq(Events) /\ generation \in Nat
    /\ watch \in [state : {"none", "waiting", "taken", "fired", "cleared"},
                  generation : Nat, at : Nat, unnoted : BOOLEAN]
    /\ canceller \in {"none", "cancel", "suspend"} /\ controls \in 0..MaxControls
    /\ disposer \in {"none", "exchanged", "cleared", "parked", "done"}

\* Two tasks never drive the agent at once, however their enqueues, an
\* activateSession and a dispose that clears running_ under a turn interleave.
OneDriver == \A c, d \in Calls : pc[c] \in Driving /\ pc[d] \in Driving => c = d

Started(i) == log[i][1] = "started"
Ended(i)   == log[i][1] \in Terminals

\* The turn that began at i has no terminal event yet.
Open(i) == Started(i) /\ \A k \in (i + 1)..Len(log) : ~Ended(k)

\* A2 "close every turn with exactly one terminal event": between two starts the
\* first turn ends, each terminal event closes a turn of its own, and a turn is
\* open just while a task is driving it.
OneTerminalPerTurn ==
    /\ \A i, j \in 1..Len(log) : i < j /\ Started(i) /\ Started(j)
            => \E k \in (i + 1)..(j - 1) : Ended(k)
    /\ \A i, j \in 1..Len(log) : i < j /\ Ended(i) /\ Ended(j)
            => \E k \in (i + 1)..(j - 1) : Started(k)
    /\ \A j \in 1..Len(log) : Ended(j) => \E i \in 1..(j - 1) : Started(i)
    /\ (\E i \in 1..Len(log) : Open(i)) <=> (\E c \in Calls : pc[c] \in InTurn)

\* Where the log has an item, and how many there are up to a position.
Items == {i \in 1..Len(log) : \/ log[i][1] = "message"
                              \/ log[i][1] = "started" /\ log[i][2] # None}

ItemsUpTo(i) == Cardinality({j \in Items : j <= i})

\* Every accepted item reaches the log once and in the order of acceptance, or
\* is in the inbox, or was dropped by dispose, which leaves the inbox empty.
ItemsConserved ==
    /\ Cardinality(Items) <= Len(accepted)
    /\ \A i \in Items : log[i][2] = accepted[ItemsUpTo(i)]
    /\ inbox = IF disposer \in {"none", "exchanged"}
               THEN SubSeq(accepted, Cardinality(Items) + 1, Len(accepted)) ELSE <<>>

\* 55-D10, "callbacks whose registration predates the current terminal generation"
\* (agent_loop.hpp:191): one is taken only when a terminal event came after its
\* registration, or was in the log by then and not yet noted, when no other task has
\* a turn open, and not once dispose has cleared it.
SettlesAfterTerminal ==
    [][watch'.state = "taken" /\ watch.state # "taken" =>
        /\ \E i \in 1..Len(log) : Ended(i) /\ (i > watch.at \/ (watch.unnoted /\ i = watch.at))
        /\ \A i \in 1..Len(log) : ~Open(i)
        /\ disposer \in {"none", "exchanged"}]_vars

\* Every turn ends: steps, nudges and tools are bounded.
EveryTurnEnds == (turn # None) ~> (turn = None)
=============================================================================
