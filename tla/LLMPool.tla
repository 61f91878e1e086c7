------------------------------- MODULE LLMPool -------------------------------
(***************************************************************************)
(* The daemon-wide pool of LLM slots (LLMPool): a mutex, one condition     *)
(* variable, a FIFO of tickets and a count of slots in use.  A worker      *)
(* calls acquire with the cancellation token of its turn, holds the Slot   *)
(* it gets and gives it back when the Slot is destroyed.                   *)
(*                                                                         *)
(* The grain is the one the mutex gives: what acquire does between taking  *)
(* the mutex and sleeping is a sequence of actions during which no other   *)
(* worker enters a critical section, because the two calls that take NO    *)
(* mutex, a token's callback and the notify_all after an unlock, can fall  *)
(* between any two of them.                                                *)
(***************************************************************************)
EXTENDS Integers, Sequences, FiniteSets

CONSTANTS Workers,      \* threads that acquire slots
          Capacity,     \* LLMPool::capacity_
          MaxTickets    \* bound: tickets handed out in a behaviour

ASSUME WorkersAssumption  == IsFiniteSet(Workers)
ASSUME CapacityAssumption == Capacity \in Nat
ASSUME TicketsAssumption  == MaxTickets \in Nat

VARIABLES pc,           \* where each worker is in acquire / release
          cancelled,    \* whether the worker's current token is cancelled
          registered,   \* whether acquire's on_cancel callback is installed
          firing,       \* workers whose token's callback is still to run
          ticket,       \* the worker's ticket in the current acquire
          inUse, waiters, nextTicket

vars == <<pc, cancelled, registered, firing, ticket, inUse, waiters, nextTicket>>

PC == {"idle", "called", "entering", "evaluating", "parking", "asleep",
       "woken", "holding", "notifying"}

At(where) == {w \in Workers : pc[w] \in where}

\* Nobody is inside a critical section that spans several actions.
MutexFree == At({"evaluating", "parking"}) = {}

\* Workers whose ticket is in the queue.
Queued == At({"evaluating", "parking", "asleep", "woken"})

Holders == At({"holding"})

\* A notify_all forgotten.
Unnotified == pc

\* notify_all: every sleeper has to take the mutex and look again.
Notified == [w \in Workers |-> IF pc[w] = "asleep" THEN "woken" ELSE pc[w]]

Init == /\ pc = [w \in Workers |-> "idle"]
        /\ cancelled = [w \in Workers |-> FALSE]
        /\ registered = [w \in Workers |-> FALSE]
        /\ firing = {}
        /\ ticket = [w \in Workers |-> 0]
        /\ inUse = 0 /\ waiters = <<>> /\ nextTicket = 0

-----------------------------------------------------------------------------
(* acquire *)

\* A worker calls acquire with the token of a new turn.
Call(w) ==
    /\ pc[w] = "idle" /\ nextTicket < MaxTickets /\ w \notin firing
    /\ pc' = [pc EXCEPT ![w] = "called"]
    /\ cancelled' = [cancelled EXCEPT ![w] = FALSE]
    /\ registered' = [registered EXCEPT ![w] = FALSE]
    /\ UNCHANGED <<firing, ticket, inUse, waiters, nextTicket>>

\* The check before the mutex: nullopt.
Refuse(w) ==
    /\ pc[w] = "called" /\ (cancelled[w] \/ Capacity = 0)
    /\ pc' = [pc EXCEPT ![w] = "idle"]
    /\ UNCHANGED <<cancelled, registered, firing, ticket, inUse, waiters, nextTicket>>

Enter(w) ==
    /\ pc[w] = "called" /\ ~cancelled[w] /\ Capacity # 0
    /\ pc' = [pc EXCEPT ![w] = "entering"]
    /\ UNCHANGED <<cancelled, registered, firing, ticket, inUse, waiters, nextTicket>>

\* A ticket and the callback, under the mutex.  A token cancelled since the
\* check runs the callback here, on this thread.
TakeTicket(w) ==
    /\ pc[w] = "entering" /\ MutexFree /\ nextTicket < MaxTickets
    /\ ticket' = [ticket EXCEPT ![w] = nextTicket]
    /\ nextTicket' = nextTicket + 1
    /\ waiters' = Append(waiters, nextTicket)
    /\ registered' = [registered EXCEPT ![w] = ~cancelled[w]]
    /\ pc' = [(IF cancelled[w] THEN Notified ELSE pc) EXCEPT ![w] = "evaluating"]
    /\ UNCHANGED <<cancelled, firing, inUse>>

\* A predicate that counts one slot too many, and one that forgets the queue.
SlotTooMany(w) == inUse <= Capacity /\ waiters # <<>> /\ Head(waiters) = ticket[w]
SlotForAnyone(w) == inUse < Capacity /\ waiters # <<>>

SlotForMe(w) == inUse < Capacity /\ waiters # <<>> /\ Head(waiters) = ticket[w]

Grant(w) ==
    /\ pc[w] = "evaluating" /\ ~cancelled[w] /\ SlotForMe(w)
    /\ waiters' = Tail(waiters)
    /\ inUse' = inUse + 1
    /\ pc' = [pc EXCEPT ![w] = "holding"]
    /\ UNCHANGED <<cancelled, registered, firing, ticket, nextTicket>>

\* The queue without its i-th ticket.
WithoutNth(i) ==
    [j \in 1..(Len(waiters) - 1) |-> waiters[IF j < i THEN j ELSE j + 1]]

\* A cancelled acquire that leaves its ticket in the queue.
WithdrawLeavingTicket(w) ==
    /\ pc[w] = "evaluating" /\ cancelled[w]
    /\ pc' = [pc EXCEPT ![w] = "notifying"]
    /\ UNCHANGED <<cancelled, registered, firing, ticket, inUse, waiters, nextTicket>>

Withdraw(w) ==
    /\ pc[w] = "evaluating" /\ cancelled[w]
    /\ \E i \in 1..Len(waiters) : /\ waiters[i] = ticket[w]
                                  /\ waiters' = WithoutNth(i)
    /\ pc' = [pc EXCEPT ![w] = "notifying"]
    /\ UNCHANGED <<cancelled, registered, firing, ticket, inUse, nextTicket>>

\* The predicate is false; the worker sleeps in a step of its own, because the
\* token's callback notifies without the mutex and may do so in between.
Park(w) ==
    /\ pc[w] = "evaluating" /\ ~cancelled[w] /\ ~SlotForMe(w)
    /\ pc' = [pc EXCEPT ![w] = "parking"]
    /\ UNCHANGED <<cancelled, registered, firing, ticket, inUse, waiters, nextTicket>>

Sleep(w) ==
    /\ pc[w] = "parking"
    /\ pc' = [pc EXCEPT ![w] = "asleep"]
    /\ UNCHANGED <<cancelled, registered, firing, ticket, inUse, waiters, nextTicket>>

\* A woken worker takes the mutex again.
Relock(w) ==
    /\ pc[w] = "woken" /\ MutexFree
    /\ pc' = [pc EXCEPT ![w] = "evaluating"]
    /\ UNCHANGED <<cancelled, registered, firing, ticket, inUse, waiters, nextTicket>>

\* The standard lets a condition variable wake without a notification.
Spurious(w) ==
    /\ pc[w] = "asleep"
    /\ pc' = [pc EXCEPT ![w] = "woken"]
    /\ UNCHANGED <<cancelled, registered, firing, ticket, inUse, waiters, nextTicket>>

-----------------------------------------------------------------------------
(* release, and the notify_all that release and a withdrawn acquire end with *)

Release(w) ==
    /\ pc[w] = "holding" /\ MutexFree
    /\ inUse' = IF inUse > 0 THEN inUse - 1 ELSE inUse
    /\ pc' = [pc EXCEPT ![w] = "notifying"]
    /\ UNCHANGED <<cancelled, registered, firing, ticket, waiters, nextTicket>>

Notify(w) ==
    /\ pc[w] = "notifying"
    /\ pc' = [Notified EXCEPT ![w] = "idle"]
    /\ UNCHANGED <<cancelled, registered, firing, ticket, inUse, waiters, nextTicket>>

-----------------------------------------------------------------------------
(* CancellationSource::cancel: the flag, then the callbacks *)

Cancel(w) ==
    /\ pc[w] # "idle" /\ ~cancelled[w]
    /\ cancelled' = [cancelled EXCEPT ![w] = TRUE]
    /\ firing' = IF registered[w] THEN firing \cup {w} ELSE firing
    /\ UNCHANGED <<pc, registered, ticket, inUse, waiters, nextTicket>>

FireCallback(w) ==
    /\ w \in firing
    /\ firing' = firing \ {w}
    /\ pc' = Notified
    /\ UNCHANGED <<cancelled, registered, ticket, inUse, waiters, nextTicket>>

-----------------------------------------------------------------------------
Next == \E w \in Workers :
           \/ Call(w) \/ Refuse(w) \/ Enter(w) \/ TakeTicket(w)
           \/ Grant(w) \/ Withdraw(w) \/ Park(w) \/ Sleep(w)
           \/ Relock(w) \/ Spurious(w)
           \/ Release(w) \/ Notify(w)
           \/ Cancel(w) \/ FireCallback(w)

Spec == Init /\ [][Next]_vars

\* A thread that can run runs; a mutex others keep taking is obtained in the
\* end; a provider call ends (it has timeouts), so a slot is given back.
\* Nothing forces a call, a cancellation or a spurious wake.
Fairness == \A w \in Workers :
    /\ WF_vars(Refuse(w) \/ Enter(w) \/ Grant(w) \/ Withdraw(w)
               \/ Park(w) \/ Sleep(w) \/ Notify(w))
    /\ WF_vars(FireCallback(w))
    /\ SF_vars(TakeTicket(w) \/ Relock(w) \/ Release(w))

FairSpec == Spec /\ Fairness

-----------------------------------------------------------------------------
(* Properties *)

\* Every variable keeps its type.
TypeOK == /\ pc \in [Workers -> PC]
          /\ cancelled \in [Workers -> BOOLEAN]
          /\ registered \in [Workers -> BOOLEAN]
          /\ firing \subseteq Workers
          /\ ticket \in [Workers -> Nat]
          /\ inUse \in Nat
          /\ waiters \in Seq(Nat)
          /\ nextTicket \in Nat

\* acquire and release keep inUse_ equal to the number of live Slots, and never
\* more than capacity_ Slots live at once, whatever is cancelled meanwhile.
CapacityRespected == /\ inUse = Cardinality(Holders)
                     /\ inUse <= Capacity

\* The oldest ticket is at the front and every ticket is used once.
QueueSorted ==
    /\ \A i, j \in 1..Len(waiters) : i < j => waiters[i] < waiters[j]
    /\ \A i \in 1..Len(waiters) : waiters[i] < nextTicket
    /\ \A v, w \in Queued : ticket[v] = ticket[w] => v = w

\* The queue holds the ticket of each worker still inside acquire and no other:
\* a cancelled acquire that left its ticket behind would block everyone.
NoAbandonedTicket ==
    /\ \A i \in 1..Len(waiters) : \E w \in Queued : ticket[w] = waiters[i]
    /\ \A w \in Queued : \E i \in 1..Len(waiters) : waiters[i] = ticket[w]

\* "Waiters are served in FIFO order": a worker that gets a slot has the oldest
\* ticket of all who are still inside acquire.
ServedInOrder ==
    [][\A w \in Workers : pc[w] = "evaluating" /\ pc'[w] = "holding"
         => \A v \in Queued : ticket[w] <= ticket[v]]_vars

\* Whoever sleeps in acquire can count on a notify_all to come: some other
\* worker holds a slot or is on its way to give up, take or notify.
NobodyStranded ==
    At({"asleep"}) # {} =>
        At({"holding", "notifying", "evaluating", "parking", "woken"}) # {}

\* Every acquire ends, with a slot or with nullopt, whatever is cancelled.
AcquireEnds == \A w \in Workers :
    (w \in Queued) ~> (pc[w] \in {"holding", "notifying", "idle"})

-----------------------------------------------------------------------------
(* The pool implements the abstract one. *)

Slots == INSTANCE SlotPool WITH held <- Holders

\* Every step of the pool grants one slot, gives one back or does neither.
ImplementsSlotPool == Slots!Spec
=============================================================================
