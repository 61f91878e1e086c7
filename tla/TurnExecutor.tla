----------------------------- MODULE TurnExecutor -----------------------------
(***************************************************************************)
(* TurnExecutor: the bounded pool of worker threads that runs the bodies   *)
(* the daemon's io thread submits (prompts, activations, commands), and    *)
(* the drain with which the coordinator stops it.                          *)
(*                                                                         *)
(* Every notification is made under the mutex, so evaluating a wait's      *)
(* predicate and going to sleep are one action, as is each critical        *)
(* section.                                                                *)
(***************************************************************************)
EXTENDS Integers, Sequences, FiniteSets

CONSTANTS Workers,      \* the worker threads
          Bodies,       \* bodies that may be submitted, each once
          Session,      \* the session each belongs to
          Capacity,     \* queue_capacity_
          None          \* no body

ASSUME WorkersAssumption  == IsFiniteSet(Workers) /\ Workers # {}
ASSUME CapacityAssumption == Capacity \in Nat
ASSUME NoneAssumption     == None \notin Bodies

VARIABLES
    pc,                 \* where each worker is
    task,               \* the body it holds, or None
    queue,              \* bodies waiting
    queued, active,     \* queued_by_session, active_by_session
    exited, stopping,
    drainer,            \* where the thread in drain is
    accepted,           \* bodies submit accepted, in order
    finished            \* bodies that ran to their end

vars == <<pc, task, queue, queued, active, exited, stopping, drainer, accepted, finished>>

Sessions == {Session[b] : b \in Bodies}

At(where) == {w \in Workers : pc[w] = where}

Init == /\ pc = [w \in Workers |-> "looking"]
        /\ task = [w \in Workers |-> None]
        /\ queue = <<>>
        /\ queued = [s \in Sessions |-> 0] /\ active = [s \in Sessions |-> 0]
        /\ exited = 0 /\ stopping = FALSE
        /\ drainer = "none"
        /\ accepted = <<>> /\ finished = {}

\* notify_all: the sleeping workers and the thread in drain look again.
NotifiedWorkers == [w \in Workers |-> IF pc[w] = "asleep" THEN "looking" ELSE pc[w]]
NotifiedDrainer == IF drainer = "waiting" THEN "looking" ELSE drainer

-----------------------------------------------------------------------------
(* submit *)

\* A full queue or a drain refuses.
Accepts == ~stopping /\ Len(queue) < Capacity

\* A notification that is left to the workers that are busy.
SubmitQuietly(b) ==
    /\ \A i \in 1..Len(accepted) : accepted[i] # b
    /\ Accepts
    /\ queue' = Append(queue, b)
    /\ accepted' = Append(accepted, b)
    /\ queued' = [queued EXCEPT ![Session[b]] = @ + 1]
    /\ \/ At("asleep") # Workers /\ UNCHANGED pc
       \/ At("asleep") = Workers /\ \E w \in Workers : pc' = [pc EXCEPT ![w] = "looking"]
    /\ UNCHANGED <<task, active, exited, stopping, drainer, finished>>

\* notify_one wakes one sleeper, if there is one; nobody waits in drain before
\* stopping is set.
Submit(b) ==
    /\ \A i \in 1..Len(accepted) : accepted[i] # b
    /\ Accepts
    /\ queue' = Append(queue, b)
    /\ accepted' = Append(accepted, b)
    /\ queued' = [queued EXCEPT ![Session[b]] = @ + 1]
    /\ \/ At("asleep") = {} /\ UNCHANGED pc
       \/ \E w \in At("asleep") : pc' = [pc EXCEPT ![w] = "looking"]
    /\ UNCHANGED <<task, active, exited, stopping, drainer, finished>>

-----------------------------------------------------------------------------
(* workerLoop *)

\* A body that is not counted as waiting any more and not yet as running.
TakeUncounted(w) ==
    /\ pc[w] = "looking" /\ queue # <<>>
    /\ task' = [task EXCEPT ![w] = Head(queue)]
    /\ queue' = Tail(queue)
    /\ queued' = [queued EXCEPT ![Session[Head(queue)]] = @ - 1]
    /\ pc' = [pc EXCEPT ![w] = "running"]
    /\ UNCHANGED <<active, exited, stopping, drainer, accepted, finished>>

Take(w) ==
    /\ pc[w] = "looking" /\ queue # <<>>
    /\ task' = [task EXCEPT ![w] = Head(queue)]
    /\ queue' = Tail(queue)
    /\ queued' = [queued EXCEPT ![Session[Head(queue)]] = @ - 1]
    /\ active' = [active EXCEPT ![Session[Head(queue)]] = @ + 1]
    /\ pc' = [pc EXCEPT ![w] = "running"]
    /\ UNCHANGED <<exited, stopping, drainer, accepted, finished>>

Sleep(w) ==
    /\ pc[w] = "looking" /\ queue = <<>> /\ ~stopping
    /\ pc' = [pc EXCEPT ![w] = "asleep"]
    /\ UNCHANGED <<task, queue, queued, active, exited, stopping, drainer, accepted,
                   finished>>

\* A condition variable may wake without a notification.
Spurious(w) ==
    /\ pc[w] = "asleep"
    /\ pc' = [pc EXCEPT ![w] = "looking"]
    /\ UNCHANGED <<task, queue, queued, active, exited, stopping, drainer, accepted,
                   finished>>

\* A worker that leaves as soon as the drain begins and one that does not tell the
\* thread in drain.
ExitAtOnce(w) ==
    /\ pc[w] = "looking" /\ stopping
    /\ exited' = exited + 1
    /\ pc' = [NotifiedWorkers EXCEPT ![w] = "exited"]
    /\ drainer' = NotifiedDrainer
    /\ UNCHANGED <<task, queue, queued, active, stopping, accepted, finished>>

ExitUntold(w) ==
    /\ pc[w] = "looking" /\ queue = <<>> /\ stopping
    /\ exited' = exited + 1
    /\ pc' = [pc EXCEPT ![w] = "exited"]
    /\ UNCHANGED <<task, queue, queued, active, stopping, drainer, accepted, finished>>

Exit(w) ==
    /\ pc[w] = "looking" /\ queue = <<>> /\ stopping
    /\ exited' = exited + 1
    /\ pc' = [NotifiedWorkers EXCEPT ![w] = "exited"]
    /\ drainer' = NotifiedDrainer
    /\ UNCHANGED <<task, queue, queued, active, stopping, accepted, finished>>

\* The body returns.
Finish(w) ==
    /\ pc[w] = "running"
    /\ finished' = finished \cup {task[w]}
    /\ pc' = [pc EXCEPT ![w] = "finishing"]
    /\ UNCHANGED <<task, queue, queued, active, exited, stopping, drainer, accepted>>

Account(w) ==
    /\ pc[w] = "finishing"
    /\ active' = [active EXCEPT ![Session[task[w]]] = @ - 1]
    /\ pc' = [NotifiedWorkers EXCEPT ![w] = "looking"]
    /\ task' = [task EXCEPT ![w] = None]
    /\ drainer' = NotifiedDrainer
    /\ UNCHANGED <<queue, queued, exited, stopping, accepted, finished>>

-----------------------------------------------------------------------------
(* drain *)

Drain ==
    /\ drainer \in {"none", "timed out"}
    /\ stopping' = TRUE
    /\ pc' = NotifiedWorkers
    /\ drainer' = "looking"
    /\ UNCHANGED <<task, queue, queued, active, exited, accepted, finished>>

DrainLook ==
    /\ drainer = "looking"
    /\ drainer' = IF exited = Cardinality(Workers) THEN "joining" ELSE "waiting"
    /\ UNCHANGED <<pc, task, queue, queued, active, exited, stopping, accepted, finished>>

\* The grace is over; the predicate is evaluated once more.
DrainTimeout ==
    /\ drainer = "waiting"
    /\ drainer' = IF exited = Cardinality(Workers) THEN "joining" ELSE "timed out"
    /\ UNCHANGED <<pc, task, queue, queued, active, exited, stopping, accepted, finished>>

\* The workers are joined and the counters cleared.
Join ==
    /\ drainer = "joining"
    /\ queued' = [s \in Sessions |-> 0] /\ active' = [s \in Sessions |-> 0]
    /\ drainer' = "quiesced"
    /\ UNCHANGED <<pc, task, queue, exited, stopping, accepted, finished>>

-----------------------------------------------------------------------------
Work(w) == Take(w) \/ Sleep(w) \/ Exit(w) \/ Finish(w) \/ Account(w)

Next == \/ \E b \in Bodies : Submit(b)
        \/ \E w \in Workers : Work(w) \/ Spurious(w)
        \/ Drain \/ DrainLook \/ DrainTimeout \/ Join

Spec == Init /\ [][Next]_vars

\* A worker that can run runs, and a body ends (provider calls, tools and
\* permission requests have timeouts).  Nothing makes a submit or a drain come.
Fairness == /\ \A w \in Workers : WF_vars(Work(w))
            /\ WF_vars(DrainLook \/ Join)

FairSpec == Spec /\ Fairness

-----------------------------------------------------------------------------
(* Properties *)

\* Every variable keeps its type.
TypeOK == /\ pc \in [Workers -> {"looking", "asleep", "running", "finishing", "exited"}]
          /\ task \in [Workers -> Bodies \cup {None}]
          /\ queue \in Seq(Bodies)
          /\ queued \in [Sessions -> Nat] /\ active \in [Sessions -> Nat]
          /\ exited \in Nat /\ stopping \in BOOLEAN
          /\ drainer \in {"none", "looking", "waiting", "timed out", "joining", "quiesced"}
          /\ accepted \in Seq(Bodies) /\ finished \subseteq Bodies

Busy == At("running") \cup At("finishing")

\* 24-D4 "queued bodies plus bodies currently running on a worker for one
\* session": the counters deleteSession relies on agree with the queue and the
\* workers, also when two bodies of a session run at once.
InFlightExact ==
    \A s \in Sessions :
        /\ queued[s] = Cardinality({i \in 1..Len(queue) : Session[queue[i]] = s})
        /\ active[s] = Cardinality({w \in Busy : Session[task[w]] = s})

\* No body waits while a worker sleeps on: for each one in the queue a worker is
\* on its way, although submit wakes only one and a busy worker may take the
\* body the woken one came for.
NobodySleepsBesideWork ==
    At("asleep") # {} => Len(queue) <= Cardinality(At("looking"))

\* 24-D3 `Quiesced`: every worker has exited, every accepted body has run and no
\* further one is accepted.
QuiescedIsFinal ==
    drainer = "quiesced" =>
        /\ At("exited") = Workers /\ ~Accepts
        /\ \A i \in 1..Len(accepted) : accepted[i] \in finished

\* Every accepted body runs, whether a drain comes or not.
AcceptedBodiesRun ==
    \A b \in Bodies : (\E i \in 1..Len(accepted) : accepted[i] = b) ~> (b \in finished)

\* A drain that is given the time joins every worker.
DrainEnds == (drainer # "none") ~> (drainer \in {"timed out", "quiesced"})
=============================================================================
