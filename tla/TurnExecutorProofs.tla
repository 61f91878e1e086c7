-------------------------- MODULE TurnExecutorProofs --------------------------
(***************************************************************************)
(* Proofs about the executor for any finite set of workers, any bodies and *)
(* sessions and any capacity of the queue.                                 *)
(*                                                                         *)
(* The counters a drain reads are cardinalities: of the indices of the     *)
(* queue that hold a body of a session, and of the workers that hold one.  *)
(* The first half of the module says how these change when a body is       *)
(* queued and taken; the inductive invariant IInv adds to the properties   *)
(* where an accepted body can be (NothingLost) and what the exit of a      *)
(* worker means (ExitsCounted, ExitsLast).                                 *)
(***************************************************************************)
EXTENDS TurnExecutor, FiniteSetTheorems, FunctionTheorems, SequenceTheorems, TLAPS

USE WorkersAssumption, CapacityAssumption, NoneAssumption

\* A worker holds a body exactly while it is busy with it.
TasksHeld == \A w \in Workers : pc[w] \in {"running", "finishing"} <=> task[w] # None

\* exited is the number of workers that left their loop.
ExitsCounted == exited = Cardinality(At("exited"))

\* A worker leaves only when the drain has begun and nothing is queued, and the
\* workers are joined when all of them have.
ExitsLast == /\ drainer # "none" <=> stopping
             /\ At("exited") # {} => stopping /\ queue = <<>>
             /\ drainer \in {"joining", "quiesced"} => At("exited") = Workers

\* An accepted body waits, runs or has run.
Somewhere(b) == \/ b \in finished
                \/ \E j \in 1..Len(queue) : queue[j] = b
                \/ \E w \in Workers : pc[w] = "running" /\ task[w] = b

NothingLost == \A i \in 1..Len(accepted) : Somewhere(accepted[i])

IInv == /\ TypeOK /\ TasksHeld /\ InFlightExact /\ NobodySleepsBesideWork
        /\ ExitsCounted /\ ExitsLast /\ NothingLost

-----------------------------------------------------------------------------
(* Counting *)

Waiting(q, s) == {i \in 1..Len(q) : Session[q[i]] = s}
Running(s)    == {w \in Busy : Session[task[w]] = s}

LEMMA WorkersFinite ==
    \A S : S \subseteq Workers => IsFiniteSet(S) /\ Cardinality(S) \in Nat
BY FS_Subset, FS_CardinalityType

LEMMA AtFinite ==
    \A where : At(where) \subseteq Workers /\ IsFiniteSet(At(where))
               /\ Cardinality(At(where)) \in Nat
BY WorkersFinite DEF At

LEMMA WaitingFinite ==
    ASSUME NEW q \in Seq(Bodies), NEW s
    PROVE  IsFiniteSet(Waiting(q, s)) /\ Cardinality(Waiting(q, s)) \in Nat
<1>1. Len(q) \in Nat /\ IsFiniteSet(1..Len(q))
    BY FS_Interval
<1>2. Waiting(q, s) \subseteq 1..Len(q)
    BY DEF Waiting
<1> QED  BY <1>1, <1>2, FS_Subset, FS_CardinalityType

\* A body put at the end of the queue counts once more for its own session.
LEMMA CountQueued ==
    ASSUME NEW q \in Seq(Bodies), NEW b \in Bodies, NEW s
    PROVE  Cardinality(Waiting(Append(q, b), s)) =
             Cardinality(Waiting(q, s)) + (IF Session[b] = s THEN 1 ELSE 0)
<1> DEFINE n == Len(q) + 1
<1>1. /\ Len(q) \in Nat /\ Len(Append(q, b)) = n /\ Append(q, b)[n] = b
      /\ \A i \in 1..Len(q) : Append(q, b)[i] = q[i]
    OBVIOUS
<1>2. Waiting(Append(q, b), s) =
        IF Session[b] = s THEN Waiting(q, s) \cup {n} ELSE Waiting(q, s)
    BY <1>1 DEF Waiting
<1>3. n \notin Waiting(q, s)
    BY <1>1 DEF Waiting
<1>4. Cardinality(Waiting(q, s) \cup {n}) = Cardinality(Waiting(q, s)) + 1
    BY <1>3, WaitingFinite, FS_AddElement
<1> HIDE DEF n
<1> QED  BY <1>2, <1>4, WaitingFinite

\* The body at the head of the queue counts for its own session until it is taken.
LEMMA CountTaken ==
    ASSUME NEW q \in Seq(Bodies), q # <<>>, NEW s
    PROVE  Cardinality(Waiting(q, s)) =
             Cardinality(Waiting(Tail(q), s)) + (IF Session[Head(q)] = s THEN 1 ELSE 0)
<1> DEFINE R == Waiting(q, s) \ {1}
           up == [i \in Waiting(Tail(q), s) |-> i + 1]
<1>1. /\ Len(q) \in Nat \ {0} /\ Len(Tail(q)) = Len(q) - 1 /\ Head(q) = q[1]
      /\ Tail(q) \in Seq(Bodies)
      /\ \A i \in 1..(Len(q) - 1) : Tail(q)[i] = q[i + 1]
    OBVIOUS
<1>2. up \in Bijection(Waiting(Tail(q), s), R)
  <2>1. up \in [Waiting(Tail(q), s) -> R]
      BY <1>1 DEF Waiting
  <2>2. \A i, j \in Waiting(Tail(q), s) : up[i] = up[j] => i = j
      BY <1>1 DEF Waiting
  <2>3. ASSUME NEW j \in R PROVE \E i \in Waiting(Tail(q), s) : up[i] = j
    <3>1. j \in 2..Len(q) /\ Session[q[j]] = s
        BY <1>1 DEF Waiting
    <3>2. j - 1 \in 1..(Len(q) - 1) /\ (j - 1) + 1 = j
        BY <1>1, <3>1
    <3>3. j - 1 \in Waiting(Tail(q), s)
        BY <1>1, <3>1, <3>2 DEF Waiting
    <3> QED  BY <3>2, <3>3
  <2> HIDE DEF up, R
  <2> QED  BY <2>1, <2>2, <2>3, Fun_IsBij
<1>3. Cardinality(R) = Cardinality(Waiting(Tail(q), s))
  <2> HIDE DEF up, R
  <2> QED  BY <1>1, <1>2, WaitingFinite, FS_Bijection DEF ExistsBijection
<1>4. 1 \in Waiting(q, s) <=> Session[Head(q)] = s
    BY <1>1 DEF Waiting
<1>5. Cardinality(R) = IF 1 \in Waiting(q, s) THEN Cardinality(Waiting(q, s)) - 1
                       ELSE Cardinality(Waiting(q, s))
    BY WaitingFinite, FS_RemoveElement
<1>6. Cardinality(Waiting(q, s)) \in Nat /\ Cardinality(Waiting(Tail(q), s)) \in Nat
    BY <1>1, WaitingFinite
<1> QED  BY <1>3, <1>4, <1>5, <1>6

LEMMA AppendFacts ==
    ASSUME NEW q \in Seq(Bodies), NEW b \in Bodies
    PROVE  /\ Append(q, b) \in Seq(Bodies)
           /\ Len(Append(q, b)) = Len(q) + 1 /\ Append(q, b)[Len(q) + 1] = b
           /\ \A i \in 1..Len(q) : Append(q, b)[i] = q[i] /\ i \in 1..Len(Append(q, b))
           /\ Len(q) + 1 \in 1..Len(Append(q, b))
           /\ \A i \in 1..Len(Append(q, b)) : i \in 1..Len(q) \/ i = Len(q) + 1
OBVIOUS

-----------------------------------------------------------------------------
(* What the steps do to the queue and to the workers *)

\* The steps that move no body.
Moves(w) == Sleep(w) \/ Spurious(w) \/ Exit(w) \/ Finish(w)
Drains   == Drain \/ DrainLook \/ DrainTimeout

LEMMA NextCases ==
    ASSUME [Next]_vars
    PROVE  \/ \E b \in Bodies : Submit(b)
           \/ \E w \in Workers : Take(w) \/ Account(w) \/ Moves(w)
           \/ Drains \/ Join \/ UNCHANGED vars
BY DEF Next, Work, Moves, Drains

\* They leave the bodies with the workers and every counter as they were.
LEMMA MovesFacts ==
    ASSUME IInv, (\E w \in Workers : Moves(w)) \/ Drains \/ UNCHANGED vars
    PROVE  /\ Busy' = Busy
           /\ UNCHANGED <<task, queue, queued, active, accepted>>
<1> USE DEF IInv, TypeOK, Busy, At, NotifiedWorkers
<1>1. ASSUME NEW w \in Workers, Moves(w)
      PROVE  Busy' = Busy /\ UNCHANGED <<task, queue, queued, active, accepted>>
    BY <1>1 DEF Moves, Sleep, Spurious, Exit, Finish
<1>2. CASE Drains
    BY <1>2 DEF Drains, Drain, DrainLook, DrainTimeout
<1>3. CASE UNCHANGED vars
    BY <1>3 DEF vars
<1> QED  BY <1>1, <1>2, <1>3

\* A body taken from the queue is with the worker that took it.
LEMMA TakeFacts ==
    ASSUME IInv, NEW w \in Workers, Take(w)
    PROVE  /\ Head(queue) \in Bodies /\ Tail(queue) \in Seq(Bodies)
           /\ Session[Head(queue)] \in Sessions
           /\ \A s : w \notin Running(s)
           /\ \A s : Running(s)' = IF Session[Head(queue)] = s THEN Running(s) \cup {w}
                                   ELSE Running(s)
<1>1. Head(queue) \in Bodies /\ Tail(queue) \in Seq(Bodies)
    BY HeadTailProperties DEF IInv, TypeOK, Take
<1>2. Busy' = Busy \cup {w} /\ w \notin Busy
    BY DEF IInv, TypeOK, Take, Busy, At
<1>3. task' = [task EXCEPT ![w] = Head(queue)] /\ task \in [Workers -> Bodies \cup {None}]
    BY DEF IInv, TypeOK, Take
<1>4. Busy \subseteq Workers
    BY DEF Busy, At
<1> QED  BY <1>1, <1>2, <1>3, <1>4 DEF Running, Sessions

\* A body that is accounted for is with no worker any more.
LEMMA AccountFacts ==
    ASSUME IInv, NEW w \in Workers, Account(w)
    PROVE  /\ task[w] \in Bodies /\ Session[task[w]] \in Sessions
           /\ w \in Running(Session[task[w]])
           /\ \A s : Running(s)' = IF Session[task[w]] = s THEN Running(s) \ {w}
                                   ELSE Running(s)
<1>1. task[w] \in Bodies
    BY DEF IInv, TypeOK, TasksHeld, Account
<1>2. Busy' = Busy \ {w} /\ w \in Busy
    BY DEF IInv, TypeOK, Account, Busy, At, NotifiedWorkers
<1>3. task' = [task EXCEPT ![w] = None] /\ task \in [Workers -> Bodies \cup {None}]
    BY DEF IInv, TypeOK, Account
<1>4. Busy \subseteq Workers
    BY DEF Busy, At
<1> QED  BY <1>1, <1>2, <1>3, <1>4 DEF Running, Sessions

-----------------------------------------------------------------------------
(* The parts of the invariant *)

LEMMA RunningFinite == \A s : IsFiniteSet(Running(s)) /\ Cardinality(Running(s)) \in Nat
BY WorkersFinite DEF Running, Busy, At

\* The two counters of each session.
Counters == /\ queued \in [Sessions -> Nat] /\ active \in [Sessions -> Nat]
            /\ \A s \in Sessions : /\ queued[s] = Cardinality(Waiting(queue, s))
                                   /\ active[s] = Cardinality(Running(s))

LEMMA CountersAreExact == TypeOK /\ InFlightExact => Counters
BY DEF TypeOK, InFlightExact, Counters, Waiting, Running

LEMMA CountersStep == IInv /\ [Next]_vars => Counters'
<1> SUFFICES ASSUME IInv, [Next]_vars PROVE Counters'
    OBVIOUS
<1>0. Counters /\ queue \in Seq(Bodies)
    BY CountersAreExact DEF IInv, TypeOK
<1>1. ASSUME NEW b \in Bodies, Submit(b) PROVE Counters'
  <2>1. \A s : Running(s)' = Running(s)
    <3>1. Busy' = Busy /\ task' = task
        BY <1>1 DEF Submit, Busy, At, IInv, TypeOK
    <3> QED  BY <3>1 DEF Running
  <2>2. /\ queue' = Append(queue, b) /\ active' = active
        /\ queued' = [queued EXCEPT ![Session[b]] = @ + 1]
      BY <1>1 DEF Submit
  <2>3. Session[b] \in Sessions
      BY DEF Sessions
  <2>4. \A s \in Sessions : queued'[s] = Cardinality(Waiting(queue', s))
      BY <1>0, <2>2, <2>3, CountQueued, WaitingFinite DEF Counters
  <2> QED  BY <1>0, <2>1, <2>2, <2>3, <2>4 DEF Counters
<1>2. ASSUME NEW w \in Workers, Take(w) PROVE Counters'
  <2> DEFINE h == Session[Head(queue)]
  <2>1. /\ queue # <<>> /\ queue' = Tail(queue)
        /\ queued' = [queued EXCEPT ![h] = @ - 1]
        /\ active' = [active EXCEPT ![h] = @ + 1]
      BY <1>2 DEF Take
  <2>2. /\ h \in Sessions /\ Tail(queue) \in Seq(Bodies)
        /\ \A s : w \notin Running(s)
        /\ \A s : Running(s)' = IF h = s THEN Running(s) \cup {w} ELSE Running(s)
      BY <1>2, TakeFacts
  <2> HIDE DEF h
  <2>3. \A s \in Sessions : queued'[s] = Cardinality(Waiting(queue', s))
                            /\ queued'[s] \in Nat
    <3>1. \A s : Cardinality(Waiting(queue, s)) =
                   Cardinality(Waiting(queue', s)) + (IF h = s THEN 1 ELSE 0)
        BY <1>0, <2>1, CountTaken DEF h
    <3>2. \A s : Cardinality(Waiting(queue', s)) \in Nat
        BY <2>1, <2>2, WaitingFinite
    <3> QED  BY <1>0, <2>1, <2>2, <3>1, <3>2 DEF Counters
  <2>4. \A s \in Sessions : active'[s] = Cardinality(Running(s)') /\ active'[s] \in Nat
    <3>1. \A s : Cardinality(Running(s)') =
                   IF h = s THEN Cardinality(Running(s)) + 1 ELSE Cardinality(Running(s))
        BY <2>2, RunningFinite, FS_AddElement
    <3> QED  BY <1>0, <2>1, <2>2, <3>1 DEF Counters
  <2> QED  BY <1>0, <2>1, <2>3, <2>4 DEF Counters
<1>3. ASSUME NEW w \in Workers, Account(w) PROVE Counters'
  <2> DEFINE h == Session[task[w]]
  <2>1. queue' = queue /\ queued' = queued /\ active' = [active EXCEPT ![h] = @ - 1]
      BY <1>3 DEF Account
  <2>2. /\ h \in Sessions /\ w \in Running(h)
        /\ \A s : Running(s)' = IF h = s THEN Running(s) \ {w} ELSE Running(s)
      BY <1>3, AccountFacts
  <2> HIDE DEF h
  <2>3. \A s : Cardinality(Running(s)') =
                 IF h = s THEN Cardinality(Running(s)) - 1 ELSE Cardinality(Running(s))
      BY <2>2, RunningFinite, FS_RemoveElement
  <2>4. \A s : Cardinality(Running(s)') \in Nat
    <3>1. \A s : IsFiniteSet(Running(s) \ {w})
        BY RunningFinite, FS_RemoveElement
    <3> QED  BY <2>2, <3>1, RunningFinite, FS_CardinalityType
  <2> QED  BY <1>0, <2>1, <2>2, <2>3, <2>4 DEF Counters
<1>4. CASE Join
  <2>1. At("exited") = Workers /\ queue = <<>>
      BY <1>4 DEF Join, IInv, ExitsLast
  <2>2. \A s : Waiting(queue', s) = {} /\ Running(s)' = {}
      BY <1>4, <2>1 DEF Join, Waiting, Running, Busy, At, IInv, TypeOK
  <2> QED  BY <1>4, <2>2, FS_EmptySet DEF Join, Counters
<1>5. ASSUME (\E w \in Workers : Moves(w)) \/ Drains \/ UNCHANGED vars PROVE Counters'
  <2>1. Busy' = Busy /\ UNCHANGED <<task, queue, queued, active>>
      BY <1>5, MovesFacts
  <2> QED  BY <1>0, <2>1 DEF Counters, Running
<1> QED  BY <1>1, <1>2, <1>3, <1>4, <1>5, NextCases

LEMMA TypeStep == IInv /\ [Next]_vars => TypeOK' /\ TasksHeld'
<1> SUFFICES ASSUME IInv, [Next]_vars PROVE TypeOK' /\ TasksHeld'
    OBVIOUS
<1>0. queued' \in [Sessions -> Nat] /\ active' \in [Sessions -> Nat]
    BY CountersStep DEF Counters
<1> USE DEF IInv, TypeOK, TasksHeld, NotifiedWorkers, NotifiedDrainer
<1>1. ASSUME NEW b \in Bodies, Submit(b) PROVE TypeOK' /\ TasksHeld'
  <2>1. queue' \in Seq(Bodies) /\ accepted' \in Seq(Bodies)
    <3>1. queue' = Append(queue, b) /\ accepted' = Append(accepted, b)
        BY <1>1 DEF Submit
    <3>2. queue \in Seq(Bodies) /\ accepted \in Seq(Bodies)
        OBVIOUS
    <3> QED  BY <3>1, <3>2, AppendFacts
  <2>2. pc' = pc \/ \E w \in At("asleep") : pc' = [pc EXCEPT ![w] = "looking"]
      BY <1>1 DEF Submit
  <2>3. UNCHANGED <<task, exited, stopping, drainer, finished>>
      BY <1>1 DEF Submit
  <2>4. pc' \in [Workers -> {"looking", "asleep", "running", "finishing", "exited"}]
        /\ TasksHeld'
      BY <2>2, <2>3 DEF At
  <2> QED  BY <1>0, <2>1, <2>3, <2>4
<1>2. ASSUME NEW w \in Workers, Take(w) PROVE TypeOK' /\ TasksHeld'
  <2>1. Head(queue) \in Bodies /\ Tail(queue) \in Seq(Bodies)
      BY <1>2, TakeFacts
  <2> QED  BY <1>0, <1>2, <2>1 DEF Take
<1>3. ASSUME NEW w \in Workers, Account(w) PROVE TypeOK' /\ TasksHeld'
    BY <1>0, <1>3 DEF Account
<1>4. ASSUME NEW w \in Workers, Moves(w) PROVE TypeOK' /\ TasksHeld'
  <2>1. CASE Sleep(w) \/ Spurious(w)
      BY <1>0, <1>4, <2>1 DEF Sleep, Spurious
  <2>2. CASE Exit(w)
    <3>1. /\ pc' = [NotifiedWorkers EXCEPT ![w] = "exited"] /\ exited' = exited + 1
          /\ drainer' = NotifiedDrainer /\ pc[w] = "looking"
          /\ UNCHANGED <<task, queue, stopping, accepted, finished>>
        BY <2>2 DEF Exit
    <3>2. pc' \in [Workers -> {"looking", "asleep", "running", "finishing", "exited"}]
          /\ TasksHeld'
        BY <3>1
    <3>3. /\ queue \in Seq(Bodies) /\ accepted \in Seq(Bodies) /\ finished \subseteq Bodies
          /\ task \in [Workers -> Bodies \cup {None}] /\ stopping \in BOOLEAN
        OBVIOUS
    <3>4. exited \in Nat
        OBVIOUS
    <3>5. drainer \in {"none", "looking", "waiting", "timed out", "joining", "quiesced"}
        OBVIOUS
    <3> HIDE DEF IInv, TypeOK, TasksHeld, NotifiedWorkers
    <3>6. exited' \in Nat
      <4>1. exited' = exited + 1
          BY <3>1
      <4> QED  BY <4>1, <3>4
    <3>7. drainer' \in {"none", "looking", "waiting", "timed out", "joining", "quiesced"}
      <4>1. drainer' = NotifiedDrainer
          BY <3>1
      <4> QED  BY <4>1, <3>5
    <3> QED  BY <1>0, <3>1, <3>2, <3>3, <3>6, <3>7 DEF TypeOK
  <2>3. CASE Finish(w)
      BY <1>0, <1>4, <2>3 DEF Finish
  <2> QED  BY <1>4, <2>1, <2>2, <2>3 DEF Moves
<1>5. CASE Drains \/ Join
    BY <1>0, <1>5 DEF Drains, Drain, DrainLook, DrainTimeout, Join
<1>6. CASE UNCHANGED vars
    BY <1>6 DEF vars
<1> QED  BY <1>1, <1>2, <1>3, <1>4, <1>5, <1>6, NextCases

\* The set of the exited workers grows by the one that leaves its loop.
LEMMA ExitedFacts ==
    ASSUME IInv, [Next]_vars
    PROVE  \/ \E w \in Workers : /\ Exit(w) /\ w \notin At("exited")
                                 /\ At("exited")' = At("exited") \cup {w}
           \/ At("exited")' = At("exited") /\ exited' = exited
<1> USE DEF IInv, TypeOK, At, NotifiedWorkers
<1>1. ASSUME NEW b \in Bodies, Submit(b)
      PROVE  At("exited")' = At("exited") /\ exited' = exited
    BY <1>1 DEF Submit
<1>2. ASSUME NEW w \in Workers, Exit(w)
      PROVE  w \notin At("exited") /\ At("exited")' = At("exited") \cup {w}
    BY <1>2 DEF Exit
<1>3. ASSUME NEW w \in Workers, Take(w) \/ Account(w) \/ Sleep(w) \/ Spurious(w) \/ Finish(w)
      PROVE  At("exited")' = At("exited") /\ exited' = exited
    BY <1>3 DEF Take, Account, Sleep, Spurious, Finish
<1>4. CASE Drains \/ Join \/ UNCHANGED vars
    BY <1>4 DEF Drains, Drain, DrainLook, DrainTimeout, Join, vars
<1> QED  BY <1>1, <1>2, <1>3, <1>4, NextCases DEF Moves

LEMMA ExitsCountedStep == IInv /\ [Next]_vars => ExitsCounted'
<1> SUFFICES ASSUME IInv, [Next]_vars PROVE ExitsCounted'
    OBVIOUS
<1>1. ASSUME NEW w \in Workers, Exit(w), w \notin At("exited"),
             At("exited")' = At("exited") \cup {w}
      PROVE  ExitsCounted'
  <2>1. Cardinality(At("exited") \cup {w}) = Cardinality(At("exited")) + 1
      BY <1>1, AtFinite, FS_AddElement
  <2>2. exited' = exited + 1 /\ exited = Cardinality(At("exited"))
      BY <1>1 DEF Exit, IInv, ExitsCounted
  <2> QED  BY <1>1, <2>1, <2>2 DEF ExitsCounted
<1>2. CASE At("exited")' = At("exited") /\ exited' = exited
    BY <1>2 DEF IInv, ExitsCounted
<1> QED  BY <1>1, <1>2, ExitedFacts

LEMMA ExitsLastStep == IInv /\ [Next]_vars => ExitsLast'
<1> SUFFICES ASSUME IInv, [Next]_vars PROVE ExitsLast'
    OBVIOUS
<1> USE DEF IInv
<1>1. drainer' # "none" <=> stopping'
  <2> USE DEF ExitsLast, NotifiedDrainer
  <2>1. ASSUME NEW b \in Bodies, Submit(b) PROVE drainer' # "none" <=> stopping'
      BY <2>1 DEF Submit
  <2>2. ASSUME NEW w \in Workers, Take(w) \/ Account(w) \/ Moves(w)
        PROVE  drainer' # "none" <=> stopping'
      BY <2>2 DEF Take, Account, Moves, Sleep, Spurious, Exit, Finish
  <2>3. CASE Drains \/ Join \/ UNCHANGED vars
    <3>1. CASE Drains \/ Join
        BY <3>1 DEF Drains, Drain, DrainLook, DrainTimeout, Join
    <3>2. CASE UNCHANGED vars
        BY <3>2 DEF vars
    <3> QED  BY <2>3, <3>1, <3>2
  <2> QED  BY <2>1, <2>2, <2>3, NextCases
<1>2. stopping => stopping' /\ (queue = <<>> => queue' = <<>>)
  <2>1. ASSUME NEW b \in Bodies, Submit(b), stopping PROVE FALSE
      BY <2>1 DEF Submit, Accepts
  <2>2. ASSUME NEW w \in Workers, Take(w) \/ Account(w) \/ Moves(w), stopping
        PROVE  stopping' /\ (queue = <<>> => queue' = <<>>)
      BY <2>2 DEF Take, Account, Moves, Sleep, Spurious, Exit, Finish
  <2>3. ASSUME Drains \/ Join \/ UNCHANGED vars, stopping
        PROVE  stopping' /\ (queue = <<>> => queue' = <<>>)
      BY <2>3 DEF Drains, Drain, DrainLook, DrainTimeout, Join, vars
  <2> QED  BY <2>1, <2>2, <2>3, NextCases
<1>3. At("exited")' # {} => stopping' /\ queue' = <<>>
  <2>1. ASSUME NEW w \in Workers, Exit(w) PROVE stopping' /\ queue' = <<>>
      BY <2>1 DEF Exit
  <2> QED  BY <1>2, <2>1, ExitedFacts DEF ExitsLast
<1>4. drainer' \in {"joining", "quiesced"} => At("exited")' = Workers
  <2>1. drainer \in {"joining", "quiesced"} => At("exited")' = Workers
    <3>1. At("exited")' \subseteq Workers
        BY DEF At
    <3> QED  BY <3>1, ExitedFacts DEF ExitsLast
  <2>2. CASE DrainLook \/ DrainTimeout
    <3>1. exited = Cardinality(Workers) => At("exited") = Workers
        BY AtFinite, FS_Subset DEF ExitsCounted
    <3>2. At("exited")' = At("exited")
        BY <2>2 DEF DrainLook, DrainTimeout, At
    <3> QED  BY <2>2, <3>1, <3>2 DEF DrainLook, DrainTimeout
  <2>3. ASSUME ~(DrainLook \/ DrainTimeout), drainer' \in {"joining", "quiesced"}
        PROVE  drainer \in {"joining", "quiesced"}
    <3> USE DEF NotifiedDrainer
    <3>1. ASSUME NEW b \in Bodies, Submit(b) PROVE drainer' = drainer
        BY <3>1 DEF Submit
    <3>2. ASSUME NEW w \in Workers, Take(w) \/ Account(w) \/ Moves(w)
          PROVE  drainer' \in {drainer, "looking"}
        BY <3>2 DEF Take, Account, Moves, Sleep, Spurious, Exit, Finish
    <3>3. CASE Drain \/ Join \/ UNCHANGED vars
        BY <2>3, <3>3 DEF Drain, Join, vars
    <3> QED  BY <2>3, <3>1, <3>2, <3>3, NextCases DEF Drains
  <2> QED  BY <2>1, <2>2, <2>3
<1> QED  BY <1>1, <1>3, <1>4 DEF ExitsLast

\* A body submitted wakes a sleeper, one taken is taken by a worker that is awake,
\* and a worker goes to sleep only over an empty queue.
LEMMA SleepersStep == IInv /\ [Next]_vars => NobodySleepsBesideWork'
<1> SUFFICES ASSUME IInv, [Next]_vars, At("asleep")' # {}
             PROVE  Len(queue') <= Cardinality(At("looking")')
    BY DEF NobodySleepsBesideWork
<1>0. /\ queue \in Seq(Bodies) /\ Len(queue) \in Nat
      /\ At("asleep") # {} => Len(queue) <= Cardinality(At("looking"))
      /\ pc \in [Workers -> {"looking", "asleep", "running", "finishing", "exited"}]
      /\ Cardinality(At("looking")) \in Nat
  <2>1. /\ queue \in Seq(Bodies)
        /\ pc \in [Workers -> {"looking", "asleep", "running", "finishing", "exited"}]
      BY DEF IInv, TypeOK
  <2>2. At("asleep") # {} => Len(queue) <= Cardinality(At("looking"))
      BY DEF IInv, NobodySleepsBesideWork
  <2> QED  BY <2>1, <2>2, AtFinite, LenProperties
<1>1. ASSUME NEW b \in Bodies, Submit(b) PROVE Len(queue') <= Cardinality(At("looking")')
  <2>1. Len(queue') = Len(queue) + 1
      BY <1>0, <1>1 DEF Submit
  <2>2. At("asleep") # {}
      BY <1>0, <1>1 DEF Submit, At
  <2>3. PICK w \in At("asleep") : pc' = [pc EXCEPT ![w] = "looking"]
      BY <1>1, <2>2 DEF Submit
  <2>4. w \notin At("looking") /\ At("looking")' = At("looking") \cup {w}
      BY <1>0, <2>3 DEF At
  <2>5. Cardinality(At("looking")') = Cardinality(At("looking")) + 1
      BY <2>4, AtFinite, FS_AddElement
  <2> QED  BY <1>0, <2>1, <2>2, <2>5
<1>2. ASSUME NEW w \in Workers, Take(w) PROVE Len(queue') <= Cardinality(At("looking")')
  <2>1. Len(queue') = Len(queue) - 1
      BY <1>0, <1>2, HeadTailProperties DEF Take
  <2>2. /\ w \in At("looking") /\ At("looking")' = At("looking") \ {w}
        /\ At("asleep")' = At("asleep")
      BY <1>0, <1>2 DEF Take, At
  <2>3. Cardinality(At("looking")') = Cardinality(At("looking")) - 1
      BY <2>2, AtFinite, FS_RemoveElement
  <2>4. Len(queue) <= Cardinality(At("looking"))
      BY <1>0, <2>2
  <2> QED  BY <1>0, <2>1, <2>3, <2>4
<1>3. ASSUME NEW w \in Workers, Sleep(w) PROVE Len(queue') <= Cardinality(At("looking")')
  <2>1. Len(queue') = 0
      BY <1>3 DEF Sleep
  <2>2. Cardinality(At("looking")') \in Nat
    <3>1. At("looking")' \subseteq Workers
        BY DEF At
    <3> QED  BY <3>1, WorkersFinite
  <2> QED  BY <2>1, <2>2
<1>4. ASSUME NEW w \in Workers, Spurious(w)
      PROVE  Len(queue') <= Cardinality(At("looking")')
  <2>1. /\ w \in At("asleep") /\ w \notin At("looking") /\ queue' = queue
        /\ At("looking")' = At("looking") \cup {w}
      BY <1>0, <1>4 DEF Spurious, At
  <2>2. Cardinality(At("looking")') = Cardinality(At("looking")) + 1
      BY <2>1, AtFinite, FS_AddElement
  <2>3. Len(queue) <= Cardinality(At("looking"))
      BY <1>0, <2>1
  <2> QED  BY <1>0, <2>1, <2>2, <2>3
<1>5. ASSUME NEW w \in Workers, Exit(w) \/ Account(w) PROVE FALSE
    BY <1>0, <1>5 DEF Exit, Account, NotifiedWorkers, At
<1>6. ASSUME Drain PROVE FALSE
    BY <1>0, <1>6 DEF Drain, NotifiedWorkers, At
<1>7. ASSUME (\E w \in Workers : Finish(w)) \/ DrainLook \/ DrainTimeout \/ Join
             \/ UNCHANGED vars
      PROVE  Len(queue') <= Cardinality(At("looking")')
  <2>1. At("looking")' = At("looking") /\ At("asleep")' = At("asleep") /\ queue' = queue
      BY <1>0, <1>7 DEF Finish, DrainLook, DrainTimeout, Join, vars, At
  <2> QED  BY <1>0, <2>1
<1> QED  BY <1>1, <1>2, <1>3, <1>4, <1>5, <1>6, <1>7, NextCases DEF Moves, Drains

\* A body leaves the queue to a worker and a worker to the finished ones.
LEMMA NothingLostStep == IInv /\ [Next]_vars => NothingLost'
<1> SUFFICES ASSUME IInv, [Next]_vars PROVE NothingLost'
    OBVIOUS
<1>0. /\ queue \in Seq(Bodies) /\ accepted \in Seq(Bodies)
      /\ task \in [Workers -> Bodies \cup {None}]
      /\ pc \in [Workers -> {"looking", "asleep", "running", "finishing", "exited"}]
      /\ \A i \in 1..Len(accepted) : Somewhere(accepted[i])
    BY DEF IInv, TypeOK, NothingLost
<1>1. ASSUME NEW b \in Bodies, Submit(b) PROVE NothingLost'
  <2>1. /\ queue' = Append(queue, b) /\ accepted' = Append(accepted, b)
        /\ finished' = finished /\ task' = task
        /\ \A w \in Workers : pc[w] = "running" => pc'[w] = "running"
      BY <1>0, <1>1 DEF Submit, At
  <2>2. /\ Len(queue') = Len(queue) + 1 /\ queue'[Len(queue) + 1] = b
        /\ \A j \in 1..Len(queue) : queue'[j] = queue[j] /\ j \in 1..Len(queue')
        /\ Len(queue) + 1 \in 1..Len(queue')
        /\ \A i \in 1..Len(accepted') :
              accepted'[i] = b \/ (i \in 1..Len(accepted) /\ accepted'[i] = accepted[i])
    <3>1. queue \in Seq(Bodies) /\ accepted \in Seq(Bodies)
        BY <1>0
    <3>2. /\ Len(queue') = Len(queue) + 1 /\ queue'[Len(queue) + 1] = b
          /\ \A j \in 1..Len(queue) : queue'[j] = queue[j] /\ j \in 1..Len(queue')
          /\ Len(queue) + 1 \in 1..Len(queue')
        BY <2>1, <3>1, AppendFacts
    <3>3. \A i \in 1..Len(accepted') :
             accepted'[i] = b \/ (i \in 1..Len(accepted) /\ accepted'[i] = accepted[i])
      <4>1. /\ accepted'[Len(accepted) + 1] = b
            /\ \A i \in 1..Len(accepted) : accepted'[i] = accepted[i]
            /\ \A i \in 1..Len(accepted') : i \in 1..Len(accepted) \/ i = Len(accepted) + 1
        <5> HIDE DEF IInv
        <5>1. accepted' = Append(accepted, b) /\ accepted \in Seq(Bodies)
            BY <2>1, <3>1
        <5> QED  BY <5>1, AppendFacts
      <4> QED  BY <4>1
    <3> QED  BY <3>2, <3>3
  <2>3. \A c : Somewhere(c) => Somewhere(c)'
      BY <2>1, <2>2 DEF Somewhere
  <2>4. Somewhere(b)'
      BY <2>2 DEF Somewhere
  <2> QED  BY <1>0, <2>2, <2>3, <2>4 DEF NothingLost
<1>2. ASSUME NEW w \in Workers, Take(w) PROVE NothingLost'
  <2>1. /\ queue # <<>> /\ queue' = Tail(queue) /\ accepted' = accepted
        /\ finished' = finished /\ pc'[w] = "running" /\ task'[w] = Head(queue)
        /\ \A v \in Workers : pc[v] = "running" => pc'[v] = "running" /\ task'[v] = task[v]
      BY <1>0, <1>2 DEF Take
  <2>2. \A j \in 1..Len(queue) :
           queue[j] = Head(queue) \/ (j - 1 \in 1..Len(queue') /\ queue'[j - 1] = queue[j])
    <3>1. Head(queue) = queue[1] /\ Len(queue') = Len(queue) - 1
        BY <1>0, <2>1
    <3>2. \A i \in 1..Len(queue') : queue'[i] = queue[i + 1]
        BY <1>0, <2>1, HeadTailProperties
    <3>3. \A j \in 2..Len(queue) : j - 1 \in 1..Len(queue') /\ (j - 1) + 1 = j
        BY <1>0, <3>1
    <3> QED  BY <1>0, <3>1, <3>2, <3>3
  <2>3. \A c : Somewhere(c) => Somewhere(c)'
      BY <2>1, <2>2 DEF Somewhere
  <2> QED  BY <1>0, <2>1, <2>3 DEF NothingLost
<1>3. ASSUME NEW w \in Workers, Finish(w) PROVE NothingLost'
  <2>1. /\ finished' = finished \cup {task[w]}
        /\ UNCHANGED <<queue, accepted, task>>
        /\ \A v \in Workers \ {w} : pc'[v] = pc[v]
      BY <1>0, <1>3 DEF Finish
  <2>2. \A c : Somewhere(c) => Somewhere(c)'
      BY <2>1 DEF Somewhere
  <2> QED  BY <1>0, <2>1, <2>2 DEF NothingLost
<1>4. ASSUME \/ \E w \in Workers : Account(w) \/ Sleep(w) \/ Spurious(w) \/ Exit(w)
             \/ Drains \/ Join \/ UNCHANGED vars
      PROVE  NothingLost'
  <2>1. /\ UNCHANGED <<queue, accepted, finished>>
        /\ \A v \in Workers : pc[v] = "running" => pc'[v] = "running" /\ task'[v] = task[v]
    <3> USE <1>0 DEF NotifiedWorkers
    <3>1. ASSUME NEW w \in Workers, Account(w) \/ Sleep(w) \/ Spurious(w) \/ Exit(w)
          PROVE  <2>1
        BY <3>1 DEF Account, Sleep, Spurious, Exit
    <3>2. CASE Drains \/ Join \/ UNCHANGED vars
        BY <3>2 DEF Drains, Drain, DrainLook, DrainTimeout, Join, vars
    <3> QED  BY <1>4, <3>1, <3>2
  <2>2. \A c : Somewhere(c) => Somewhere(c)'
      BY <2>1 DEF Somewhere
  <2> QED  BY <1>0, <2>1, <2>2 DEF NothingLost
<1> QED  BY <1>1, <1>2, <1>3, <1>4, NextCases DEF Moves

-----------------------------------------------------------------------------
(* The theorems *)

LEMMA InitInv == Init => IInv
<1> SUFFICES ASSUME Init PROVE IInv
    OBVIOUS
<1>1. At("exited") = {} /\ Busy = {} /\ At("asleep") = {}
    BY DEF Init, At, Busy
<1>2. Counters
  <2>1. \A s : Waiting(queue, s) = {} /\ Running(s) = {}
      BY <1>1 DEF Init, Waiting, Running
  <2> QED  BY <2>1, FS_EmptySet DEF Init, Counters
<1>3. TypeOK /\ TasksHeld
  <2>1. <<>> \in Seq(Bodies)
      BY EmptySeq
  <2> QED  BY <2>1 DEF Init, TypeOK, TasksHeld
<1>4. InFlightExact
    BY <1>2 DEF Counters, InFlightExact, Waiting, Running
<1>5. NobodySleepsBesideWork /\ ExitsCounted /\ ExitsLast /\ NothingLost
  <2>1. NobodySleepsBesideWork
      BY <1>1 DEF NobodySleepsBesideWork
  <2>2. ExitsCounted
      BY <1>1, FS_EmptySet DEF Init, ExitsCounted
  <2>3. ExitsLast /\ NothingLost
      BY <1>1 DEF Init, ExitsLast, NothingLost
  <2> QED  BY <2>1, <2>2, <2>3
<1> QED  BY <1>3, <1>4, <1>5 DEF IInv

LEMMA Invariance == Spec => []IInv
<1>1. IInv /\ [Next]_vars => IInv'
  <2>1. Counters' => InFlightExact'
      BY DEF Counters, InFlightExact, Waiting, Running
  <2> QED  BY <2>1, CountersStep, TypeStep, ExitsCountedStep, ExitsLastStep, SleepersStep,
              NothingLostStep DEF IInv
<1> QED  BY InitInv, <1>1, PTL DEF Spec

\* Every variable of the executor keeps its type; the counters never go below zero.
THEOREM TypeCorrect == Spec => []TypeOK
<1>1. IInv => TypeOK
    BY DEF IInv
<1> QED  BY Invariance, <1>1, PTL

\* What in_flight answers for a session, queued_by_session plus active_by_session, is
\* at every moment the number of its bodies in the queue and on the workers.
THEOREM In_Flight_Exact == Spec => []InFlightExact
<1>1. IInv => InFlightExact
    BY DEF IInv
<1> QED  BY Invariance, <1>1, PTL

\* The one worker that submit wakes is enough: no body is queued for which no worker
\* is awake while another one sleeps.
THEOREM Nobody_Sleeps_Beside_Work == Spec => []NobodySleepsBesideWork
<1>1. IInv => NobodySleepsBesideWork
    BY DEF IInv
<1> QED  BY Invariance, <1>1, PTL

\* When drain answers Quiesced every worker has left, every body that submit took has
\* run and no other is taken.
THEOREM Quiesced_Is_Final == Spec => []QuiescedIsFinal
<1>1. IInv => QuiescedIsFinal
  <2> SUFFICES ASSUME IInv, drainer = "quiesced"
               PROVE  /\ At("exited") = Workers /\ ~Accepts
                      /\ \A i \in 1..Len(accepted) : accepted[i] \in finished
      BY DEF QuiescedIsFinal
  <2>1. At("exited") = Workers /\ stopping /\ queue = <<>>
      BY DEF IInv, ExitsLast
  <2>2. \A b : Somewhere(b) => b \in finished
      BY <2>1 DEF Somewhere, At
  <2> QED  BY <2>1, <2>2 DEF IInv, NothingLost, Accepts
<1> QED  BY Invariance, <1>1, PTL
=============================================================================
