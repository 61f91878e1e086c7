---------------------------- MODULE LLMPoolProofs ----------------------------
(***************************************************************************)
(* Proofs about the pool for any set of workers, any capacity and any      *)
(* number of tickets.                                                      *)
(*                                                                         *)
(* TypeOK and CapacityRespected are proved together with the shape of the  *)
(* queue (QueueSorted, NoAbandonedTicket): the order in which slots are    *)
(* granted rests on the queue being sorted and complete.                   *)
(***************************************************************************)
EXTENDS LLMPool, FiniteSetTheorems, TLAPS

IInv == TypeOK /\ CapacityRespected /\ QueueSorted /\ NoAbandonedTicket

USE WorkersAssumption, CapacityAssumption

\* The queue without one of its tickets.
LEMMA WithoutNthFacts ==
    ASSUME waiters \in Seq(Nat), NEW k \in 1..Len(waiters)
    PROVE  /\ WithoutNth(k) \in Seq(Nat) /\ Len(WithoutNth(k)) = Len(waiters) - 1
           /\ \A j \in 1..(Len(waiters) - 1) :
                 WithoutNth(k)[j] = waiters[IF j < k THEN j ELSE j + 1]
<1>1. Len(waiters) \in Nat /\ Len(waiters) - 1 \in Nat
    OBVIOUS
<1>2. \A j \in 1..(Len(waiters) - 1) : waiters[IF j < k THEN j ELSE j + 1] \in Nat
    BY <1>1
<1>3. WithoutNth(k) \in Seq(Nat)
    BY <1>1, <1>2 DEF WithoutNth
<1>4. QED
    BY <1>1, <1>3 DEF WithoutNth

\* Every action keeps the types of the variables.
LEMMA TypeStep == TypeOK /\ [Next]_vars => TypeOK'
<1> SUFFICES ASSUME TypeOK, [Next]_vars PROVE TypeOK'
    OBVIOUS
<1> USE DEF TypeOK, PC
<1>1. ASSUME NEW w \in Workers, TakeTicket(w) PROVE TypeOK'
    BY <1>1 DEF TakeTicket, Notified
<1>2. ASSUME NEW w \in Workers, Grant(w) PROVE TypeOK'
    BY <1>2 DEF Grant, SlotForMe
<1>3. ASSUME NEW w \in Workers, Withdraw(w) PROVE TypeOK'
  <2> PICK i \in 1..Len(waiters) : waiters' = WithoutNth(i)
      BY <1>3 DEF Withdraw
  <2>1. waiters' \in Seq(Nat)
      BY WithoutNthFacts
  <2>2. QED
      BY <1>3, <2>1 DEF Withdraw
<1>4. ASSUME NEW w \in Workers, Release(w) PROVE TypeOK'
    BY <1>4 DEF Release
<1>5. ASSUME NEW w \in Workers, Notify(w) PROVE TypeOK'
    BY <1>5 DEF Notify, Notified
<1>6. ASSUME NEW w \in Workers, Cancel(w) PROVE TypeOK'
    BY <1>6 DEF Cancel
<1>7. ASSUME NEW w \in Workers, FireCallback(w) PROVE TypeOK'
    BY <1>7 DEF FireCallback, Notified
<1>8. ASSUME NEW w \in Workers,
             \/ Call(w) \/ Refuse(w) \/ Enter(w) \/ Park(w) \/ Sleep(w)
             \/ Relock(w) \/ Spurious(w)
      PROVE  TypeOK'
    BY <1>8 DEF Call, Refuse, Enter, Park, Sleep, Relock, Spurious
<1>9. CASE UNCHANGED vars
    BY <1>9 DEF vars
<1>10. QED
    BY <1>1, <1>2, <1>3, <1>4, <1>5, <1>6, <1>7, <1>8, <1>9 DEF Next

\* Holders changes by one worker exactly when inUse_ changes by one.
LEMMA HoldersStep ==
    ASSUME TypeOK, [Next]_vars
    PROVE  \/ Holders' = Holders /\ inUse' = inUse
           \/ \E w \in Workers : /\ Grant(w) /\ w \notin Holders
                                 /\ Holders' = Holders \cup {w}
           \/ \E w \in Workers : /\ Release(w) /\ w \in Holders
                                 /\ Holders' = Holders \ {w}
<1> USE DEF TypeOK, PC, Holders, At
<1>1. ASSUME NEW w \in Workers, Grant(w)
      PROVE  w \notin Holders /\ Holders' = Holders \cup {w}
    BY <1>1 DEF Grant
<1>2. ASSUME NEW w \in Workers, Release(w)
      PROVE  w \in Holders /\ Holders' = Holders \ {w}
    BY <1>2 DEF Release
<1>3. ASSUME NEW w \in Workers,
             \/ TakeTicket(w) \/ Notify(w) \/ FireCallback(w)
      PROVE  Holders' = Holders /\ inUse' = inUse
    BY <1>3 DEF TakeTicket, Notify, FireCallback, Notified
<1>4. ASSUME NEW w \in Workers,
             \/ Call(w) \/ Refuse(w) \/ Enter(w) \/ Withdraw(w) \/ Park(w)
             \/ Sleep(w) \/ Relock(w) \/ Spurious(w) \/ Cancel(w)
      PROVE  Holders' = Holders /\ inUse' = inUse
    BY <1>4 DEF Call, Refuse, Enter, Withdraw, Park, Sleep, Relock, Spurious, Cancel
<1>5. CASE UNCHANGED vars
    BY <1>5 DEF vars
<1>6. QED
    BY <1>1, <1>2, <1>3, <1>4, <1>5 DEF Next

LEMMA HoldersFinite == IsFiniteSet(Holders)
    BY FS_Subset DEF Holders, At

\* inUse_ is the number of Slots that live.
LEMMA CapacityStep ==
    TypeOK /\ CapacityRespected /\ [Next]_vars => CapacityRespected'
<1> SUFFICES ASSUME TypeOK, CapacityRespected, [Next]_vars
             PROVE  CapacityRespected'
    OBVIOUS
<1>1. CASE Holders' = Holders /\ inUse' = inUse
    BY <1>1 DEF CapacityRespected
<1>2. ASSUME NEW w \in Workers, Grant(w), w \notin Holders,
             Holders' = Holders \cup {w}
      PROVE  CapacityRespected'
  <2>1. Cardinality(Holders') = Cardinality(Holders) + 1
      BY <1>2, HoldersFinite, FS_AddElement
  <2>2. QED
      BY <1>2, <2>1 DEF Grant, SlotForMe, CapacityRespected, TypeOK
<1>3. ASSUME NEW w \in Workers, Release(w), w \in Holders,
             Holders' = Holders \ {w}
      PROVE  CapacityRespected'
  <2>1. Cardinality(Holders') = Cardinality(Holders) - 1
      BY <1>3, HoldersFinite, FS_RemoveElement
  <2>2. Cardinality(Holders') \in Nat
      BY <1>3, HoldersFinite, FS_RemoveElement, FS_CardinalityType
  <2>3. QED
      BY <1>3, <2>1, <2>2 DEF Release, CapacityRespected, TypeOK
<1>4. QED
    BY <1>1, <1>2, <1>3, HoldersStep

\* Steps that leave the queue, the tickets and the set of queued workers alone.
QueueUntouched ==
    /\ UNCHANGED <<waiters, ticket, nextTicket>>
    /\ Queued' = Queued

LEMMA QuietSteps ==
    ASSUME TypeOK,
           \/ UNCHANGED vars
           \/ \E w \in Workers :
                 \/ Call(w) \/ Refuse(w) \/ Enter(w) \/ Park(w) \/ Sleep(w)
                 \/ Relock(w) \/ Spurious(w) \/ Release(w) \/ Notify(w)
                 \/ Cancel(w) \/ FireCallback(w)
    PROVE  QueueUntouched
<1> USE DEF TypeOK, PC, Queued, At, QueueUntouched
<1>1. CASE UNCHANGED vars
    BY <1>1 DEF vars
<1>2. ASSUME NEW w \in Workers, Notify(w) \/ FireCallback(w)
      PROVE  QueueUntouched
    BY <1>2 DEF Notify, FireCallback, Notified
<1>3. ASSUME NEW w \in Workers,
             \/ Call(w) \/ Refuse(w) \/ Enter(w) \/ Park(w) \/ Sleep(w)
             \/ Relock(w) \/ Spurious(w) \/ Release(w) \/ Cancel(w)
      PROVE  QueueUntouched
    BY <1>3 DEF Call, Refuse, Enter, Park, Sleep, Relock, Spurious, Release, Cancel
<1>4. QED
    BY <1>1, <1>2, <1>3

QInv == QueueSorted /\ NoAbandonedTicket

LEMMA TakeTicketKeepsQueue ==
    ASSUME TypeOK, QInv, NEW w \in Workers, TakeTicket(w)
    PROVE  QInv'
<1> DEFINE n == Len(waiters)
<1>1. Queued' = Queued \cup {w} /\ w \notin Queued
    BY DEF TakeTicket, Queued, At, Notified, TypeOK, PC
<1>2. /\ waiters' = Append(waiters, nextTicket) /\ nextTicket' = nextTicket + 1
      /\ ticket' = [ticket EXCEPT ![w] = nextTicket]
    BY DEF TakeTicket
<1>3. /\ n \in Nat /\ Len(waiters') = n + 1
      /\ \A i \in 1..n : waiters'[i] = waiters[i] /\ waiters[i] \in Nat
      /\ waiters'[n + 1] = nextTicket
    BY <1>2 DEF TypeOK
<1>4. \A v \in Queued : ticket[v] < nextTicket /\ ticket'[v] = ticket[v]
    BY <1>1, <1>2 DEF QInv, NoAbandonedTicket, QueueSorted, TypeOK, Queued, At
<1>5. ticket'[w] = nextTicket /\ nextTicket \in Nat
    BY <1>2 DEF TypeOK
<1>6. QueueSorted'
  <2>1. \A i, j \in 1..Len(waiters') : i < j => waiters'[i] < waiters'[j]
    <3> SUFFICES ASSUME NEW i \in 1..(n + 1), NEW j \in 1..(n + 1), i < j
                 PROVE  waiters'[i] < waiters'[j]
        BY <1>3
    <3>1. i \in 1..n
        BY <1>3
    <3>2. CASE j = n + 1
        BY <1>3, <3>1, <3>2 DEF QInv, QueueSorted
    <3>3. CASE j \in 1..n
        BY <1>3, <3>1, <3>3 DEF QInv, QueueSorted
    <3>4. QED
        BY <1>3, <3>2, <3>3
  <2>2. \A i \in 1..Len(waiters') : waiters'[i] < nextTicket'
      BY <1>2, <1>3 DEF QInv, QueueSorted, TypeOK
  <2>3. \A u, v \in Queued' : ticket'[u] = ticket'[v] => u = v
    <3>1. \A v \in Queued : ticket[v] \in Nat
        BY DEF TypeOK, Queued, At
    <3>2. QED
        BY <1>1, <1>4, <1>5, <3>1 DEF QInv, QueueSorted
  <2>4. QED
      BY <2>1, <2>2, <2>3 DEF QueueSorted
<1>7. NoAbandonedTicket'
  <2>1. ASSUME NEW i \in 1..Len(waiters')
        PROVE  \E v \in Queued' : ticket'[v] = waiters'[i]
    <3>1. CASE i = n + 1
        BY <1>1, <1>3, <1>5, <3>1
    <3>2. CASE i \in 1..n
        BY <1>1, <1>3, <1>4, <3>2 DEF QInv, NoAbandonedTicket
    <3>3. QED
        BY <1>3, <3>1, <3>2
  <2>2. ASSUME NEW v \in Queued'
        PROVE  \E i \in 1..Len(waiters') : waiters'[i] = ticket'[v]
    <3>1. CASE v = w
        BY <1>3, <1>5, <3>1
    <3>2. CASE v \in Queued
      <4>1. PICK i \in 1..n : waiters[i] = ticket[v]
          BY <3>2 DEF QInv, NoAbandonedTicket
      <4>2. i \in 1..Len(waiters') /\ waiters'[i] = ticket'[v]
          BY <1>3, <1>4, <3>2, <4>1
      <4>3. QED
          BY <4>2
    <3>3. QED
        BY <1>1, <3>1, <3>2
  <2>3. QED
      BY <2>1, <2>2 DEF NoAbandonedTicket
<1>8. QED
    BY <1>6, <1>7 DEF QInv

\* Taking worker w, whose ticket is the k-th, out of the queue.
LEMMA RemovalKeepsQueue ==
    ASSUME TypeOK, QInv, NEW w \in Queued,
           NEW k \in 1..Len(waiters), waiters[k] = ticket[w],
           waiters' \in Seq(Nat), Len(waiters') = Len(waiters) - 1,
           \A j \in 1..(Len(waiters) - 1) :
               waiters'[j] = waiters[IF j < k THEN j ELSE j + 1],
           UNCHANGED <<ticket, nextTicket>>, Queued' = Queued \ {w}
    PROVE  QInv'
<1> DEFINE n == Len(waiters)
           old(j) == IF j < k THEN j ELSE j + 1
<1>1. n \in Nat /\ \A i \in 1..n : waiters[i] \in Nat
    BY DEF TypeOK
<1>2. \A j \in 1..(n - 1) : old(j) \in 1..n /\ old(j) # k
    BY <1>1
<1>3. \A i, j \in 1..(n - 1) : i < j => old(i) < old(j)
    BY <1>1
<1>4. \A i \in 1..n : i # k => \E j \in 1..(n - 1) : old(j) = i
  <2> SUFFICES ASSUME NEW i \in 1..n, i # k PROVE \E j \in 1..(n - 1) : old(j) = i
      OBVIOUS
  <2>1. CASE i < k
    <3>1. i \in 1..(n - 1) /\ old(i) = i
        BY <1>1, <2>1
    <3>2. QED
        BY <3>1
  <2>2. CASE i > k
    <3>1. i - 1 \in 1..(n - 1) /\ old(i - 1) = i
        BY <1>1, <2>2
    <3>2. QED
        BY <3>1
  <2>3. QED
      BY <1>1, <2>1, <2>2
<1>5. \A j \in 1..(n - 1) : waiters'[j] = waiters[old(j)]
    OBVIOUS
<1> HIDE DEF old
<1>6. QueueSorted'
  <2>1. ASSUME NEW i \in 1..Len(waiters'), NEW j \in 1..Len(waiters'), i < j
        PROVE  waiters'[i] < waiters'[j]
    <3>1. /\ old(i) \in 1..n /\ old(j) \in 1..n /\ old(i) < old(j)
          /\ waiters'[i] = waiters[old(i)] /\ waiters'[j] = waiters[old(j)]
        BY <1>2, <1>3, <1>5, <2>1
    <3>2. QED
        BY <3>1 DEF QInv, QueueSorted
  <2>2. \A i \in 1..Len(waiters') : waiters'[i] < nextTicket'
      BY <1>2, <1>5 DEF QInv, QueueSorted
  <2>3. QED
      BY <2>1, <2>2 DEF QInv, QueueSorted
<1>7. NoAbandonedTicket'
  <2>1. ASSUME NEW j \in 1..Len(waiters')
        PROVE  \E v \in Queued' : ticket'[v] = waiters'[j]
    <3>1. PICK v \in Queued : ticket[v] = waiters[old(j)]
        BY <1>2 DEF QInv, NoAbandonedTicket
    <3>2. waiters[old(j)] # waiters[k]
      <4>1. old(j) \in 1..n /\ (old(j) < k \/ k < old(j))
          BY <1>1, <1>2
      <4>2. waiters[old(j)] < waiters[k] \/ waiters[k] < waiters[old(j)]
          BY <4>1 DEF QInv, QueueSorted
      <4>3. QED
          BY <1>1, <4>1, <4>2
    <3>3. QED
        BY <1>5, <3>1, <3>2
  <2>2. ASSUME NEW v \in Queued'
        PROVE  \E j \in 1..Len(waiters') : waiters'[j] = ticket'[v]
    <3>1. PICK i \in 1..n : waiters[i] = ticket[v]
        BY DEF QInv, NoAbandonedTicket
    <3>2. i # k
        BY <3>1 DEF QInv, QueueSorted
    <3>3. PICK j \in 1..(n - 1) : old(j) = i
        BY <1>4, <3>2
    <3>4. QED
        BY <1>5, <3>1, <3>3
  <2>3. QED
      BY <2>1, <2>2 DEF NoAbandonedTicket
<1>8. QED
    BY <1>6, <1>7 DEF QInv

LEMMA GrantKeepsQueue ==
    ASSUME TypeOK, QInv, NEW w \in Workers, Grant(w)
    PROVE  QInv'
<1>1. w \in Queued /\ Queued' = Queued \ {w}
    BY DEF Grant, Queued, At, TypeOK, PC
<1>2. /\ Len(waiters) \in Nat /\ Len(waiters) > 0 /\ waiters[1] = ticket[w]
      /\ waiters' = Tail(waiters)
    BY DEF Grant, SlotForMe, TypeOK
<1>3. /\ waiters' \in Seq(Nat) /\ Len(waiters') = Len(waiters) - 1
      /\ \A j \in 1..(Len(waiters) - 1) : waiters'[j] = waiters[j + 1]
    BY <1>2 DEF TypeOK
<1>4. /\ 1 \in 1..Len(waiters)
      /\ \A j \in 1..(Len(waiters) - 1) :
            waiters'[j] = waiters[IF j < 1 THEN j ELSE j + 1]
    BY <1>2, <1>3
<1>5. UNCHANGED <<ticket, nextTicket>>
    BY DEF Grant
<1>6. QED
    BY <1>1, <1>2, <1>3, <1>4, <1>5, RemovalKeepsQueue

LEMMA WithdrawKeepsQueue ==
    ASSUME TypeOK, QInv, NEW w \in Workers, Withdraw(w)
    PROVE  QInv'
<1>1. w \in Queued /\ Queued' = Queued \ {w}
    BY DEF Withdraw, Queued, At, TypeOK, PC
<1>2. PICK k \in 1..Len(waiters) : /\ waiters[k] = ticket[w]
                                   /\ waiters' = WithoutNth(k)
    BY DEF Withdraw
<1>3. /\ waiters' \in Seq(Nat) /\ Len(waiters') = Len(waiters) - 1
      /\ \A j \in 1..(Len(waiters) - 1) :
            waiters'[j] = waiters[IF j < k THEN j ELSE j + 1]
    BY <1>2, WithoutNthFacts DEF TypeOK
<1>4. UNCHANGED <<ticket, nextTicket>>
    BY DEF Withdraw
<1>5. QED
    BY <1>1, <1>2, <1>3, <1>4, RemovalKeepsQueue

LEMMA QueueStep == TypeOK /\ QInv /\ [Next]_vars => QInv'
<1> SUFFICES ASSUME TypeOK, QInv, [Next]_vars PROVE QInv'
    OBVIOUS
<1>1. CASE QueueUntouched
    BY <1>1 DEF QueueUntouched, QInv, QueueSorted, NoAbandonedTicket
<1>2. QED
    BY <1>1, QuietSteps, TakeTicketKeepsQueue, GrantKeepsQueue,
       WithdrawKeepsQueue DEF Next

-----------------------------------------------------------------------------
LEMMA IInvInit == Init => IInv
<1> SUFFICES ASSUME Init PROVE IInv
    OBVIOUS
<1>1. Holders = {} /\ Queued = {}
    BY DEF Init, Holders, Queued, At
<1>2. QED
    BY <1>1, FS_EmptySet DEF Init, IInv, TypeOK, PC, CapacityRespected, QueueSorted,
       NoAbandonedTicket

LEMMA Invariance == Spec => []IInv
<1>1. IInv /\ [Next]_vars => IInv'
    BY TypeStep, CapacityStep, QueueStep DEF IInv, QInv
<1>2. QED
    BY IInvInit, <1>1, PTL DEF Spec

\* The pool's variables keep their types.
THEOREM TypeCorrect == Spec => []TypeOK
<1>1. IInv => TypeOK
    BY DEF IInv
<1>2. QED
    BY Invariance, <1>1, PTL

\* inUse_ always is the number of Slots that live and never exceeds capacity_:
\* neither a cancelled acquire nor a release loses or invents a slot.
THEOREM Capacity_Respected == Spec => []CapacityRespected
<1>1. IInv => CapacityRespected
    BY DEF IInv
<1>2. QED
    BY Invariance, <1>1, PTL

\* The queue holds exactly the tickets of the workers inside acquire.
THEOREM No_Abandoned_Ticket == Spec => []NoAbandonedTicket
<1>1. IInv => NoAbandonedTicket
    BY DEF IInv
<1>2. QED
    BY Invariance, <1>1, PTL

\* Slots are granted in the order in which acquire handed out the tickets.
THEOREM Served_In_Order == Spec => ServedInOrder
<1> DEFINE A == \A w \in Workers : pc[w] = "evaluating" /\ pc'[w] = "holding"
                    => \A v \in Queued : ticket[w] <= ticket[v]
<1>1. ASSUME TypeOK, QInv, [Next]_vars,
             NEW w \in Workers, pc[w] = "evaluating", pc'[w] = "holding",
             NEW v \in Queued
      PROVE  ticket[w] <= ticket[v]
  <2>1. Grant(w)
    <3> USE <1>1 DEF TypeOK, PC
    <3>1. CASE \E u \in Workers : TakeTicket(u) \/ Notify(u) \/ FireCallback(u)
        BY <3>1 DEF TakeTicket, Notify, FireCallback, Notified
    <3>2. CASE \E u \in Workers : \/ Call(u) \/ Refuse(u) \/ Enter(u) \/ Withdraw(u)
                                  \/ Park(u) \/ Sleep(u) \/ Relock(u) \/ Spurious(u)
                                  \/ Release(u) \/ Cancel(u)
        BY <3>2 DEF Call, Refuse, Enter, Withdraw, Park, Sleep, Relock, Spurious,
                    Release, Cancel
    <3>3. CASE \E u \in Workers : Grant(u)
        BY <3>3 DEF Grant
    <3>4. CASE UNCHANGED vars
        BY <3>4 DEF vars
    <3>5. QED
        BY <3>1, <3>2, <3>3, <3>4 DEF Next
  <2>2. waiters \in Seq(Nat) /\ waiters # <<>> /\ waiters[1] = ticket[w]
      BY <2>1, <1>1 DEF Grant, SlotForMe, TypeOK
  <2>3. PICK i \in 1..Len(waiters) : waiters[i] = ticket[v]
      BY <1>1 DEF QInv, NoAbandonedTicket
  <2>4. i = 1 \/ (1 < i /\ 1 \in 1..Len(waiters))
      BY <2>2
  <2>5. waiters[1] \in Nat /\ waiters[i] \in Nat
      BY <2>2, <2>4
  <2>6. QED
      BY <1>1, <2>2, <2>3, <2>4, <2>5 DEF QInv, QueueSorted
<1>2. IInv /\ [Next]_vars => [A]_vars
    BY <1>1 DEF IInv, QInv
<1>3. QED
    BY Invariance, <1>2, PTL DEF Spec, ServedInOrder

\* The pool implements the abstract pool of slots: every step grants one slot
\* while fewer than capacity_ are held, gives one back, or does neither.
THEOREM Implements_SlotPool == Spec => ImplementsSlotPool
<1>1. Init => Slots!Init
    BY DEF Init, Slots!Init, Holders, At
<1>2. TypeOK /\ CapacityRespected /\ [Next]_vars => [Slots!Next]_Holders
  <2> SUFFICES ASSUME TypeOK, CapacityRespected, [Next]_vars
               PROVE  [Slots!Next]_Holders
      OBVIOUS
  <2>1. ASSUME NEW w \in Workers, Grant(w), w \notin Holders,
               Holders' = Holders \cup {w}
        PROVE  Slots!Acquire(w)
    <3>1. Slots!Cardinality(Holders) = Cardinality(Holders)
        BY Zenon DEF Slots!Cardinality, Cardinality
    <3>2. Cardinality(Holders) < Capacity
        BY <2>1 DEF Grant, SlotForMe, CapacityRespected
    <3>3. QED
        BY <2>1, <3>1, <3>2 DEF Slots!Acquire
  <2>2. ASSUME NEW w \in Workers, w \in Holders, Holders' = Holders \ {w}
        PROVE  Slots!Release(w)
      BY <2>2 DEF Slots!Release
  <2>3. QED
      BY <2>1, <2>2, HoldersStep DEF Slots!Next
<1>3. QED
    BY <1>1, <1>2, Invariance, PTL DEF IInv, Spec, ImplementsSlotPool, Slots!Spec
-----------------------------------------------------------------------------
(* Nobody sleeps without a notify_all to come *)

\* One worker at a time is in a critical section.
Alone == \A v, w \in At({"evaluating", "parking"}) : v = w

\* Where the pool has no slots nobody gets as far as the queue.
NobodyUnserved ==
    \A w \in Workers : pc[w] \in {"entering", "evaluating", "parking", "asleep", "woken"}
                        => Capacity # 0

\* The worker at the front of the queue goes to sleep only while a slot is held,
\* and sleeps on only while one is held or a notify_all is on its way.
FrontAwaited ==
    \A w \in Queued : waiters[1] = ticket[w] =>
        /\ pc[w] = "parking" => Holders # {}
        /\ pc[w] = "asleep" => At({"holding", "notifying"}) # {}

SInv == Alone /\ NobodyUnserved /\ FrontAwaited

\* A queued worker makes the queue nonempty.
LEMMA QueueOccupied ==
    ASSUME TypeOK, NoAbandonedTicket, NEW w \in Queued
    PROVE  waiters # <<>> /\ Len(waiters) \in Nat \ {0} /\ 1 \in 1..Len(waiters)
BY DEF TypeOK, NoAbandonedTicket

LEMMA AloneStep == TypeOK /\ SInv /\ [Next]_vars => (Alone /\ NobodyUnserved)'
<1> SUFFICES ASSUME TypeOK, SInv, [Next]_vars PROVE (Alone /\ NobodyUnserved)'
    OBVIOUS
<1>0. pc \in [Workers -> PC] /\ Alone /\ NobodyUnserved
    BY DEF TypeOK, SInv
<1> USE DEF PC, Alone, NobodyUnserved, At
<1>1. ASSUME NEW w \in Workers, TakeTicket(w) \/ Relock(w)
      PROVE  (Alone /\ NobodyUnserved)'
  <2>1. /\ \A v \in Workers : pc[v] \notin {"evaluating", "parking"}
        /\ \A v \in Workers : v # w => pc'[v] = pc[v] \/ (pc[v] = "asleep" /\ pc'[v] = "woken")
        /\ pc[w] \in {"entering", "woken"} /\ pc'[w] = "evaluating"
      BY <1>0, <1>1 DEF TakeTicket, Relock, MutexFree, Notified
  <2>2. QED
      BY <1>0, <2>1
<1>2. ASSUME NEW w \in Workers, Notify(w) \/ FireCallback(w)
      PROVE  (Alone /\ NobodyUnserved)'
  <2>1. \A v \in Workers : \/ pc'[v] = pc[v]
                           \/ pc[v] = "asleep" /\ pc'[v] = "woken"
                           \/ pc'[v] = "idle"
      BY <1>0, <1>2 DEF Notify, FireCallback, Notified
  <2>2. QED
      BY <1>0, <2>1
<1>3. ASSUME NEW w \in Workers,
             \/ Call(w) \/ Refuse(w) \/ Enter(w) \/ Grant(w) \/ Withdraw(w)
             \/ Park(w) \/ Sleep(w) \/ Spurious(w) \/ Release(w) \/ Cancel(w)
      PROVE  (Alone /\ NobodyUnserved)'
    BY <1>0, <1>3 DEF Call, Refuse, Enter, Grant, Withdraw, Park, Sleep, Spurious,
                      Release, Cancel
<1>4. CASE UNCHANGED vars
    BY <1>0, <1>4 DEF vars
<1>5. QED
    BY <1>1, <1>2, <1>3, <1>4 DEF Next

LEMMA FrontStep == IInv /\ SInv /\ [Next]_vars => FrontAwaited'
<1> SUFFICES ASSUME IInv, SInv, [Next]_vars PROVE FrontAwaited'
    OBVIOUS
<1>0. /\ TypeOK /\ NoAbandonedTicket /\ CapacityRespected
      /\ Alone /\ NobodyUnserved /\ FrontAwaited
    BY DEF IInv, SInv
<1> USE DEF FrontAwaited
<1>1. ASSUME NEW u \in Workers, TakeTicket(u) PROVE FrontAwaited'
  <2> SUFFICES ASSUME NEW w \in Queued', (waiters[1] = ticket[w])',
                      pc'[w] \in {"parking", "asleep"}
               PROVE  At({"holding", "notifying"})' # {} /\ pc'[w] = "asleep"
      OBVIOUS
  <2>1. w # u /\ pc[w] = "asleep" /\ pc'[w] = "asleep" /\ w \in Queued
      BY <1>0, <1>1 DEF TypeOK, TakeTicket, MutexFree, Notified, Queued, At
  <2>2. ticket'[w] = ticket[w] /\ waiters'[1] = waiters[1]
      BY <1>0, <1>1, <2>1, QueueOccupied DEF TypeOK, TakeTicket, Queued, At
  <2>3. At({"holding", "notifying"}) # {}
      BY <1>0, <2>1, <2>2
  <2>4. QED
      BY <1>0, <1>1, <2>1, <2>3 DEF TypeOK, TakeTicket, Notified, At
<1>2. ASSUME NEW u \in Workers, Grant(u) \/ Withdraw(u) PROVE FrontAwaited'
  <2>1. /\ pc[u] = "evaluating" /\ pc'[u] \in {"holding", "notifying"}
        /\ \A w \in Workers : w # u => pc'[w] = pc[w]
      BY <1>0, <1>2 DEF TypeOK, Grant, Withdraw
  <2>2. \A w \in Workers : pc'[w] # "parking"
      BY <1>0, <2>1 DEF Alone, At
  <2>3. QED
      BY <2>1, <2>2 DEF Queued, At
<1>3. ASSUME NEW u \in Workers, Park(u) PROVE FrontAwaited'
  <2>1. /\ pc[u] = "evaluating" /\ pc'[u] = "parking"
        /\ \A w \in Workers : w # u => pc'[w] = pc[w]
        /\ UNCHANGED <<waiters, ticket>>
      BY <1>0, <1>3 DEF TypeOK, Park
  <2>2. /\ Holders' = Holders /\ Queued' = Queued
        /\ At({"holding", "notifying"})' = At({"holding", "notifying"})
      BY <2>1 DEF Holders, Queued, At
  <2>3. waiters[1] = ticket[u] => Holders # {}
    <3> SUFFICES ASSUME waiters[1] = ticket[u] PROVE Holders # {}
        OBVIOUS
    <3>1. waiters # <<>> /\ Head(waiters) = ticket[u]
        BY <1>0, <2>1, QueueOccupied DEF TypeOK, Queued, At
    <3>2. inUse >= Capacity /\ Capacity # 0
        BY <1>0, <1>3, <2>1, <3>1 DEF TypeOK, Park, SlotForMe, NobodyUnserved, At
    <3>3. Cardinality(Holders) # 0
        BY <1>0, <3>2 DEF TypeOK, CapacityRespected
    <3>4. QED
        BY <3>3, FS_EmptySet
  <2>4. QED
      BY <1>0, <2>1, <2>2, <2>3 DEF Queued, At
<1>4. ASSUME NEW u \in Workers, Sleep(u) \/ Relock(u) \/ Spurious(u)
      PROVE  FrontAwaited'
  <2>1. /\ UNCHANGED <<waiters, ticket>> /\ Queued' = Queued /\ Holders' = Holders
        /\ At({"holding", "notifying"})' = At({"holding", "notifying"})
        /\ \A w \in Workers : pc'[w] = "parking" => pc[w] = "parking"
        /\ \A w \in Workers : pc'[w] = "asleep" => pc[w] \in {"parking", "asleep"}
      BY <1>0, <1>4 DEF TypeOK, Sleep, Relock, Spurious, Queued, Holders, At
  <2>2. Holders \subseteq At({"holding", "notifying"})
      BY DEF Holders, At
  <2>3. QED
      BY <1>0, <2>1, <2>2 DEF Queued, At
<1>5. ASSUME NEW u \in Workers, Release(u) PROVE FrontAwaited'
  <2>1. /\ UNCHANGED <<waiters, ticket>> /\ pc'[u] = "notifying"
        /\ \A w \in Workers : pc'[w] # "parking"
      BY <1>0, <1>5 DEF TypeOK, Release, MutexFree, At
  <2>2. QED
      BY <2>1 DEF Queued, At
<1>6. ASSUME NEW u \in Workers, Notify(u) \/ FireCallback(u) PROVE FrontAwaited'
  <2>1. /\ UNCHANGED <<waiters, ticket>> /\ Queued' = Queued /\ Holders' = Holders
        /\ \A w \in Workers : pc'[w] # "asleep"
        /\ \A w \in Workers : pc'[w] = "parking" => pc[w] = "parking"
      BY <1>0, <1>6 DEF TypeOK, Notify, FireCallback, Notified, Queued, Holders, At
  <2>2. QED
      BY <1>0, <2>1 DEF Queued, At
<1>7. ASSUME NEW u \in Workers, Call(u) \/ Refuse(u) \/ Enter(u) \/ Cancel(u)
      PROVE  FrontAwaited'
  <2>1. /\ UNCHANGED <<waiters, ticket>> /\ Queued' = Queued /\ Holders' = Holders
        /\ At({"holding", "notifying"})' = At({"holding", "notifying"})
        /\ \A w \in Queued : pc'[w] = pc[w]
      BY <1>0, <1>7 DEF TypeOK, Call, Refuse, Enter, Cancel, Queued, Holders, At
  <2>2. QED
      BY <1>0, <2>1
<1>8. CASE UNCHANGED vars
    BY <1>0, <1>8 DEF vars, Queued, Holders, At
<1>9. QED
    BY <1>1, <1>2, <1>3, <1>4, <1>5, <1>6, <1>7, <1>8 DEF Next

\* The owner of the ticket at the front is awake, or somebody will notify it.
LEMMA StrandedInv == IInv /\ SInv => NobodyStranded
<1> SUFFICES ASSUME IInv, SInv, NEW w \in At({"asleep"})
             PROVE  At({"holding", "notifying", "evaluating", "parking", "woken"}) # {}
    BY DEF NobodyStranded
<1>1. 1 \in 1..Len(waiters)
    BY QueueOccupied DEF IInv, Queued, At
<1>2. PICK v \in Queued : ticket[v] = waiters[1]
    BY <1>1 DEF IInv, NoAbandonedTicket
<1>3. QED
    BY <1>2 DEF SInv, FrontAwaited, Queued, At

\* No sleeping acquire is forgotten: although the callbacks and release notify
\* without the mutex, whoever sleeps has somebody left to wake it.
THEOREM Nobody_Stranded == Spec => []NobodyStranded
<1>1. Init => SInv
    BY DEF Init, SInv, Alone, NobodyUnserved, FrontAwaited, Queued, At
<1>2. IInv /\ SInv /\ [Next]_vars => SInv'
    BY AloneStep, FrontStep DEF IInv, SInv
<1>3. QED
    BY Invariance, <1>1, <1>2, StrandedInv, PTL DEF Spec
=============================================================================
