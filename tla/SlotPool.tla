------------------------------ MODULE SlotPool ------------------------------
(***************************************************************************)
(* What the pool of LLM slots promises, without tickets, mutex or wakeups: *)
(* a worker gets a slot only while fewer than Capacity are held, and       *)
(* gives back what it holds.                                               *)
(***************************************************************************)
EXTENDS Naturals, FiniteSets

CONSTANTS Workers, Capacity

VARIABLE held          \* workers holding a slot

Init == held = {}

Acquire(w) == /\ w \notin held
              /\ Cardinality(held) < Capacity
              /\ held' = held \cup {w}

Release(w) == /\ w \in held
              /\ held' = held \ {w}

Next == \E w \in Workers : Acquire(w) \/ Release(w)

Spec == Init /\ [][Next]_held
=============================================================================
