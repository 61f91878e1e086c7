---------------------------- MODULE ProviderCalls ----------------------------
(***************************************************************************)
(* Who calls a provider, and under which slot of the pool: the step of a   *)
(* turn, which tries a second time after a compaction when its context is  *)
(* too long, and the summaries of a compaction or a handoff.  The pool is  *)
(* the abstract one, which LLMPool implements.                             *)
(***************************************************************************)
EXTENDS Naturals, FiniteSets

CONSTANTS Workers,      \* threads that call a provider
          Turns,        \* those running a turn; the others summarise
          Capacity      \* LLMPool::capacity_

VARIABLES held,         \* workers holding a slot
          at,           \* where each worker is
          attempt       \* the index of the loop over attempts

vars == <<held, at, attempt>>

Pool == INSTANCE SlotPool

\* "summary" waits for a slot to summarise with, "summarising" streams.
Places == {"idle", "acquiring", "inside", "outside", "streaming",
           "summary", "summarising"}

Streaming == {w \in Workers : at[w] \in {"streaming", "summarising"}}

Init == /\ Pool!Init
        /\ at = [w \in Workers |-> "idle"]
        /\ attempt = [w \in Workers |-> 0]

Go(w, place) == at' = [at EXCEPT ![w] = place]

Begin(w) ==
    /\ at[w] = "idle"
    /\ Go(w, IF w \in Turns THEN "acquiring" ELSE "summary")
    /\ attempt' = [attempt EXCEPT ![w] = 0]
    /\ UNCHANGED held

\* acquire gives a slot, or nullopt to a cancelled token.
Acquire(w) ==
    /\ at[w] = "acquiring"
    /\ \/ Pool!Acquire(w) /\ Go(w, "inside")
       \/ Go(w, "idle") /\ UNCHANGED held
    /\ UNCHANGED attempt

\* The turn's Slot is a local of the block that acquires it.
LeaveBlock(w) ==
    /\ at[w] = "inside"
    /\ Pool!Release(w) /\ Go(w, "outside")
    /\ UNCHANGED attempt

\* prepare_call, which may throw, and stream.
Stream(w) ==
    /\ at[w] = "outside"
    /\ \/ Go(w, "streaming") \/ Go(w, "idle")
    /\ UNCHANGED <<held, attempt>>

\* The stream ends; a context too long for the model is compacted once.
Settle(w) ==
    /\ at[w] = "streaming"
    /\ \/ Go(w, "idle")
       \/ attempt[w] = 0 /\ Go(w, "summary")
    /\ UNCHANGED <<held, attempt>>

\* A turn goes on to its second attempt, with or without a shorter context.
AfterSummary(w) ==
    \/ w \in Turns    /\ Go(w, "acquiring") /\ attempt' = [attempt EXCEPT ![w] = 1]
    \/ w \notin Turns /\ Go(w, "idle") /\ UNCHANGED attempt

\* A summary streams while its Slot lives.
Summarise(w) ==
    /\ at[w] = "summary"
    /\ \/ Pool!Acquire(w) /\ Go(w, "summarising") /\ UNCHANGED attempt
       \/ AfterSummary(w) /\ UNCHANGED held

Summarised(w) ==
    /\ at[w] = "summarising"
    /\ Pool!Release(w) /\ AfterSummary(w)

Next == \E w \in Workers :
            \/ Begin(w) \/ Acquire(w) \/ LeaveBlock(w) \/ Stream(w)
            \/ Settle(w) \/ Summarise(w) \/ Summarised(w)

Spec == Init /\ [][Next]_vars

-----------------------------------------------------------------------------
(* Properties *)

\* "every provider call (including compaction) is bracketed by one RAII `Slot`"
\* (A12): whoever streams holds a slot, so at most Capacity stream at once.
EveryStreamHoldsASlot == Streaming \subseteq held
=============================================================================
