---------------------------- MODULE ToolScheduler ----------------------------
(***************************************************************************)
(* execute_tool_calls: the tool calls of one response.  The loop thread    *)
(* goes through them in the model's order; a parallel-safe call runs on a  *)
(* thread of its own, at most Bound at a time, an exclusive one on the     *)
(* loop thread with nothing beside it.  The turn may be cancelled at any   *)
(* moment, a call may be decided without running, an append or the start   *)
(* of a thread may throw.                                                  *)
(***************************************************************************)
EXTENDS Naturals, Sequences, FiniteSets

CONSTANTS N,            \* calls in the response
          Bound         \* max_parallel_tool_calls, clamped to at least one

ASSUME NAssumption     == N \in Nat
ASSUME BoundAssumption == Bound \in Nat \ {0}

VARIABLES
    mode,               \* the concurrency mode of each call's tool
    at,                 \* where the loop thread is
    after,              \* where it goes once drain_all is through
    index,              \* the loops' index
    inFlight,           \* in_flight: calls started and not collected
    tool,               \* the run of each call
    requested,          \* calls with a ToolCall event
    results,            \* ToolResult events: the call, and "own" or "synthetic"
    cancelled           \* the turn's token

vars == <<mode, at, after, index, inFlight, tool, requested, results, cancelled>>

Calls == 1..N
Places == {"top", "prepare", "permitted", "decided", "drain", "exclusive",
           "running", "finish", "synthesize", "failing", "done", "failed"}

Init == /\ mode \in [Calls -> {"parallel", "exclusive"}]
        /\ at = "top" /\ after = "finish" /\ index = 1
        /\ inFlight = <<>>
        /\ tool = [i \in Calls |-> "idle"]
        /\ requested = {} /\ results = <<>>
        /\ cancelled = FALSE

Committed == {results[j][1] : j \in 1..Len(results)}

Record(i, kind) == results' = Append(results, <<i, kind>>)

\* drain_all, and then on to place.
DrainThen(place) == at' = "drain" /\ after' = place

-----------------------------------------------------------------------------
(* The loop *)

\* An abort that does not wait for what it started.
LeaveAtOnce ==
    /\ at = "top" /\ (index > N \/ cancelled)
    /\ at' = "finish"
    /\ UNCHANGED <<mode, after, index, inFlight, tool, requested, results, cancelled>>

Leave ==
    /\ at = "top" /\ (index > N \/ cancelled)
    /\ DrainThen("finish")
    /\ UNCHANGED <<mode, index, inFlight, tool, requested, results, cancelled>>

\* An exclusive call that does not wait for the parallel ones.
NoBarrier ==
    /\ at = "top" /\ index <= N /\ ~cancelled /\ mode[index] = "exclusive"
    /\ at' = "exclusive"
    /\ UNCHANGED <<mode, after, index, inFlight, tool, requested, results, cancelled>>

Barrier ==
    /\ at = "top" /\ index <= N /\ ~cancelled /\ mode[index] = "exclusive"
    /\ DrainThen("exclusive")
    /\ UNCHANGED <<mode, index, inFlight, tool, requested, results, cancelled>>

Admit ==
    /\ at = "top" /\ index <= N /\ ~cancelled /\ mode[index] = "parallel"
    /\ Len(inFlight) < Bound
    /\ at' = "prepare"
    /\ UNCHANGED <<mode, after, index, inFlight, tool, requested, results, cancelled>>

\* The pool is full: the oldest call is collected first.
Roll ==
    /\ at = "top" /\ index <= N /\ mode[index] = "parallel"
    /\ Len(inFlight) >= Bound /\ tool[Head(inFlight)] = "finished"
    /\ Record(Head(inFlight), "own")
    /\ inFlight' = Tail(inFlight)
    /\ IF cancelled THEN DrainThen("finish") ELSE at' = "prepare" /\ UNCHANGED after
    /\ UNCHANGED <<mode, index, tool, requested, cancelled>>

\* prepareToolCall: the ToolCall event, the plan-mode checks, the permission.
Prepare ==
    /\ at = "prepare"
    /\ requested' = requested \cup {index}
    /\ \/ at' = "permitted" /\ UNCHANGED after
       \/ DrainThen("decided")
    /\ UNCHANGED <<mode, index, inFlight, tool, results, cancelled>>

Start ==
    /\ at = "permitted"
    /\ \/ /\ cancelled
          /\ DrainThen("finish") /\ UNCHANGED <<index, inFlight, tool>>
       \/ /\ ~cancelled
          /\ tool' = [tool EXCEPT ![index] = "running"]
          /\ inFlight' = Append(inFlight, index)
          /\ index' = index + 1
          /\ at' = "top" /\ UNCHANGED after
    /\ UNCHANGED <<mode, requested, results, cancelled>>

\* An exclusive call that runs before its ToolCall event.
ExclusiveUnrequested ==
    /\ at = "exclusive" /\ ~cancelled
    /\ at' = "running" /\ tool' = [tool EXCEPT ![index] = "running"]
    /\ UNCHANGED <<mode, after, index, inFlight, requested, results, cancelled>>

\* executeToolCall: the same on the loop thread, behind the barrier.
Exclusive ==
    /\ at = "exclusive"
    /\ \/ /\ cancelled
          /\ at' = "finish" /\ UNCHANGED <<tool, requested>>
       \/ /\ ~cancelled
          /\ requested' = requested \cup {index}
          /\ \/ at' = "decided" /\ UNCHANGED tool
             \/ at' = "running" /\ tool' = [tool EXCEPT ![index] = "running"]
    /\ UNCHANGED <<mode, after, index, inFlight, results, cancelled>>

\* The result of a call that was denied or rejected, or ran on this thread.
Commit ==
    /\ \/ at = "decided"
       \/ at = "running" /\ tool[index] = "finished"
    /\ Record(index, "own")
    /\ index' = index + 1
    /\ at' = "top"
    /\ UNCHANGED <<mode, after, inFlight, tool, requested, cancelled>>

\* Whichever call has finished is collected, not the oldest.
CollectAny ==
    /\ at = "drain"
    /\ \E j \in 1..Len(inFlight) :
          /\ tool[inFlight[j]] = "finished"
          /\ Record(inFlight[j], "own")
          /\ inFlight' = SubSeq(inFlight, 1, j - 1) \o SubSeq(inFlight, j + 1, Len(inFlight))
    /\ UNCHANGED <<mode, at, after, index, tool, requested, cancelled>>

Collect ==
    /\ at = "drain" /\ inFlight # <<>>
    /\ tool[Head(inFlight)] = "finished"
    /\ Record(Head(inFlight), "own")
    /\ inFlight' = Tail(inFlight)
    /\ UNCHANGED <<mode, at, after, index, tool, requested, cancelled>>

Drained ==
    /\ at = "drain" /\ inFlight = <<>>
    /\ at' = after
    /\ UNCHANGED <<mode, after, index, inFlight, tool, requested, results, cancelled>>

-----------------------------------------------------------------------------
(* The end: synthetic results for what an abort left out *)

\* An abort that leaves the calls it did not start without a result.
FinishAsIs ==
    /\ at = "finish"
    /\ at' = "done"
    /\ UNCHANGED <<mode, after, index, inFlight, tool, requested, results, cancelled>>

Finish ==
    /\ at = "finish"
    /\ index' = 1
    /\ at' = IF cancelled THEN "synthesize" ELSE "done"
    /\ UNCHANGED <<mode, after, inFlight, tool, requested, results, cancelled>>

\* The search for unanswered calls stops at an answered one.
SynthesizeStuck ==
    /\ at = "synthesize"
    /\ IF index > N
       THEN at' = "done" /\ UNCHANGED <<index, results>>
       ELSE /\ index \notin Committed /\ index' = index + 1 /\ UNCHANGED at
            /\ Record(index, "synthetic")
    /\ UNCHANGED <<mode, after, inFlight, tool, requested, cancelled>>

Synthesize ==
    /\ at = "synthesize"
    /\ IF index > N
       THEN at' = "done" /\ UNCHANGED <<index, results>>
       ELSE /\ index' = index + 1 /\ UNCHANGED at
            /\ IF index \in Committed THEN UNCHANGED results
                                      ELSE Record(index, "synthetic")
    /\ UNCHANGED <<mode, after, inFlight, tool, requested, cancelled>>

-----------------------------------------------------------------------------
(* Exceptions: what is in flight is collected before they go on *)

\* An append threw before the result was recorded, or the reminder's after it.
MayRecord(i) == Record(i, "own") \/ UNCHANGED results

\* prepareToolCall threw, before or after its ToolCall event.
RequestFails ==
    /\ at = "prepare" \/ (at = "exclusive" /\ ~cancelled)
    /\ at' = "failing"
    /\ requested' \in {requested, requested \cup {index}}
    /\ UNCHANGED <<mode, after, index, inFlight, tool, results, cancelled>>

\* No thread could be started, or a synthetic result could not be recorded.
StartFails ==
    /\ \/ at = "permitted" /\ ~cancelled
       \/ at = "synthesize" /\ index <= N /\ index \notin Committed
    /\ at' = "failing"
    /\ UNCHANGED <<mode, after, index, inFlight, tool, requested, results, cancelled>>

CommitFails ==
    /\ \/ at = "decided"
       \/ at = "running" /\ tool[index] = "finished"
    /\ at' = "failing"
    /\ MayRecord(index)
    /\ UNCHANGED <<mode, after, index, inFlight, tool, requested, cancelled>>

\* The oldest call in flight is out of the pool, or its future is spent, before
\* its result is recorded: nothing tries again.
CollectFails ==
    /\ \/ at = "drain"
       \/ at = "top" /\ index <= N /\ mode[index] = "parallel" /\ Len(inFlight) >= Bound
    /\ inFlight # <<>> /\ tool[Head(inFlight)] = "finished"
    /\ at' = "failing"
    /\ MayRecord(Head(inFlight))
    /\ inFlight' = Tail(inFlight)
    /\ UNCHANGED <<mode, after, index, tool, requested, cancelled>>

\* The handler gives each call still in flight one try, and swallows what it throws.
Salvage ==
    /\ at = "failing" /\ inFlight # <<>> /\ tool[Head(inFlight)] = "finished"
    /\ MayRecord(Head(inFlight))
    /\ inFlight' = Tail(inFlight)
    /\ UNCHANGED <<mode, at, after, index, tool, requested, cancelled>>

Rethrow ==
    /\ at = "failing" /\ inFlight = <<>>
    /\ at' = "failed"
    /\ UNCHANGED <<mode, after, index, inFlight, tool, requested, results, cancelled>>

-----------------------------------------------------------------------------
(* The tools, and the rest of the daemon *)

ToolFinishes(i) ==
    /\ tool[i] = "running"
    /\ tool' = [tool EXCEPT ![i] = "finished"]
    /\ UNCHANGED <<mode, at, after, index, inFlight, requested, results, cancelled>>

Cancel ==
    /\ ~cancelled /\ cancelled' = TRUE
    /\ UNCHANGED <<mode, at, after, index, inFlight, tool, requested, results>>

Loop == \/ Leave \/ Barrier \/ Admit \/ Roll \/ Prepare \/ Start
        \/ Exclusive \/ Commit \/ Collect \/ Drained \/ Finish \/ Synthesize
        \/ RequestFails \/ StartFails \/ CommitFails \/ CollectFails \/ Salvage \/ Rethrow

Next == Loop \/ Cancel \/ \E i \in Calls : ToolFinishes(i)

Spec == Init /\ [][Next]_vars

\* The loop thread runs; a tool ends (it has a deadline and the turn's token).
Fairness == WF_vars(Loop) /\ \A i \in Calls : WF_vars(ToolFinishes(i))

FairSpec == Spec /\ Fairness

-----------------------------------------------------------------------------
(* Properties *)

\* Every variable keeps its type.
TypeOK == /\ mode \in [Calls -> {"parallel", "exclusive"}]
          /\ at \in Places /\ after \in {"finish", "exclusive", "decided"}
          /\ index \in 1..(N + 1)
          /\ inFlight \in Seq(Calls)
          /\ tool \in [Calls -> {"idle", "running", "finished"}]
          /\ requested \subseteq Calls
          /\ results \in Seq(Calls \X {"own", "synthetic"})
          /\ cancelled \in BOOLEAN

Running == {i \in Calls : tool[i] = "running"}

\* "results ... remain model-ordered": whatever order the tools end in, and
\* whichever appends fail, the results recorded are in order and each call's once.
ResultsInModelOrder ==
    \A j, k \in 1..Len(results) : j < k => results[j][1] < results[k][1]

\* "so replay stays valid": a schedule that ends, cancelled or not, has recorded
\* a result for every call.
EveryCallAnswered == at = "done" => Committed = Calls

\* "Exclusive calls form barriers": nothing runs beside an exclusive call.
ExclusiveAlone ==
    \A i \in Running : mode[i] = "exclusive" => Running = {i}

\* "a bounded rolling pool".
PoolBounded == Cardinality(Running) <= Bound

\* "Abort drains started calls and records synthetic Cancelled results for
\* unstarted calls": what ran has its own result, and nothing runs on when the
\* schedule has ended, by whichever way.
AbortDrains ==
    /\ \A j \in 1..Len(results) : results[j][2] = "synthetic"
                                    => tool[results[j][1]] = "idle"
    /\ at \in {"done", "failed"} => Running = {}

\* "Policy ... model-ordered": the calls requested so far are the first ones, and
\* a result that is not synthetic answers a requested call.
RequestsInOrder ==
    /\ \A i \in requested : \A k \in 1..i : k \in requested
    /\ \A j \in 1..Len(results) : results[j][2] = "own" => results[j][1] \in requested

\* The schedule ends.
ScheduleEnds == <>(at \in {"done", "failed"})
=============================================================================
