------------------------- MODULE ToolSchedulerProofs -------------------------
(***************************************************************************)
(* Theorems of ToolScheduler, for every number of calls, every bound and   *)
(* every mix of concurrency modes.                                         *)
(*                                                                         *)
(* The argument: while nothing has been thrown the recorded results are    *)
(* the first calls, what is in flight are the calls right after them, and  *)
(* the loop's index comes right after those.  An exception leaves gaps:    *)
(* from then on what is in flight only lies beyond what is recorded.       *)
(***************************************************************************)
EXTENDS ToolScheduler, FiniteSetTheorems, TLAPS

\* Nothing has been thrown.
Recording == at \notin {"failing", "failed"}

\* Places inside the first loop, or in the exit from it.
InLoop == at \in {"top", "prepare", "permitted", "decided", "drain", "exclusive",
                  "running"}

\* The results recorded are those of the first calls.
FirstCalls == \A j \in 1..Len(results) : results[j][1] = j

\* What has been thrown leaves the calls in flight beyond those recorded.
Ahead == inFlight # <<>> => \A j \in 1..Len(results) : results[j][1] < inFlight[1]

\* What is in flight follows what is recorded, and the index follows both.
Contiguous ==
    /\ Recording => \A j \in 1..Len(inFlight) : inFlight[j] = Len(results) + j
    /\ InLoop => index = Len(results) + Len(inFlight) + 1
    /\ \A j \in 1..Len(inFlight) : inFlight[j] = inFlight[1] + j - 1
    /\ at = "failing" => Ahead

\* The loop looks at calls that exist, and nothing is in flight where it waits
\* for nothing.
Located ==
    /\ at \in {"prepare", "permitted", "decided", "exclusive", "running"} => index <= N
    /\ at = "drain" /\ after # "finish" => index <= N
    /\ at \in {"decided", "exclusive", "running", "finish", "synthesize", "done", "failed"}
         => inFlight = <<>>

\* A loop left early was left because of a cancellation.
LeftEarly ==
    /\ at = "drain" /\ after = "finish" => index > N \/ cancelled
    /\ at = "finish" => Len(results) = N \/ cancelled
    /\ at = "synthesize" => index <= Len(results) + 1
    /\ at = "done" => Len(results) = N

IInv == TypeOK /\ ResultsInModelOrder /\ (Recording => FirstCalls) /\ Contiguous /\ Located /\ LeftEarly

\* A call that runs is in flight, or is the exclusive one on the loop thread;
\* what is in flight is parallel-safe and fits the pool.
RunsKnown ==
    /\ \A i \in Running : \/ \E j \in 1..Len(inFlight) : inFlight[j] = i
                          \/ at = "running" /\ i = index
    /\ \A j \in 1..Len(inFlight) : mode[inFlight[j]] = "parallel"
    /\ at \in {"prepare", "permitted"}
         => mode[index] = "parallel" /\ Len(inFlight) < Bound
    /\ Len(inFlight) <= Bound

\* A call beyond those recorded and in flight has not been started, and a
\* synthetic result stands for a call that never was.
Unstarted ==
    /\ Recording => \A i \in Calls :
          \/ i <= Len(results) + Len(inFlight)
          \/ at = "running" /\ i = index
          \/ tool[i] = "idle"
    /\ \A j \in 1..Len(results) : results[j][2] = "synthetic"
                                    => tool[results[j][1]] = "idle"

USE NAssumption, BoundAssumption

LEMMA RunsInv == IInv /\ RunsKnown => ExclusiveAlone
<1> SUFFICES ASSUME IInv, RunsKnown,
                    NEW i \in Running, mode[i] = "exclusive",
                    NEW k \in Running
             PROVE  k = i
    BY DEF ExclusiveAlone
<1>1. at = "running" /\ i = index
    BY DEF RunsKnown
<1>2. inFlight = <<>>
    BY <1>1 DEF IInv, Located
<1>3. QED
    BY <1>1, <1>2 DEF RunsKnown

\* What is in flight is a stretch of calls no longer than the pool.
LEMMA PoolInv == IInv /\ RunsKnown => PoolBounded
<1> SUFFICES ASSUME IInv, RunsKnown PROVE PoolBounded
    OBVIOUS
<1>1. CASE inFlight = <<>>
  <2>1. Running \subseteq {index}
      BY <1>1 DEF RunsKnown
  <2>2. IsFiniteSet({index}) /\ Cardinality({index}) = 1
      BY FS_Singleton
  <2>3. Cardinality(Running) <= 1 /\ Cardinality(Running) \in Nat
      BY <2>1, <2>2, FS_Subset, FS_CardinalityType
  <2>4. QED
      BY <2>3 DEF PoolBounded
<1>2. CASE inFlight # <<>>
  <2> DEFINE a == inFlight[1]
             b == a + Len(inFlight) - 1
  <2>1. Len(inFlight) \in Nat /\ Len(inFlight) >= 1 /\ a \in Nat
      BY <1>2 DEF IInv, TypeOK, Calls
  <2>2. at # "running"
      BY <1>2 DEF IInv, Located
  <2>3. ASSUME NEW i \in Running PROVE i \in a..b
    <3>1. PICK j \in 1..Len(inFlight) : inFlight[j] = i
        BY <2>2 DEF RunsKnown
    <3>2. i = a + j - 1
        BY <3>1 DEF IInv, Contiguous
    <3>3. QED
        BY <2>1, <3>2
  <2>4. IsFiniteSet(a..b) /\ Cardinality(a..b) = Len(inFlight)
    <3>1. a \in Int /\ b \in Int /\ a <= b /\ b - a + 1 = Len(inFlight)
        BY <2>1
    <3> HIDE DEF a, b
    <3>2. IsFiniteSet(a..b) /\ Cardinality(a..b) = IF a > b THEN 0 ELSE b - a + 1
        BY <3>1, FS_Interval, Zenon
    <3>3. QED
        BY <3>1, <3>2
  <2>5. Cardinality(Running) <= Len(inFlight) /\ Cardinality(Running) \in Nat
      BY <2>3, <2>4, FS_Subset, FS_CardinalityType
  <2>6. QED
      BY <2>1, <2>5 DEF PoolBounded, RunsKnown
<1>3. QED
    BY <1>1, <1>2

\* Once every call has a result in order, the calls with a result are all calls.
LEMMA AllCommitted == IInv => EveryCallAnswered
<1> SUFFICES ASSUME IInv, at = "done" PROVE Committed = Calls
    BY DEF EveryCallAnswered
<1>1. Len(results) = N
    BY DEF IInv, LeftEarly
<1>2. \A j \in 1..N : results[j][1] = j
    BY <1>1 DEF IInv, Recording, FirstCalls
<1>3. QED
    BY <1>1, <1>2 DEF Committed, Calls

LEMMA DrainsInv == IInv /\ RunsKnown /\ Unstarted => AbortDrains
<1> SUFFICES ASSUME IInv, RunsKnown, Unstarted PROVE AbortDrains
    OBVIOUS
<1>1. at \in {"done", "failed"} => Running = {}
    BY DEF IInv, Located, RunsKnown
<1>2. QED
    BY <1>1 DEF AbortDrains, Unstarted

\* The oldest call leaves the pool.
Popped ==
    /\ inFlight # <<>> /\ inFlight' \in Seq(Calls)
    /\ Len(inFlight') = Len(inFlight) - 1
    /\ \A j \in 1..Len(inFlight') : inFlight'[j] = inFlight[j + 1]
    /\ inFlight[1] \in Calls /\ tool[inFlight[1]] = "finished"

\* A call joins it.
Pushed(i) ==
    /\ inFlight' \in Seq(Calls)
    /\ Len(inFlight') = Len(inFlight) + 1
    /\ \A j \in 1..Len(inFlight) : inFlight'[j] = inFlight[j]
    /\ inFlight'[Len(inFlight) + 1] = i

\* A call gets its result.
Recorded(i, kind) ==
    /\ i \in Calls
    /\ results' \in Seq(Calls \X {"own", "synthetic"})
    /\ Len(results') = Len(results) + 1
    /\ \A j \in 1..Len(results) : results'[j] = results[j]
    /\ results'[Len(results) + 1] = <<i, kind>>

LEMMA RecordFacts ==
    ASSUME TypeOK, NEW i \in Calls, NEW kind \in {"own", "synthetic"}, Record(i, kind)
    PROVE  Recorded(i, kind)
<1> DEFINE e == <<i, kind>>
<1>1. e \in Calls \X {"own", "synthetic"} /\ results \in Seq(Calls \X {"own", "synthetic"})
    BY DEF TypeOK
<1>2. results' = Append(results, e)
    BY DEF Record
<1> HIDE DEF e
<1>3. /\ results' \in Seq(Calls \X {"own", "synthetic"})
      /\ Len(results') = Len(results) + 1
      /\ \A j \in 1..Len(results) : results'[j] = results[j]
      /\ results'[Len(results) + 1] = e
    BY <1>1, <1>2
<1>4. QED
    BY <1>3 DEF Recorded, e

LEMMA PopFacts ==
    ASSUME TypeOK, inFlight # <<>>, tool[Head(inFlight)] = "finished",
           inFlight' = Tail(inFlight)
    PROVE  Popped /\ Head(inFlight) = inFlight[1]
BY DEF TypeOK, Popped

LEMMA RollFacts == IInv /\ Roll => Popped /\ Recorded(inFlight[1], "own")
<1> SUFFICES ASSUME IInv, Roll PROVE Popped /\ Recorded(inFlight[1], "own")
    OBVIOUS
<1>1. TypeOK /\ inFlight # <<>>
    BY DEF IInv, TypeOK, Roll
<1>2. Popped /\ Head(inFlight) = inFlight[1]
    BY <1>1, PopFacts DEF Roll
<1>3. QED
    BY <1>1, <1>2, RecordFacts DEF Roll, Popped

LEMMA CollectFacts == IInv /\ Collect => Popped /\ Recorded(inFlight[1], "own")
<1> SUFFICES ASSUME IInv, Collect PROVE Popped /\ Recorded(inFlight[1], "own")
    OBVIOUS
<1>1. TypeOK
    BY DEF IInv
<1>2. Popped /\ Head(inFlight) = inFlight[1]
    BY <1>1, PopFacts DEF Collect
<1>3. QED
    BY <1>1, <1>2, RecordFacts DEF Collect, Popped

\* What an exception takes out of the pool is recorded or lost.
LEMMA LoseFacts ==
    IInv /\ (CollectFails \/ Salvage)
        => Popped /\ (Recorded(inFlight[1], "own") \/ UNCHANGED results)
<1> SUFFICES ASSUME IInv, CollectFails \/ Salvage
             PROVE  Popped /\ (Recorded(inFlight[1], "own") \/ UNCHANGED results)
    OBVIOUS
<1>1. TypeOK
    BY DEF IInv
<1>2. Popped /\ Head(inFlight) = inFlight[1]
    BY <1>1, PopFacts DEF CollectFails, Salvage
<1>3. MayRecord(inFlight[1])
    BY <1>2 DEF CollectFails, Salvage
<1>4. QED
    BY <1>1, <1>2, <1>3, RecordFacts DEF MayRecord, Popped

LEMMA CommitFailsFacts ==
    IInv /\ CommitFails =>
        /\ Recorded(index, "own") \/ UNCHANGED results
        /\ index = Len(results) + 1 /\ Recording /\ inFlight = <<>>
<1> SUFFICES ASSUME IInv, CommitFails
             PROVE  /\ Recorded(index, "own") \/ UNCHANGED results
                    /\ index = Len(results) + 1 /\ Recording /\ inFlight = <<>>
    OBVIOUS
<1>1. index \in Calls /\ inFlight = <<>> /\ Recording
    BY DEF IInv, TypeOK, Located, CommitFails, Calls, Recording
<1>2. index = Len(results) + 1
    BY <1>1 DEF IInv, TypeOK, Contiguous, InLoop, CommitFails
<1>3. QED
    BY <1>1, <1>2, RecordFacts DEF CommitFails, MayRecord, IInv

LEMMA StartFacts == IInv /\ Start /\ ~cancelled => index \in Calls /\ Pushed(index)
<1> SUFFICES ASSUME IInv, Start, ~cancelled PROVE index \in Calls /\ Pushed(index)
    OBVIOUS
<1>1. index \in Calls /\ inFlight \in Seq(Calls) /\ inFlight' = Append(inFlight, index)
    BY DEF IInv, TypeOK, Located, Start, Calls
<1>2. QED
    BY <1>1 DEF Pushed

LEMMA CommitFacts == IInv /\ Commit => Recorded(index, "own")
<1> SUFFICES ASSUME IInv, Commit PROVE Recorded(index, "own")
    OBVIOUS
<1>1. index \in Calls
    BY DEF IInv, TypeOK, Located, Commit, Calls
<1>2. QED
    BY <1>1, RecordFacts DEF Commit, IInv

\* An index the synthesis skips has a result; one it does not is the next one.
LEMMA SynthesizeFacts ==
    IInv /\ Synthesize =>
        \/ index > N /\ Len(results) = N /\ UNCHANGED results
        \/ index <= Len(results) /\ index <= N /\ UNCHANGED results
        \/ index = Len(results) + 1 /\ Recorded(index, "synthetic")
<1> SUFFICES ASSUME IInv, Synthesize
             PROVE  \/ index > N /\ Len(results) = N /\ UNCHANGED results
                    \/ index <= Len(results) /\ index <= N /\ UNCHANGED results
                    \/ index = Len(results) + 1 /\ Recorded(index, "synthetic")
    OBVIOUS
<1>1. /\ Len(results) \in Nat /\ index \in 1..(N + 1) /\ index <= Len(results) + 1
      /\ \A j \in 1..Len(results) : results[j][1] = j /\ results[j][1] \in Calls
    BY DEF IInv, TypeOK, LeftEarly, Recording, FirstCalls, Synthesize
<1>2. Len(results) <= N
    BY <1>1 DEF Calls
<1>3. \A i \in Calls : i \in Committed <=> i <= Len(results)
    BY <1>1, <1>2 DEF Committed, Calls
<1>4. CASE index > N
    BY <1>1, <1>2, <1>4 DEF Synthesize
<1>5. CASE index <= N
  <2>1. index \in Calls
      BY <1>1, <1>5 DEF Calls
  <2>2. CASE index \in Committed
      BY <1>3, <1>5, <2>1, <2>2 DEF Synthesize
  <2>3. CASE index \notin Committed
    <3>1. index = Len(results) + 1
        BY <1>1, <1>3, <2>1, <2>3
    <3>2. Record(index, "synthetic")
        BY <1>1, <1>5, <2>3 DEF Synthesize, Record
    <3>3. Recorded(index, "synthetic")
        BY <2>1, <3>2, RecordFacts DEF IInv
    <3>4. QED
        BY <3>1, <3>3
  <2>4. QED
      BY <2>2, <2>3
<1>6. QED
    BY <1>1, <1>4, <1>5

\* The oldest call in flight is the one whose result comes next.
LEMMA PopKeeps ==
    ASSUME IInv, Recording, Popped, Recorded(inFlight[1], "own")
    PROVE  /\ FirstCalls'
           /\ Len(results') + Len(inFlight') = Len(results) + Len(inFlight)
           /\ \A j \in 1..Len(inFlight') :
                 /\ inFlight'[j] = Len(results') + j
                 /\ inFlight'[j] = inFlight'[1] + j - 1
<1>1. /\ Len(results) \in Nat /\ Len(inFlight) \in Nat /\ Len(inFlight) >= 1
      /\ Len(results') = Len(results) + 1 /\ Len(inFlight') = Len(inFlight) - 1
    BY DEF IInv, TypeOK, Popped, Recorded
<1>2. \A j \in 1..Len(inFlight) : inFlight[j] = Len(results) + j
    BY DEF IInv, Contiguous
<1>3. FirstCalls'
  <2>1. results'[Len(results) + 1][1] = Len(results) + 1
      BY <1>1, <1>2 DEF Recorded
  <2>2. \A j \in 1..Len(results) : results'[j][1] = j
      BY DEF IInv, FirstCalls, Recorded
  <2>3. QED
      BY <1>1, <2>1, <2>2 DEF FirstCalls
<1>4. ASSUME NEW j \in 1..Len(inFlight')
      PROVE  inFlight'[j] = Len(results') + j
  <2>1. j + 1 \in 1..Len(inFlight) /\ inFlight'[j] = inFlight[j + 1]
      BY <1>1 DEF Popped
  <2>2. QED
      BY <1>1, <1>2, <2>1
<1>5. ASSUME NEW j \in 1..Len(inFlight')
      PROVE  inFlight'[j] = inFlight'[1] + j - 1
  <2>1. 1 \in 1..Len(inFlight') /\ Len(results') \in Nat
      BY <1>1
  <2>2. inFlight'[1] = Len(results') + 1 /\ inFlight'[j] = Len(results') + j
      BY <1>4, <2>1
  <2>3. QED
      BY <2>1, <2>2
<1>6. QED
    BY <1>1, <1>3, <1>4, <1>5

\* What is in flight lies beyond what is recorded, thrown or not.
LEMMA AheadAlways == IInv => Ahead
<1> SUFFICES ASSUME IInv, inFlight # <<>>, NEW j \in 1..Len(results)
             PROVE  results[j][1] < inFlight[1]
    BY DEF Ahead
<1>1. CASE Recording
  <2>1. results[j][1] = j /\ inFlight[1] = Len(results) + 1 /\ Len(results) \in Nat
      BY <1>1 DEF IInv, TypeOK, FirstCalls, Contiguous
  <2>2. QED
      BY <2>1
<1>2. CASE at = "failing"
    BY <1>2 DEF IInv, Contiguous, Ahead
<1>3. CASE at = "failed"
    BY <1>3 DEF IInv, Located
<1>4. QED
    BY <1>1, <1>2, <1>3 DEF Recording

\* A result of a call beyond those recorded keeps the order.
LEMMA RecordOrdered ==
    ASSUME IInv, NEW i, NEW kind, Recorded(i, kind),
           \A j \in 1..Len(results) : results[j][1] < i
    PROVE  ResultsInModelOrder'
<1>1. Len(results) \in Nat /\ Len(results') = Len(results) + 1
    BY DEF IInv, TypeOK, Recorded
<1>2. ASSUME NEW j \in 1..Len(results'), NEW k \in 1..Len(results'), j < k
      PROVE  results'[j][1] < results'[k][1]
  <2>1. j \in 1..Len(results) /\ results'[j] = results[j]
      BY <1>1, <1>2 DEF Recorded
  <2>2. CASE k = Len(results) + 1
      BY <2>1, <2>2 DEF Recorded
  <2>3. CASE k \in 1..Len(results)
    <3>1. results'[k] = results[k]
        BY <2>3 DEF Recorded
    <3>2. QED
        BY <1>2, <2>1, <2>3, <3>1 DEF IInv, ResultsInModelOrder
  <2>4. QED
      BY <1>1, <2>2, <2>3
<1>3. QED
    BY <1>2 DEF ResultsInModelOrder

\* With or without its result, the oldest call leaves a stretch beyond what is
\* recorded.
LEMMA LoseKeeps ==
    ASSUME IInv, Popped, Recorded(inFlight[1], "own") \/ UNCHANGED results
    PROVE  /\ \A j \in 1..Len(inFlight') : inFlight'[j] = inFlight'[1] + j - 1
           /\ Ahead'
<1>1. /\ Len(inFlight) \in Nat /\ Len(inFlight') = Len(inFlight) - 1 /\ inFlight[1] \in Nat
      /\ inFlight' \in Seq(Calls) /\ Len(results) \in Nat
    BY DEF IInv, TypeOK, Popped, Calls
<1>2. ASSUME NEW j \in 1..Len(inFlight')
      PROVE  inFlight'[j] = inFlight[1] + j
  <2>1. j + 1 \in 1..Len(inFlight) /\ inFlight'[j] = inFlight[j + 1]
      BY <1>1 DEF Popped
  <2>2. inFlight[j + 1] = inFlight[1] + (j + 1) - 1
      BY <2>1 DEF IInv, Contiguous
  <2>3. QED
      BY <1>1, <2>1, <2>2
<1>3. ASSUME NEW j \in 1..Len(inFlight')
      PROVE  inFlight'[j] = inFlight'[1] + j - 1
  <2>1. 1 \in 1..Len(inFlight')
      BY <1>1
  <2>2. inFlight'[1] = inFlight[1] + 1 /\ inFlight'[j] = inFlight[1] + j
      BY <1>2, <2>1
  <2>3. QED
      BY <1>1, <2>2
<1>4. ASSUME inFlight' # <<>>, NEW j \in 1..Len(results')
      PROVE  results'[j][1] < inFlight'[1]
  <2>1. inFlight'[1] = inFlight[1] + 1
      BY <1>1, <1>2, <1>4
  <2>2. \A k \in 1..Len(results) : results[k][1] < inFlight[1] /\ results[k][1] \in Nat
    <3>1. \A k \in 1..Len(results) : results[k][1] < inFlight[1]
        BY AheadAlways DEF Ahead, Popped
    <3>2. \A k \in 1..Len(results) : results[k] \in Calls \X {"own", "synthetic"}
        BY DEF IInv, TypeOK
    <3>3. QED
        BY <3>1, <3>2 DEF Calls
  <2>3. CASE UNCHANGED results
      BY <1>1, <2>1, <2>2, <2>3
  <2>4. CASE Recorded(inFlight[1], "own")
    <3>1. CASE j \in 1..Len(results)
        BY <1>1, <2>1, <2>2, <2>4, <3>1 DEF Recorded
    <3>2. CASE j = Len(results) + 1
        BY <1>1, <2>1, <2>4, <3>2 DEF Recorded
    <3>3. QED
        BY <1>1, <2>4, <3>1, <3>2 DEF Recorded
  <2>5. QED
      BY <2>3, <2>4
<1>5. QED
    BY <1>3, <1>4 DEF Ahead

\* A call that starts is the next one after those in flight.
LEMMA PushKeeps ==
    ASSUME IInv, InLoop, Recording, Pushed(index)
    PROVE  \A j \in 1..Len(inFlight') :
               /\ inFlight'[j] = Len(results) + j
               /\ inFlight'[j] = inFlight'[1] + j - 1
<1>1. /\ Len(results) \in Nat /\ Len(inFlight) \in Nat
      /\ Len(inFlight') = Len(inFlight) + 1
      /\ index = Len(results) + Len(inFlight) + 1
    BY DEF IInv, TypeOK, Pushed, Contiguous
<1>2. ASSUME NEW j \in 1..Len(inFlight') PROVE inFlight'[j] = Len(results) + j
  <2>1. CASE j \in 1..Len(inFlight)
      BY <2>1 DEF Pushed, IInv, Contiguous
  <2>2. CASE j = Len(inFlight) + 1
      BY <1>1, <2>2 DEF Pushed
  <2>3. QED
      BY <1>1, <2>1, <2>2
<1>3. QED
    BY <1>1, <1>2

\* The result of the call at the index is the next one when nothing is in flight.
LEMMA RecordKeeps ==
    ASSUME IInv, Recording, NEW kind, index = Len(results) + 1, Recorded(index, kind)
    PROVE  FirstCalls'
<1>1. Len(results) \in Nat /\ Len(results') = Len(results) + 1
    BY DEF IInv, TypeOK, Recorded
<1>2. results'[Len(results) + 1][1] = Len(results) + 1
    BY DEF Recorded
<1>3. \A j \in 1..Len(results) : results'[j][1] = j
    BY DEF IInv, FirstCalls, Recorded
<1>4. QED
    BY <1>1, <1>2, <1>3 DEF FirstCalls

\* Collecting a finished call loses no running one.
LEMMA PopRuns ==
    ASSUME IInv, RunsKnown, Popped, at # "running", UNCHANGED <<tool, mode>>
    PROVE  /\ \A i \in Running' : \E j \in 1..Len(inFlight') : inFlight'[j] = i
           /\ \A j \in 1..Len(inFlight') : mode'[inFlight'[j]] = "parallel"
           /\ Len(inFlight') < Bound
<1>1. Len(inFlight) \in Nat /\ Len(inFlight') = Len(inFlight) - 1
    BY DEF IInv, TypeOK, Popped
<1>2. ASSUME NEW i \in Running'
      PROVE  \E j \in 1..Len(inFlight') : inFlight'[j] = i
  <2>1. i \in Running /\ tool[i] = "running"
      BY DEF Running
  <2>2. PICK k \in 1..Len(inFlight) : inFlight[k] = i
      BY <2>1 DEF RunsKnown
  <2>3. k # 1
      BY <2>1, <2>2 DEF Popped
  <2>4. k - 1 \in 1..Len(inFlight') /\ inFlight'[k - 1] = inFlight[(k - 1) + 1]
      BY <1>1, <2>3 DEF Popped
  <2>5. QED
      BY <2>2, <2>4
<1>3. ASSUME NEW j \in 1..Len(inFlight')
      PROVE  mode'[inFlight'[j]] = "parallel"
  <2>1. j + 1 \in 1..Len(inFlight) /\ inFlight'[j] = inFlight[j + 1]
      BY <1>1 DEF Popped
  <2>2. QED
      BY <2>1 DEF RunsKnown
<1>4. QED
    BY <1>1, <1>2, <1>3 DEF RunsKnown

\* A result of its own makes no call look as if it had not been started.
LEMMA RecordUnstarted ==
    ASSUME IInv, NEW i, Recorded(i, "own"), UNCHANGED tool,
           \A j \in 1..Len(results) : results[j][2] = "synthetic"
                                        => tool[results[j][1]] = "idle"
    PROVE  \A j \in 1..Len(results') : results'[j][2] = "synthetic"
                                         => tool'[results'[j][1]] = "idle"
<1>1. Len(results) \in Nat /\ Len(results') = Len(results) + 1
    BY DEF IInv, TypeOK, Recorded
<1>2. results'[Len(results) + 1][2] = "own"
    BY DEF Recorded
<1>3. \A j \in 1..Len(results) : results'[j] = results[j]
    BY DEF Recorded
<1>4. QED
    BY <1>1, <1>2, <1>3

\* Every action keeps the types, given what is known of the index.
LEMMA TypeStep == IInv /\ [Next]_vars => TypeOK'
<1> SUFFICES ASSUME IInv, [Next]_vars PROVE TypeOK'
    OBVIOUS
<1> USE DEF IInv, TypeOK, Places, Calls, Located, Contiguous, InLoop, Recording
<1>1. CASE Leave
    BY <1>1 DEF Leave, DrainThen
<1>2. CASE Barrier
    BY <1>2 DEF Barrier, DrainThen
<1>3. CASE Admit
    BY <1>3 DEF Admit
<1>4. CASE Roll
    BY <1>4, RollFacts DEF Roll, DrainThen, Popped, Recorded
<1>5. CASE Prepare
    BY <1>5 DEF Prepare, DrainThen
<1>6. CASE Start
  <2>1. CASE cancelled
      BY <1>6, <2>1 DEF Start, DrainThen
  <2>2. CASE ~cancelled
    <3>1. index \in 1..N /\ inFlight' \in Seq(Calls)
        BY <1>6, <2>2, StartFacts DEF Pushed
    <3>2. index + 1 \in 1..(N + 1)
        BY <3>1
    <3>3. QED
        BY <1>6, <2>2, <3>1, <3>2 DEF Start
  <2>3. QED
      BY <2>1, <2>2
<1>7. CASE Exclusive
  <2>1. index \in 1..N
      BY <1>7 DEF Exclusive
  <2>2. requested' \subseteq 1..N /\ tool' \in [1..N -> {"idle", "running", "finished"}]
      BY <1>7, <2>1 DEF Exclusive
  <2>3. QED
      BY <1>7, <2>2 DEF Exclusive
<1>8. CASE Commit
  <2>1. index \in 1..N /\ results' \in Seq(Calls \X {"own", "synthetic"})
      BY <1>8, CommitFacts DEF Recorded
  <2>2. index + 1 \in 1..(N + 1)
      BY <2>1
  <2>3. QED
      BY <1>8, <2>1, <2>2 DEF Commit
<1>9. CASE Collect
    BY <1>9, CollectFacts DEF Collect, Popped, Recorded
<1>10. CASE Drained
    BY <1>10 DEF Drained
<1>11. CASE Finish
    BY <1>11 DEF Finish
<1>12. CASE Synthesize
    BY <1>12, SynthesizeFacts DEF Synthesize, Recorded
<1>13. CASE RequestFails
  <2>1. index \in 1..N
      BY <1>13 DEF RequestFails
  <2>2. requested' \subseteq 1..N
      BY <1>13, <2>1 DEF RequestFails
  <2>3. QED
      BY <1>13, <2>2 DEF RequestFails
<1>14. CASE StartFails
    BY <1>14 DEF StartFails
<1>15. CASE CommitFails
    BY <1>15, CommitFailsFacts DEF CommitFails, Recorded
<1>16. CASE CollectFails
    BY <1>16, LoseFacts DEF CollectFails, Popped, Recorded
<1>17. CASE Salvage
    BY <1>17, LoseFacts DEF Salvage, Popped, Recorded
<1>18. CASE Rethrow
    BY <1>18 DEF Rethrow
<1>19. CASE Cancel
    BY <1>19 DEF Cancel
<1>20. ASSUME NEW i \in Calls, ToolFinishes(i) PROVE TypeOK'
    BY <1>20 DEF ToolFinishes
<1>21. CASE UNCHANGED vars
    BY <1>21 DEF vars
<1>22. QED
    BY <1>1, <1>2, <1>3, <1>4, <1>5, <1>6, <1>7, <1>8, <1>9, <1>10,
       <1>11, <1>12, <1>13, <1>14, <1>15, <1>16, <1>17, <1>18, <1>19, <1>20, <1>21 DEF Next, Loop

\* Results, calls in flight and index move together.
LEMMA ShapeStep == IInv /\ [Next]_vars => ((Recording => FirstCalls) /\ Contiguous)'
<1> SUFFICES ASSUME IInv, [Next]_vars PROVE ((Recording => FirstCalls) /\ Contiguous)'
    OBVIOUS
<1> USE DEF IInv, TypeOK, Places, Calls, Located, Contiguous, LeftEarly, InLoop, Recording, FirstCalls
<1>1. CASE Leave
    BY <1>1 DEF Leave, DrainThen
<1>2. CASE Barrier
    BY <1>2 DEF Barrier, DrainThen
<1>3. CASE Admit
    BY <1>3 DEF Admit
<1>4. CASE Roll
  <2>1. Recording /\ Popped /\ Recorded(inFlight[1], "own")
      BY <1>4, RollFacts DEF Roll
  <2>2. /\ FirstCalls'
        /\ Len(results') + Len(inFlight') = Len(results) + Len(inFlight)
        /\ \A j \in 1..Len(inFlight') : /\ inFlight'[j] = Len(results') + j
                                         /\ inFlight'[j] = inFlight'[1] + j - 1
      BY <2>1, PopKeeps
  <2>3. InLoop /\ index' = index /\ at' # "failing"
      BY <1>4 DEF Roll, DrainThen
  <2> HIDE DEF FirstCalls
  <2>4. QED
      BY <2>2, <2>3
<1>5. CASE Prepare
    BY <1>5 DEF Prepare, DrainThen
<1>6. CASE Start
  <2>1. CASE cancelled
      BY <1>6, <2>1 DEF Start, DrainThen
  <2>2. CASE ~cancelled
    <3>1. /\ InLoop /\ Recording /\ Pushed(index) /\ results' = results /\ index' = index + 1
          /\ at' # "failing"
        BY <1>6, <2>2, StartFacts DEF Start
    <3>2. Len(inFlight') = Len(inFlight) + 1
        BY <3>1 DEF Pushed
    <3>3. \A j \in 1..Len(inFlight') : /\ inFlight'[j] = Len(results) + j
                                       /\ inFlight'[j] = inFlight'[1] + j - 1
        BY <3>1, PushKeeps
    <3>4. index' = Len(results') + Len(inFlight') + 1
      <4>1. index = Len(results) + Len(inFlight) + 1
          BY <3>1
      <4>2. Len(results) \in Nat /\ Len(inFlight) \in Nat
          OBVIOUS
      <4>3. Len(results') = Len(results) /\ index' = index + 1
          BY <3>1
      <4>4. QED
          BY ONLY <3>2, <4>1, <4>2, <4>3
    <3>5. (Recording => FirstCalls)'
        BY <3>1
    <3>6. Contiguous'
        BY ONLY <3>1, <3>3, <3>4 DEF Contiguous
    <3>7. QED
        BY <3>5, <3>6
  <2>3. QED
      BY <2>1, <2>2
<1>7. CASE Exclusive
    BY <1>7 DEF Exclusive
<1>8. CASE Commit
  <2>1. /\ inFlight = <<>> /\ inFlight' = <<>> /\ index' = index + 1 /\ Recording
        /\ at' # "failing"
      BY <1>8 DEF Commit
  <2>2. index = Len(results) + 1
      BY <1>8, <2>1 DEF Commit
  <2>3. Recorded(index, "own")
      BY <1>8, CommitFacts
  <2>4. FirstCalls' /\ Len(results') = Len(results) + 1
      BY <2>1, <2>2, <2>3, RecordKeeps DEF Recorded
  <2> HIDE DEF FirstCalls
  <2>5. QED
      BY <2>1, <2>2, <2>4
<1>9. CASE Collect
  <2>1. Recording /\ Popped /\ Recorded(inFlight[1], "own")
      BY <1>9, CollectFacts DEF Collect
  <2>2. /\ FirstCalls'
        /\ Len(results') + Len(inFlight') = Len(results) + Len(inFlight)
        /\ \A j \in 1..Len(inFlight') : /\ inFlight'[j] = Len(results') + j
                                         /\ inFlight'[j] = inFlight'[1] + j - 1
      BY <2>1, PopKeeps
  <2>3. InLoop /\ index' = index /\ at' # "failing"
      BY <1>9 DEF Collect
  <2> HIDE DEF FirstCalls
  <2>4. QED
      BY <2>2, <2>3
<1>10. CASE Drained
    BY <1>10 DEF Drained
<1>11. CASE Finish
    BY <1>11 DEF Finish
<1>12. CASE Synthesize
  <2>1. inFlight = <<>> /\ inFlight' = <<>> /\ ~InLoop' /\ Recording /\ at' # "failing"
      BY <1>12 DEF Synthesize
  <2>2. FirstCalls'
    <3>1. CASE UNCHANGED results
        BY <2>1, <3>1
    <3>2. CASE index = Len(results) + 1 /\ Recorded(index, "synthetic")
        BY <2>1, <3>2, RecordKeeps
    <3>3. QED
        BY <1>12, <3>1, <3>2, SynthesizeFacts
  <2> HIDE DEF FirstCalls
  <2>3. QED
      BY <2>1, <2>2
<1>13. CASE RequestFails
    BY <1>13, AheadAlways DEF RequestFails, Ahead
<1>14. CASE StartFails
    BY <1>14, AheadAlways DEF StartFails, Ahead
<1>15. CASE CommitFails
  <2>1. inFlight' = <<>> /\ at' = "failing"
      BY <1>15, CommitFailsFacts DEF CommitFails
  <2>2. QED
      BY <2>1 DEF Ahead
<1>16. CASE CollectFails
  <2>1. at' = "failing"
      BY <1>16 DEF CollectFails
  <2>2. QED
      BY <1>16, <2>1, LoseFacts, LoseKeeps
<1>17. CASE Salvage
  <2>1. at' = "failing"
      BY <1>17 DEF Salvage
  <2>2. QED
      BY <1>17, <2>1, LoseFacts, LoseKeeps
<1>18. CASE Rethrow
    BY <1>18 DEF Rethrow
<1>19. CASE Cancel
    BY <1>19 DEF Cancel, Ahead
<1>20. ASSUME NEW i \in Calls, ToolFinishes(i) PROVE ((Recording => FirstCalls) /\ Contiguous)'
    BY <1>20 DEF ToolFinishes, Ahead
<1>21. CASE UNCHANGED vars
    BY <1>21 DEF vars, Ahead
<1>22. QED
    BY <1>1, <1>2, <1>3, <1>4, <1>5, <1>6, <1>7, <1>8, <1>9, <1>10,
       <1>11, <1>12, <1>13, <1>14, <1>15, <1>16, <1>17, <1>18, <1>19, <1>20, <1>21 DEF Next, Loop

\* A result is recorded only for a call beyond those that have one.
LEMMA OrderStep == IInv /\ [Next]_vars => ResultsInModelOrder'
<1> SUFFICES ASSUME IInv, [Next]_vars PROVE ResultsInModelOrder'
    OBVIOUS
<1>1. CASE UNCHANGED results
    BY <1>1 DEF IInv, ResultsInModelOrder
<1>2. CASE Roll \/ Collect \/ CollectFails \/ Salvage
  <2>1. Popped /\ (Recorded(inFlight[1], "own") \/ UNCHANGED results)
      BY <1>2, RollFacts, CollectFacts, LoseFacts
  <2>2. \A j \in 1..Len(results) : results[j][1] < inFlight[1]
      BY <2>1, AheadAlways DEF Ahead, Popped
  <2>3. QED
      BY <1>1, <2>1, <2>2, RecordOrdered
<1>3. CASE Commit \/ CommitFails \/ Synthesize
  <2>1. /\ Recording
        /\ \/ UNCHANGED results
           \/ /\ index = Len(results) + 1
              /\ \E kind \in {"own", "synthetic"} : Recorded(index, kind)
    <3>1. CASE Commit
      <4>1. Recorded(index, "own") /\ inFlight = <<>> /\ Recording
          BY <3>1, CommitFacts DEF Commit, IInv, Located, Recording
      <4>2. index = Len(results) + 1
          BY <3>1, <4>1 DEF Commit, IInv, TypeOK, Contiguous, InLoop
      <4>3. QED
          BY <4>1, <4>2
    <3>2. CASE CommitFails
        BY <3>2, CommitFailsFacts
    <3>3. CASE Synthesize
        BY <3>3, SynthesizeFacts DEF Synthesize, Recording
    <3>4. QED
        BY <1>3, <3>1, <3>2, <3>3
  <2>2. \A j \in 1..Len(results) : results[j][1] < Len(results) + 1
    <3>1. Len(results) \in Nat /\ \A j \in 1..Len(results) : results[j][1] = j
        BY <2>1 DEF IInv, TypeOK, FirstCalls
    <3>2. QED
        BY <3>1
  <2>3. QED
      BY <1>1, <2>1, <2>2, RecordOrdered
<1>4. QED
    BY <1>1, <1>2, <1>3
       DEF Next, Loop, vars, Leave, Barrier, Admit, Prepare, Start, Exclusive, Drained, Finish,
           RequestFails, StartFails, Rethrow, Cancel, ToolFinishes

\* The loop is where its place in the source says.
LEMMA PlaceStep == IInv /\ [Next]_vars => (Located /\ LeftEarly)'
<1> SUFFICES ASSUME IInv, [Next]_vars PROVE (Located /\ LeftEarly)'
    OBVIOUS
<1> USE DEF IInv, TypeOK, Places, Calls, Located, Contiguous, LeftEarly, InLoop, Recording, FirstCalls
<1>1. CASE Leave
    BY <1>1 DEF Leave, DrainThen
<1>2. CASE Barrier
    BY <1>2 DEF Barrier, DrainThen
<1>3. CASE Admit
    BY <1>3 DEF Admit
<1>4. CASE Roll
    BY <1>4, RollFacts DEF Roll, DrainThen, Popped, Recorded
<1>5. CASE Prepare
    BY <1>5 DEF Prepare, DrainThen
<1>6. CASE Start
    BY <1>6, StartFacts DEF Start, DrainThen, Pushed
<1>7. CASE Exclusive
    BY <1>7 DEF Exclusive
<1>8. CASE Commit
    BY <1>8, CommitFacts DEF Commit, Recorded
<1>9. CASE Collect
    BY <1>9, CollectFacts DEF Collect, Popped, Recorded
<1>10. CASE Drained
    BY <1>10 DEF Drained
<1>11. CASE Finish
    BY <1>11 DEF Finish
<1>12. CASE Synthesize
    BY <1>12, SynthesizeFacts DEF Synthesize, Recorded
<1>13. CASE RequestFails
    BY <1>13 DEF RequestFails
<1>14. CASE StartFails
    BY <1>14 DEF StartFails
<1>15. CASE CommitFails
    BY <1>15 DEF CommitFails
<1>16. CASE CollectFails
    BY <1>16 DEF CollectFails
<1>17. CASE Salvage
    BY <1>17 DEF Salvage
<1>18. CASE Rethrow
    BY <1>18 DEF Rethrow
<1>19. CASE Cancel
    BY <1>19 DEF Cancel
<1>20. ASSUME NEW i \in Calls, ToolFinishes(i) PROVE (Located /\ LeftEarly)'
    BY <1>20 DEF ToolFinishes
<1>21. CASE UNCHANGED vars
    BY <1>21 DEF vars
<1>22. QED
    BY <1>1, <1>2, <1>3, <1>4, <1>5, <1>6, <1>7, <1>8, <1>9, <1>10,
       <1>11, <1>12, <1>13, <1>14, <1>15, <1>16, <1>17, <1>18, <1>19, <1>20, <1>21 DEF Next, Loop

\* Only Start and Exclusive begin a run, and only a finished run is collected.
LEMMA RunsStep == IInv /\ RunsKnown /\ [Next]_vars => RunsKnown'
<1> SUFFICES ASSUME IInv, RunsKnown, [Next]_vars PROVE RunsKnown'
    OBVIOUS
<1> USE DEF IInv, TypeOK, Places, Calls, Located, Contiguous, InLoop, Recording, Running, RunsKnown
<1>1. CASE Leave
    BY <1>1 DEF Leave, DrainThen
<1>2. CASE Barrier
    BY <1>2 DEF Barrier, DrainThen
<1>3. CASE Admit
    BY <1>3 DEF Admit
<1>4. CASE Roll
  <2>1. Popped /\ at # "running" /\ UNCHANGED <<tool, mode>>
      BY <1>4, RollFacts DEF Roll
  <2>2. /\ \A i \in Running' : \E j \in 1..Len(inFlight') : inFlight'[j] = i
        /\ \A j \in 1..Len(inFlight') : mode'[inFlight'[j]] = "parallel"
        /\ Len(inFlight') < Bound
      BY <2>1, PopRuns
  <2>3. mode'[index'] = "parallel" /\ Len(inFlight') \in Nat
      BY <1>4, <2>1 DEF Roll, Popped
  <2>4. QED
      BY <2>2, <2>3
<1>5. CASE Prepare
    BY <1>5 DEF Prepare, DrainThen
<1>6. CASE Start
  <2>1. CASE cancelled
      BY <1>6, <2>1 DEF Start, DrainThen
  <2>2. CASE ~cancelled
    <3>1. /\ Pushed(index) /\ index \in Calls /\ mode' = mode /\ at' = "top"
          /\ tool' = [tool EXCEPT ![index] = "running"] /\ at = "permitted"
        BY <1>6, <2>2, StartFacts DEF Start
    <3>2. /\ Len(inFlight) \in Nat /\ Len(inFlight') = Len(inFlight) + 1
          /\ inFlight'[Len(inFlight) + 1] = index
          /\ \A j \in 1..Len(inFlight) : inFlight'[j] = inFlight[j]
        BY <3>1 DEF Pushed
    <3>3. ASSUME NEW i \in Running'
          PROVE  \E j \in 1..Len(inFlight') : inFlight'[j] = i
      <4>1. CASE i = index
        <5>1. Len(inFlight) + 1 \in 1..Len(inFlight')
            BY <3>2
        <5>2. QED
            BY <3>2, <4>1, <5>1
      <4>2. CASE i # index
        <5>1. i \in Running
            BY <3>1, <4>2
        <5>2. PICK j \in 1..Len(inFlight) : inFlight[j] = i
            BY <3>1, <5>1
        <5>3. QED
            BY <3>2, <5>2
      <4>3. QED
          BY <4>1, <4>2
    <3>4. ASSUME NEW j \in 1..Len(inFlight')
          PROVE  mode'[inFlight'[j]] = "parallel"
      <4>1. CASE j = Len(inFlight) + 1
          BY <3>1, <3>2, <4>1
      <4>2. CASE j \in 1..Len(inFlight)
        <5>1. inFlight'[j] = inFlight[j]
            BY <3>2, <4>2
        <5>2. mode[inFlight[j]] = "parallel"
            BY <4>2
        <5>3. QED
            BY <3>1, <5>1, <5>2
      <4>3. QED
          BY <3>2, <4>1, <4>2
    <3>5. Len(inFlight') <= Bound
        BY <3>1, <3>2
    <3>6. QED
        BY <3>1, <3>3, <3>4, <3>5
  <2>3. QED
      BY <2>1, <2>2
<1>7. CASE Exclusive
    BY <1>7 DEF Exclusive
<1>8. CASE Commit
    BY <1>8, CommitFacts DEF Commit, Recorded
<1>9. CASE Collect
  <2>1. Popped /\ at = "drain" /\ UNCHANGED <<tool, mode, at>>
      BY <1>9, CollectFacts DEF Collect
  <2>2. /\ \A i \in Running' : \E j \in 1..Len(inFlight') : inFlight'[j] = i
        /\ \A j \in 1..Len(inFlight') : mode'[inFlight'[j]] = "parallel"
        /\ Len(inFlight') < Bound
      BY <2>1, PopRuns
  <2>3. Len(inFlight') \in Nat
      BY <2>1 DEF Popped
  <2>4. QED
      BY <2>1, <2>2, <2>3
<1>10. CASE Drained
    BY <1>10 DEF Drained
<1>11. CASE Finish
    BY <1>11 DEF Finish
<1>12. CASE Synthesize
    BY <1>12, SynthesizeFacts DEF Synthesize, Recorded
<1>13. CASE RequestFails
    BY <1>13 DEF RequestFails
<1>14. CASE StartFails
    BY <1>14 DEF StartFails
<1>15. CASE CommitFails
    BY <1>15, CommitFailsFacts DEF CommitFails
<1>16. CASE CollectFails
  <2>1. Popped /\ at # "running" /\ at' = "failing" /\ UNCHANGED <<tool, mode>>
      BY <1>16, LoseFacts DEF CollectFails
  <2>2. /\ \A i \in Running' : \E j \in 1..Len(inFlight') : inFlight'[j] = i
        /\ \A j \in 1..Len(inFlight') : mode'[inFlight'[j]] = "parallel"
        /\ Len(inFlight') < Bound
      BY <2>1, PopRuns
  <2>3. Len(inFlight') \in Nat
      BY <2>1 DEF Popped
  <2>4. QED
      BY <2>1, <2>2, <2>3
<1>17. CASE Salvage
  <2>1. Popped /\ at # "running" /\ at' = "failing" /\ UNCHANGED <<tool, mode>>
      BY <1>17, LoseFacts DEF Salvage
  <2>2. /\ \A i \in Running' : \E j \in 1..Len(inFlight') : inFlight'[j] = i
        /\ \A j \in 1..Len(inFlight') : mode'[inFlight'[j]] = "parallel"
        /\ Len(inFlight') < Bound
      BY <2>1, PopRuns
  <2>3. Len(inFlight') \in Nat
      BY <2>1 DEF Popped
  <2>4. QED
      BY <2>1, <2>2, <2>3
<1>18. CASE Rethrow
    BY <1>18 DEF Rethrow
<1>19. CASE Cancel
    BY <1>19 DEF Cancel
<1>20. ASSUME NEW i \in Calls, ToolFinishes(i) PROVE RunsKnown'
    BY <1>20 DEF ToolFinishes
<1>21. CASE UNCHANGED vars
    BY <1>21 DEF vars
<1>22. QED
    BY <1>1, <1>2, <1>3, <1>4, <1>5, <1>6, <1>7, <1>8, <1>9, <1>10,
       <1>11, <1>12, <1>13, <1>14, <1>15, <1>16, <1>17, <1>18, <1>19, <1>20, <1>21 DEF Next, Loop

\* A synthetic result is given only to a call that was never started.
LEMMA UnstartedStep == IInv /\ Unstarted /\ [Next]_vars => Unstarted'
<1> SUFFICES ASSUME IInv, Unstarted, [Next]_vars PROVE Unstarted'
    OBVIOUS
<1> USE DEF IInv, TypeOK, Places, Calls, Located, Contiguous, LeftEarly, InLoop, Recording, FirstCalls, Unstarted
<1>1. CASE Leave
    BY <1>1 DEF Leave, DrainThen
<1>2. CASE Barrier
    BY <1>2 DEF Barrier, DrainThen
<1>3. CASE Admit
    BY <1>3 DEF Admit
<1>4. CASE Roll
  <2>1. Recording /\ Popped /\ Recorded(inFlight[1], "own") /\ tool' = tool
      BY <1>4, RollFacts DEF Roll
  <2>2. Len(results') + Len(inFlight') = Len(results) + Len(inFlight)
      BY <2>1, PopKeeps
  <2>3. \A j \in 1..Len(results') : results'[j][2] = "synthetic"
                                      => tool'[results'[j][1]] = "idle"
      BY <2>1, RecordUnstarted
  <2>4. at = "top"
      BY <1>4 DEF Roll
  <2>5. QED
      BY <2>1, <2>2, <2>3, <2>4
<1>5. CASE Prepare
    BY <1>5 DEF Prepare, DrainThen
<1>6. CASE Start
  <2>1. CASE cancelled
      BY <1>6, <2>1 DEF Start, DrainThen
  <2>2. CASE ~cancelled
    <3>1. /\ Pushed(index) /\ index \in Calls /\ at = "permitted" /\ results' = results
          /\ tool' = [tool EXCEPT ![index] = "running"]
        BY <1>6, <2>2, StartFacts DEF Start
    <3>2. /\ Len(inFlight) \in Nat /\ Len(inFlight') = Len(inFlight) + 1
          /\ Len(results) \in Nat /\ index = Len(results) + Len(inFlight) + 1
        BY <3>1 DEF Pushed
    <3>3. ASSUME NEW i \in Calls, i > Len(results') + Len(inFlight')
          PROVE  tool'[i] = "idle"
        BY <3>1, <3>2, <3>3
    <3>4. ASSUME NEW j \in 1..Len(results'), results'[j][2] = "synthetic"
          PROVE  tool'[results'[j][1]] = "idle"
      <4>1. results[j][1] = j /\ results[j][1] \in Calls /\ tool[results[j][1]] = "idle"
          BY <3>1, <3>4
      <4>2. QED
          BY <3>1, <3>2, <3>4, <4>1
    <3>5. Len(results') + Len(inFlight') \in Nat
        BY <3>1, <3>2
    <3>6. QED
        BY <3>3, <3>4, <3>5
  <2>3. QED
      BY <2>1, <2>2
<1>7. CASE Exclusive
    BY <1>7 DEF Exclusive
<1>8. CASE Commit
  <2>1. /\ Recorded(index, "own") /\ tool' = tool /\ inFlight = <<>> /\ inFlight' = <<>>
        /\ Recording /\ index = Len(results) + 1
      BY <1>8, CommitFacts DEF Commit
  <2>2. \A j \in 1..Len(results') : results'[j][2] = "synthetic"
                                      => tool'[results'[j][1]] = "idle"
      BY <2>1, RecordUnstarted
  <2>3. Len(results') = Len(results) + 1
      BY <2>1 DEF Recorded
  <2>4. ASSUME NEW i \in Calls, i > Len(results') + Len(inFlight')
        PROVE  tool'[i] = "idle"
      BY <2>1, <2>3, <2>4
  <2>5. Len(results') + Len(inFlight') \in Nat
      BY <2>1, <2>3
  <2>6. QED
      BY <2>2, <2>4, <2>5
<1>9. CASE Collect
  <2>1. Recording /\ Popped /\ Recorded(inFlight[1], "own") /\ tool' = tool
      BY <1>9, CollectFacts DEF Collect
  <2>2. Len(results') + Len(inFlight') = Len(results) + Len(inFlight)
      BY <2>1, PopKeeps
  <2>3. \A j \in 1..Len(results') : results'[j][2] = "synthetic"
                                      => tool'[results'[j][1]] = "idle"
      BY <2>1, RecordUnstarted
  <2>4. at # "running"
      BY <1>9 DEF Collect
  <2>5. QED
      BY <2>1, <2>2, <2>3, <2>4
<1>10. CASE Drained
    BY <1>10 DEF Drained
<1>11. CASE Finish
    BY <1>11 DEF Finish
<1>12. CASE Synthesize
  <2>1. /\ at = "synthesize" /\ Recording /\ tool' = tool
        /\ inFlight' = inFlight /\ Len(inFlight) = 0 /\ Len(results) \in Nat
      BY <1>12 DEF Synthesize
  <2>2. CASE UNCHANGED results
      BY <1>12, <2>1, <2>2
  <2>3. CASE index = Len(results) + 1 /\ Recorded(index, "synthetic")
    <3>1. /\ index \in Calls /\ Len(results') = Len(results) + 1
          /\ results'[Len(results) + 1][1] = index
          /\ \A j \in 1..Len(results) : results'[j] = results[j]
        BY <2>3 DEF Recorded
    <3>2. tool[index] = "idle"
      <4>1. index > Len(results) + Len(inFlight) /\ at # "running"
          BY <2>1, <2>3
      <4>2. QED
          BY <2>1, <3>1, <4>1
    <3>3. \A i \in Calls : i <= Len(results') + Len(inFlight') \/ tool'[i] = "idle"
        BY <2>1, <3>1
    <3>4. ASSUME NEW j \in 1..Len(results'), results'[j][2] = "synthetic"
          PROVE  tool'[results'[j][1]] = "idle"
      <4>1. CASE j = Len(results) + 1
          BY <2>1, <3>1, <3>2, <4>1
      <4>2. CASE j \in 1..Len(results)
          BY <2>1, <3>1, <3>4, <4>2
      <4>3. QED
          BY <2>1, <3>1, <4>1, <4>2
    <3>5. QED
        BY <3>3, <3>4
  <2>4. QED
      BY <1>12, <2>2, <2>3, SynthesizeFacts
<1>13. CASE RequestFails
    BY <1>13 DEF RequestFails
<1>14. CASE StartFails
    BY <1>14 DEF StartFails
<1>15. CASE CommitFails
  <2>1. at' = "failing" /\ tool' = tool /\ (Recorded(index, "own") \/ UNCHANGED results)
      BY <1>15, CommitFailsFacts DEF CommitFails
  <2>2. \A j \in 1..Len(results') : results'[j][2] = "synthetic"
                                      => tool'[results'[j][1]] = "idle"
      BY <2>1, RecordUnstarted
  <2>3. QED
      BY <2>1, <2>2
<1>16. CASE CollectFails
  <2>1. at' = "failing" /\ tool' = tool /\ (Recorded(inFlight[1], "own") \/ UNCHANGED results)
      BY <1>16, LoseFacts DEF CollectFails
  <2>2. \A j \in 1..Len(results') : results'[j][2] = "synthetic"
                                      => tool'[results'[j][1]] = "idle"
      BY <2>1, RecordUnstarted
  <2>3. QED
      BY <2>1, <2>2
<1>17. CASE Salvage
  <2>1. at' = "failing" /\ tool' = tool /\ (Recorded(inFlight[1], "own") \/ UNCHANGED results)
      BY <1>17, LoseFacts DEF Salvage
  <2>2. \A j \in 1..Len(results') : results'[j][2] = "synthetic"
                                      => tool'[results'[j][1]] = "idle"
      BY <2>1, RecordUnstarted
  <2>3. QED
      BY <2>1, <2>2
<1>18. CASE Rethrow
    BY <1>18 DEF Rethrow
<1>19. CASE Cancel
    BY <1>19 DEF Cancel
<1>20. ASSUME NEW i \in Calls, ToolFinishes(i) PROVE Unstarted'
    BY <1>20 DEF ToolFinishes
<1>21. CASE UNCHANGED vars
    BY <1>21 DEF vars
<1>22. QED
    BY <1>1, <1>2, <1>3, <1>4, <1>5, <1>6, <1>7, <1>8, <1>9, <1>10,
       <1>11, <1>12, <1>13, <1>14, <1>15, <1>16, <1>17, <1>18, <1>19, <1>20, <1>21 DEF Next, Loop

LEMMA Invariance == Spec => [](IInv /\ RunsKnown /\ Unstarted)
<1>1. Init => IInv /\ RunsKnown /\ Unstarted
  <2> SUFFICES ASSUME Init PROVE IInv /\ RunsKnown /\ Unstarted
      OBVIOUS
  <2>1. TypeOK
    <3>1. 1 \in 1..(N + 1)
        BY NAssumption
    <3>2. inFlight \in Seq(Calls) /\ results \in Seq(Calls \X {"own", "synthetic"})
        BY DEF Init
    <3>3. QED
        BY <3>1, <3>2 DEF Init, TypeOK, Places
  <2>2. Len(results) = 0 /\ Len(inFlight) = 0 /\ index = 1 /\ at = "top"
      BY DEF Init
  <2>3. ResultsInModelOrder /\ FirstCalls /\ Contiguous /\ Located /\ LeftEarly
      BY <2>2 DEF ResultsInModelOrder, FirstCalls, Contiguous, Located, LeftEarly
  <2>4. Running = {}
      BY DEF Init, Running
  <2>5. RunsKnown /\ Unstarted
      BY <2>2, <2>4 DEF RunsKnown, Unstarted, Init
  <2>6. QED
      BY <2>1, <2>3, <2>5 DEF IInv
<1>2. IInv /\ RunsKnown /\ Unstarted /\ [Next]_vars => (IInv /\ RunsKnown /\ Unstarted)'
    BY TypeStep, OrderStep, ShapeStep, PlaceStep, RunsStep, UnstartedStep DEF IInv
<1>3. QED
    BY <1>1, <1>2, PTL DEF Spec

\* The variables keep their types.
THEOREM TypeCorrect == Spec => []TypeOK
BY Invariance, PTL DEF IInv

\* Results are recorded in the model's order, each call's once, however the tools
\* end, the turn is cancelled or the recording fails.
THEOREM Results_In_Model_Order == Spec => []ResultsInModelOrder
BY Invariance, PTL DEF IInv

\* A schedule that ends without an exception has answered every call.
THEOREM Every_Call_Answered == Spec => []EveryCallAnswered
BY Invariance, AllCommitted, PTL

\* Nothing runs beside an exclusive call.
THEOREM Exclusive_Alone == Spec => []ExclusiveAlone
BY Invariance, RunsInv, PTL

\* The pool never holds more running calls than its bound.
THEOREM Pool_Bounded == Spec => []PoolBounded
BY Invariance, PoolInv, PTL

\* What was started has its own result, and nothing runs on after the end.
THEOREM Abort_Drains == Spec => []AbortDrains
BY Invariance, DrainsInv, PTL
-----------------------------------------------------------------------------
(* The ToolCall events *)

\* The loop has requested every call before its index, and the one at the index
\* from the moment it is decided; what is in flight has been requested.
Asked ==
    /\ RequestsInOrder
    /\ \A j \in 1..Len(inFlight) : inFlight[j] \in requested
    /\ InLoop => \A k \in Calls : k < index => k \in requested
    /\ at \in {"permitted", "decided", "running"} => index \in requested
    /\ at = "drain" /\ after = "decided" => index \in requested

\* Requesting the call at the index keeps the requests a prefix.
LEMMA RequestNext ==
    ASSUME IInv, Asked, InLoop, index <= N, UNCHANGED results,
           requested' \in {requested, requested \cup {index}}
    PROVE  RequestsInOrder'
<1>1. index \in Calls /\ Calls \subseteq Nat
    BY DEF IInv, TypeOK, Calls
<1>2. \A k \in 1..index : k = index \/ (k \in Calls /\ k < index)
    BY <1>1 DEF Calls
<1>3. ASSUME NEW i \in requested', NEW k \in 1..i PROVE k \in requested'
  <2>1. CASE i \in requested
      BY <1>3, <2>1 DEF Asked, RequestsInOrder
  <2>2. CASE i = index /\ requested' = requested \cup {index}
      BY <1>2, <1>3, <2>2 DEF Asked
  <2>3. QED
      BY <1>3, <2>1, <2>2
<1>4. QED
    BY <1>3 DEF Asked, RequestsInOrder

\* The result of a requested call keeps the own results among the requested.
LEMMA RecordAsked ==
    ASSUME TypeOK, RequestsInOrder, NEW i, NEW kind, kind = "own" => i \in requested,
           Recorded(i, kind) \/ UNCHANGED results, UNCHANGED requested
    PROVE  RequestsInOrder'
<1>1. CASE UNCHANGED results
    BY <1>1 DEF RequestsInOrder
<1>2. CASE Recorded(i, kind)
  <2>1. Len(results) \in Nat /\ Len(results') = Len(results) + 1
      BY <1>2 DEF TypeOK, Recorded
  <2>2. ASSUME NEW j \in 1..Len(results'), results'[j][2] = "own"
        PROVE  results'[j][1] \in requested'
    <3>1. CASE j = Len(results) + 1
        BY <1>2, <2>2, <3>1 DEF Recorded
    <3>2. CASE j \in 1..Len(results)
      <4>1. results'[j] = results[j]
          BY <1>2, <3>2 DEF Recorded
      <4>2. QED
          BY <2>2, <3>2, <4>1 DEF RequestsInOrder
    <3>3. QED
        BY <2>1, <3>1, <3>2
  <2>3. QED
      BY <2>2 DEF RequestsInOrder
<1>3. QED
    BY <1>1, <1>2

\* The rest of the pool was requested when all of it was.
LEMMA PopAsked ==
    ASSUME Asked, TypeOK, Popped, UNCHANGED requested
    PROVE  /\ inFlight[1] \in requested
           /\ \A j \in 1..Len(inFlight') : inFlight'[j] \in requested'
<1>1. Len(inFlight) \in Nat /\ Len(inFlight) >= 1 /\ Len(inFlight') = Len(inFlight) - 1
    BY DEF TypeOK, Popped
<1>2. \A j \in 1..Len(inFlight') : j + 1 \in 1..Len(inFlight)
    BY <1>1
<1>3. QED
    BY <1>1, <1>2 DEF Asked, Popped

LEMMA AskedStep == IInv /\ Asked /\ [Next]_vars => Asked'
<1> SUFFICES ASSUME IInv, Asked, [Next]_vars PROVE Asked'
    OBVIOUS
<1>0. /\ TypeOK /\ Located /\ RequestsInOrder
      /\ index \in Nat /\ Calls \subseteq Nat
    BY DEF IInv, TypeOK, Calls, Asked
<1>1. CASE Leave
    BY <1>1 DEF Leave, DrainThen, Asked, RequestsInOrder, InLoop
<1>2. CASE Barrier
    BY <1>2 DEF Barrier, DrainThen, Asked, RequestsInOrder, InLoop
<1>3. CASE Admit
    BY <1>3 DEF Admit, Asked, RequestsInOrder, InLoop
<1>4. CASE Roll
  <2>1. /\ Popped /\ Recorded(inFlight[1], "own")
        /\ UNCHANGED <<index, requested>> /\ at = "top"
        /\ (at' = "drain" /\ after' = "finish") \/ at' = "prepare"
      BY <1>4, RollFacts DEF Roll, DrainThen
  <2>2. RequestsInOrder'
      BY <1>0, <2>1, PopAsked, RecordAsked
  <2>3. QED
      BY <1>0, <2>1, <2>2, PopAsked DEF Asked, InLoop
<1>5. CASE Prepare
  <2>1. InLoop /\ index <= N
      BY <1>0, <1>5 DEF Prepare, InLoop, Located
  <2>2. RequestsInOrder'
      BY <1>5, <2>1, RequestNext DEF Prepare
  <2>3. QED
      BY <1>5, <2>1, <2>2 DEF Prepare, DrainThen, Asked, InLoop
<1>6. CASE Start
  <2>1. CASE cancelled
      BY <1>6, <2>1 DEF Start, DrainThen, Asked, RequestsInOrder, InLoop
  <2>2. CASE ~cancelled
    <3>1. /\ Pushed(index) /\ at = "permitted" /\ at' = "top"
          /\ index' = index + 1 /\ UNCHANGED <<requested, results>>
        BY <1>6, <2>2, StartFacts DEF Start
    <3>2. index \in requested /\ \A k \in Calls : k < index' => k \in requested'
        BY <1>0, <3>1 DEF Asked, InLoop
    <3>3. \A j \in 1..Len(inFlight') : inFlight'[j] \in requested'
      <4>1. Len(inFlight) \in Nat
          BY <1>0 DEF TypeOK
      <4>2. QED
          BY <3>1, <3>2, <4>1 DEF Pushed, Asked
    <3>4. QED
        BY <3>1, <3>2, <3>3 DEF Asked, RequestsInOrder
  <2>3. QED
      BY <2>1, <2>2
<1>7. CASE Exclusive
  <2>1. CASE cancelled
      BY <1>7, <2>1 DEF Exclusive, Asked, RequestsInOrder, InLoop
  <2>2. CASE ~cancelled
    <3>1. InLoop /\ index <= N
        BY <1>0, <1>7 DEF Exclusive, InLoop, Located
    <3>2. RequestsInOrder'
        BY <1>7, <2>2, <3>1, RequestNext DEF Exclusive
    <3>3. QED
        BY <1>7, <2>2, <3>1, <3>2 DEF Exclusive, Asked, InLoop
  <2>3. QED
      BY <2>1, <2>2
<1>8. CASE Commit
  <2>1. /\ Recorded(index, "own") /\ index' = index + 1 /\ at' = "top"
        /\ UNCHANGED <<inFlight, requested>> /\ at \in {"decided", "running"}
      BY <1>8, CommitFacts DEF Commit
  <2>2. index \in requested /\ InLoop
      BY <2>1 DEF Asked, InLoop
  <2>3. RequestsInOrder'
      BY <1>0, <2>1, <2>2, RecordAsked
  <2>4. QED
      BY <1>0, <2>1, <2>2, <2>3 DEF Asked
<1>9. CASE Collect
  <2>1. /\ Popped /\ Recorded(inFlight[1], "own")
        /\ UNCHANGED <<at, after, index, requested>>
      BY <1>9, CollectFacts DEF Collect
  <2>2. RequestsInOrder'
      BY <1>0, <2>1, PopAsked, RecordAsked
  <2>3. QED
      BY <1>0, <2>1, <2>2, PopAsked DEF Asked, InLoop
<1>10. CASE Drained
    BY <1>0, <1>10 DEF Drained, Asked, RequestsInOrder, InLoop, TypeOK
<1>11. CASE Finish
    BY <1>11 DEF Finish, Asked, RequestsInOrder, InLoop
<1>12. CASE Synthesize
  <2>1. Recorded(index, "synthetic") \/ UNCHANGED results
      BY <1>12, SynthesizeFacts
  <2>2. /\ UNCHANGED <<inFlight, requested>>
        /\ at' \in {"synthesize", "done"}
      BY <1>12 DEF Synthesize
  <2>3. RequestsInOrder'
      BY <1>0, <2>1, <2>2, RecordAsked
  <2>4. QED
      BY <2>2, <2>3 DEF Asked, InLoop
<1>13. CASE RequestFails
  <2>1. InLoop /\ index <= N
      BY <1>0, <1>13 DEF RequestFails, InLoop, Located
  <2>2. RequestsInOrder'
      BY <1>13, <2>1, RequestNext DEF RequestFails
  <2>3. QED
      BY <1>13, <2>2 DEF RequestFails, Asked, InLoop
<1>14. CASE StartFails
    BY <1>14 DEF StartFails, Asked, RequestsInOrder, InLoop
<1>15. CASE CommitFails
  <2>1. /\ Recorded(index, "own") \/ UNCHANGED results
        /\ at' = "failing" /\ UNCHANGED <<inFlight, requested>>
        /\ at \in {"decided", "running"}
      BY <1>15, CommitFailsFacts DEF CommitFails
  <2>2. index \in requested
      BY <2>1 DEF Asked
  <2>3. RequestsInOrder'
      BY <1>0, <2>1, <2>2, RecordAsked
  <2>4. QED
      BY <2>1, <2>3 DEF Asked, InLoop
<1>16. CASE CollectFails \/ Salvage
  <2>1. /\ Popped
        /\ Recorded(inFlight[1], "own") \/ UNCHANGED results
        /\ at' = "failing" /\ UNCHANGED requested
      BY <1>16, LoseFacts DEF CollectFails, Salvage
  <2>2. RequestsInOrder'
      BY <1>0, <2>1, PopAsked, RecordAsked
  <2>3. QED
      BY <1>0, <2>1, <2>2, PopAsked DEF Asked, InLoop
<1>17. CASE Rethrow
    BY <1>17 DEF Rethrow, Asked, RequestsInOrder, InLoop
<1>18. CASE Cancel
    BY <1>18 DEF Cancel, Asked, RequestsInOrder, InLoop
<1>19. ASSUME NEW i \in Calls, ToolFinishes(i) PROVE Asked'
    BY <1>19 DEF ToolFinishes, Asked, RequestsInOrder, InLoop
<1>20. CASE UNCHANGED vars
    BY <1>20 DEF vars, Asked, RequestsInOrder, InLoop
<1>21. QED
    BY <1>1, <1>2, <1>3, <1>4, <1>5, <1>6, <1>7, <1>8, <1>9, <1>10, <1>11,
       <1>12, <1>13, <1>14, <1>15, <1>16, <1>17, <1>18, <1>19, <1>20 DEF Next, Loop

\* Calls are requested in the model's order, whatever the bound and the modes, and
\* no result of a call that was decided or run precedes its request.
THEOREM Requests_In_Order == Spec => []RequestsInOrder
<1>1. Init => Asked
  <2> SUFFICES ASSUME Init PROVE Asked
      OBVIOUS
  <2>1. /\ requested = {} /\ Len(results) = 0 /\ Len(inFlight) = 0
        /\ at = "top" /\ index = 1 /\ \A k \in Calls : ~(k < index)
      BY DEF Init, Calls
  <2>2. QED
      BY <2>1 DEF Asked, RequestsInOrder
<1>2. Asked => RequestsInOrder
    BY DEF Asked
<1>3. QED
    BY Invariance, <1>1, <1>2, AskedStep, PTL DEF Spec
=============================================================================
