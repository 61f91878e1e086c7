--------------------------- MODULE AgentLoopProofs ---------------------------
(***************************************************************************)
(* Theorems of AgentLoop, for any calls of any kinds, any limits, and      *)
(* cancels, suspends and a dispose at any moment.                          *)
(*                                                                         *)
(* The argument: running_ is set while a task drives, until a dispose      *)
(* clears it, and a disposed agent takes no new driver; so there is one.   *)
(* One driver, and the turn it is in, decide how the log grows: messages   *)
(* at any time, a start only when no turn is open, a terminal event only   *)
(* to close the open one. The items of the log are always the front of     *)
(* what was accepted and the inbox is the rest, in the order of acceptance,*)
(* because an item leaves the inbox only at its front and into the log.    *)
(***************************************************************************)
EXTENDS AgentLoop, SequenceTheorems, FiniteSetTheorems, TLAPS

USE KindAssumption, LimitAssumption, NoneAssumption

-----------------------------------------------------------------------------
(* Types *)

LEMMA FoldingFront ==
    ASSUME TypeOK, NEW n \in 0..Len(inbox),
           inbox' = SubSeq(inbox, n + 1, Len(inbox)), log' = log \o Messages(n)
    PROVE  /\ inbox' \in Seq(Calls) /\ Len(inbox') = Len(inbox) - n
           /\ \A j \in 1..(Len(inbox) - n) : inbox'[j] = inbox[n + j]
           /\ log' \in Seq(Events) /\ Len(log') = Len(log) + n
           /\ \A i \in 1..Len(log) : log'[i] = log[i]
           /\ \A j \in 1..n : log'[Len(log) + j] = <<"message", inbox[j]>>
<1>2. inbox \in Seq(Calls) /\ Len(inbox) \in Nat
      /\ log \in Seq(Events) /\ Len(log) \in Nat /\ n \in Nat
    BY DEF TypeOK
<1>3. \A i \in 1..Len(inbox) : inbox[i] \in Calls
    BY <1>2, ElementOfSeq
<1>4. inbox' \in Seq(Calls) /\ Len(inbox') = Len(inbox) - n
      /\ \A j \in 1..(Len(inbox) - n) : inbox'[j] = inbox[n + j]
  <2>1. \A i \in (n + 1)..Len(inbox) : inbox[i] \in Calls
      BY <1>2, <1>3
  <2> QED  BY <1>2, <2>1, SubSeqProperties
<1>5. Messages(n) \in Seq(Events) /\ Len(Messages(n)) = n
      /\ \A i \in 1..n : Messages(n)[i] = <<"message", inbox[i]>>
  <2>1. \A i \in 1..n : <<"message", inbox[i]>> \in Events
      BY <1>2, <1>3 DEF Events
  <2> QED  BY <1>2, <2>1 DEF Messages
<1>6. /\ log' \in Seq(Events) /\ Len(log') = Len(log) + n
      /\ \A i \in 1..(Len(log) + n) :
            log'[i] = IF i <= Len(log) THEN log[i] ELSE Messages(n)[i - Len(log)]
  <2> DEFINE more == Messages(n)
  <2>1. more \in Seq(Events) /\ Len(more) = n /\ log' = log \o more
      BY <1>5
  <2> HIDE DEF more
  <2>3. /\ log \o more \in Seq(Events) /\ Len(log \o more) = Len(log) + Len(more)
        /\ \A i \in 1..(Len(log) + Len(more)) :
              (log \o more)[i] = IF i <= Len(log) THEN log[i] ELSE more[i - Len(log)]
      BY <1>2, <2>1, ConcatProperties
  <2>4. /\ log' \in Seq(Events) /\ Len(log') = Len(log) + n
        /\ \A i \in 1..(Len(log) + n) :
              log'[i] = IF i <= Len(log) THEN log[i] ELSE more[i - Len(log)]
      BY <1>2, <2>1, <2>3
  <2> QED  BY <2>4 DEF more
<1>7. \A i \in 1..Len(log) : log'[i] = log[i]
    BY <1>2, <1>6
<1>8. ASSUME NEW j \in 1..n PROVE log'[Len(log) + j] = <<"message", inbox[j]>>
  <2>1. /\ Len(log) + j \in 1..(Len(log) + n) /\ ~(Len(log) + j <= Len(log))
        /\ Len(log) + j - Len(log) = j
      BY <1>2
  <2> QED  BY <1>5, <1>6, <2>1
<1> QED
    BY <1>4, <1>6, <1>7, <1>8

LEMMA Folding ==
    ASSUME TypeOK, FoldItems
    PROVE  /\ inbox' \in Seq(Calls) /\ Len(inbox') <= MaxInbox
           /\ log' \in Seq(Events)
           /\ Len(log) <= Len(log')
           /\ \A i \in 1..Len(log) : log'[i] = log[i]
           /\ \A i \in (Len(log) + 1)..Len(log') : log'[i][1] = "message"
<1>1. PICK n \in 0..Len(inbox) : /\ inbox' = SubSeq(inbox, n + 1, Len(inbox))
                                 /\ log' = log \o Messages(n)
    BY DEF FoldItems
<1>2. Len(inbox) \in Nat /\ Len(inbox) <= MaxInbox /\ Len(log) \in Nat
    BY DEF TypeOK
<1>3. /\ inbox' \in Seq(Calls) /\ Len(inbox') = Len(inbox) - n
      /\ log' \in Seq(Events) /\ Len(log') = Len(log) + n
      /\ \A i \in 1..Len(log) : log'[i] = log[i]
      /\ \A j \in 1..n : log'[Len(log) + j] = <<"message", inbox[j]>>
    BY <1>1, FoldingFront
<1>4. ASSUME NEW i \in (Len(log) + 1)..Len(log') PROVE log'[i][1] = "message"
  <2>1. i - Len(log) \in 1..n /\ Len(log) + (i - Len(log)) = i
      BY <1>2, <1>3
  <2>2. log'[i] = <<"message", inbox[i - Len(log)]>>
      BY <1>3, <2>1
  <2> QED  BY <2>2
<1> QED
    BY <1>2, <1>3, <1>4

TypeSeqs == /\ inbox \in Seq(Calls) /\ Len(inbox) <= MaxInbox
            /\ accepted \in Seq(Calls) /\ log \in Seq(Events)

LEMMA Appending ==
    ASSUME NEW S, NEW s \in Seq(S), NEW e \in S
    PROVE  Append(s, e) \in Seq(S) /\ Len(Append(s, e)) = Len(s) + 1
           /\ Append(s, e)[Len(s) + 1] = e
           /\ \A i \in 1..Len(s) : Append(s, e)[i] = s[i]
    OBVIOUS

\* The ways in which a step changes the inbox and the log.
Closes(event) == /\ event \in Terminals \X (Calls \cup {None} \cup Reasons)
                 /\ log' = Append(log, event)

Refuses == log' = Append(log, <<"started", None>>)

Accepts == \E c \in Calls : /\ Len(inbox) < MaxInbox /\ ~disposed
                            /\ inbox' = Append(inbox, c)
                            /\ accepted' = Append(accepted, c)
                            /\ log' = log

Opens == /\ inbox # <<>> /\ inbox' = Tail(inbox) /\ accepted' = accepted
         /\ log' = Append(log, <<"started", Head(inbox)>>)

Cleared == disposer \notin {"none", "exchanged"}

SeqShape == \/ UNCHANGED <<inbox, accepted, log>>
            \/ Accepts
            \/ FoldItems /\ UNCHANGED accepted
            \/ Opens
            \/ inbox' = <<>> /\ UNCHANGED <<accepted, log>> /\ Cleared'
            \/ UNCHANGED <<inbox, accepted>> /\ \E event : Closes(event)
            \/ UNCHANGED <<inbox, accepted>> /\ Refuses

LEMMA Shape == ASSUME TypeOK, [Next]_vars PROVE SeqShape
<1> USE DEF SeqShape, queue, token, locals, settling, control
<1>1. ASSUME NEW c \in Calls, Submit(c) PROVE SeqShape
    BY <1>1 DEF Submit, Enqueue, RequestCompaction, Reject, Full, ActivateSession,
                Poke, Enter, Accepts
<1>2. ASSUME NEW c \in Calls, Drive(c) PROVE SeqShape
  <2>1. CASE RunTurn(c) \/ Step(c)
      BY <2>1 DEF RunTurn, Step
  <2>2. CASE Trigger(c)
      BY <2>2 DEF Trigger, Opens
  <2>3. CASE MaintenanceFailure(c)
      BY <2>3 DEF MaintenanceFailure, Refuses
  <2>4. /\ <<"failed", None>> \in Terminals \X (Calls \cup {None} \cup Reasons)
        /\ <<"ended", None>> \in Terminals \X (Calls \cup {None} \cup Reasons)
        /\ <<"cancelled", reason>> \in Terminals \X (Calls \cup {None} \cup Reasons)
        /\ <<"cancelled", captured>> \in Terminals \X (Calls \cup {None} \cup Reasons)
      BY DEF TypeOK, Terminals
  <2>5. CASE StepCeiling(c) \/ Fail(c) \/ Conclude(c) \/ CancelledByTools(c) \/ ToolsDone(c)
      BY <2>4, <2>5 DEF StepCeiling, Fail, Conclude, CancelledByTools, ToolsDone,
                        Terminal, Closes
  <2>6. CASE Leave(c) \/ Begin(c) \/ Think(c) \/ CallProvider(c) \/ Answer(c)
             \/ StoreState(c) \/ noteTerminal(c)
      BY <2>6 DEF Leave, Begin, Think, CallProvider, Answer, StoreState, noteTerminal
  <2>7. CASE Nudge(c) \/ CallTools(c) \/ Ask(c) \/ Permitted(c) \/ Stop(c) \/ Rested(c)
             \/ flushSettleCallbacks(c) \/ RunCallback(c)
      BY <2>7 DEF Nudge, CallTools, Ask, Permitted, Stop, Rested, flushSettleCallbacks,
                  TakeIf, RunCallback
  <2> QED  BY <1>2, <2>1, <2>2, <2>3, <2>5, <2>6, <2>7 DEF Drive
<1>3. CASE onSettled \/ Cancel \/ \E how \in Controls : TestState(how)
    BY <1>3 DEF onSettled, Cancel, TestState
<1>4. CASE Dispose \/ DisposeClear \/ DisposePark
    BY <1>4 DEF Dispose, DisposeClear, DisposePark, Cleared
<1>5. CASE UNCHANGED vars
    BY <1>5 DEF vars
<1> QED
    BY <1>1, <1>2, <1>3, <1>4, <1>5 DEF Next

LEMMA TypeOfSeqs == ASSUME TypeOK, SeqShape PROVE TypeSeqs'
<1>1. TypeSeqs /\ Len(inbox) \in Nat
    BY DEF TypeOK, TypeSeqs
<1>2. CASE UNCHANGED <<inbox, accepted, log>>
    BY <1>1, <1>2 DEF TypeSeqs
<1>3. CASE Accepts
  <2>1. PICK c \in Calls : /\ Len(inbox) < MaxInbox /\ log' = log
                            /\ inbox' = Append(inbox, c)
                            /\ accepted' = Append(accepted, c)
      BY <1>3 DEF Accepts
  <2>2. inbox' \in Seq(Calls) /\ Len(inbox') = Len(inbox) + 1 /\ accepted' \in Seq(Calls)
      BY <1>1, <2>1, Appending DEF TypeSeqs
  <2> QED  BY <1>1, <2>1, <2>2 DEF TypeSeqs
<1>4. CASE FoldItems /\ UNCHANGED accepted
    BY <1>1, <1>4, Folding DEF TypeSeqs
<1>5. CASE Opens
  <2>1. Head(inbox) \in Calls /\ Tail(inbox) \in Seq(Calls) /\ Len(Tail(inbox)) <= MaxInbox
      BY <1>1, <1>5, HeadTailProperties DEF TypeSeqs, Opens
  <2>2. <<"started", Head(inbox)>> \in Events
      BY <2>1 DEF Events
  <2>3. log' \in Seq(Events)
      BY <1>1, <1>5, <2>2, Appending DEF TypeSeqs, Opens
  <2> QED  BY <1>1, <1>5, <2>1, <2>3 DEF TypeSeqs, Opens
<1>6. CASE inbox' = <<>> /\ UNCHANGED <<accepted, log>> /\ Cleared'
    BY <1>1, <1>6 DEF TypeSeqs
<1>7. CASE UNCHANGED <<inbox, accepted>> /\ \E event : Closes(event)
  <2>1. PICK event : Closes(event)
      BY <1>7
  <2>2. event \in Events
      BY <2>1 DEF Closes, Events
  <2> QED  BY <1>1, <1>7, <2>1, <2>2, Appending DEF TypeSeqs, Closes
<1>8. CASE UNCHANGED <<inbox, accepted>> /\ Refuses
  <2>1. <<"started", None>> \in Events
      BY DEF Events
  <2> QED  BY <1>1, <1>8, <2>1, Appending DEF TypeSeqs, Refuses
<1> QED
    BY <1>2, <1>3, <1>4, <1>5, <1>6, <1>7, <1>8 DEF SeqShape

TypePc      == pc \in [Calls -> PC]
TypeFlags   == /\ failureDue \in BOOLEAN /\ running \in BOOLEAN /\ cancelled \in BOOLEAN
               /\ nudged \in BOOLEAN
TypeState   == state \in States /\ reason \in Reasons /\ captured \in Reasons
TypeTurn    == /\ turn \in Calls \cup {None} /\ steps \in Nat
               /\ answer \in {"none", "text", "blank", "tools", "failed", "cancelled"}
TypeSettle  == /\ generation \in Nat
               /\ watch \in [state : {"none", "waiting", "taken", "fired", "cleared"},
                             generation : Nat, at : Nat, unnoted : BOOLEAN]
TypeControl == /\ canceller \in {"none", "cancel", "suspend"} /\ controls \in 0..MaxControls
               /\ disposer \in {"none", "exchanged", "cleared", "parked", "done"}

TypeRest == TypePc /\ TypeFlags /\ TypeState /\ TypeTurn /\ TypeSettle /\ TypeControl

LEMMA TypeOfSubmit == ASSUME TypeRest, NEW c \in Calls, Submit(c) PROVE TypeRest'
<1> USE DEF Submit, Enqueue, RequestCompaction, Reject, Full, ActivateSession, Poke, Enter,
            TypeRest
<1>1. TypePc'
    BY DEF TypePc, Goto, PC, Driving, Closing, Unnoted
<1>2. TypeFlags' /\ TypeTurn'
    BY DEF TypeFlags, TypeTurn, queue, token, locals
<1>3. TypeState'
    BY DEF TypeState, States, Reasons, Recovered, token, locals
<1>4. TypeSettle' /\ TypeControl'
    BY DEF TypeSettle, TypeControl, settling, control
<1> QED
    BY <1>1, <1>2, <1>3, <1>4

LEMMA TypeOfSpent ==
    \A how \in {"none", "waiting", "taken", "fired", "cleared"} :
        Spent(how) \in [state : {"none", "waiting", "taken", "fired", "cleared"},
                        generation : Nat, at : Nat, unnoted : BOOLEAN]
BY DEF Spent

LEMMA TypeOfDrive ==
    ASSUME TypeRest, inbox # <<>> => Head(inbox) \in Calls, NEW c \in Calls, Drive(c)
    PROVE  TypeRest'
<1> USE DEF Drive, Leave, MaintenanceFailure, RunTurn, Trigger, Begin, Step, StepCeiling,
            Think, Fail, CallProvider, Answer, Conclude, Nudge, CallTools, Ask, Permitted,
            CancelledByTools, ToolsDone, Stop, Rested, flushSettleCallbacks, TakeIf,
            RunCallback, StoreState, noteTerminal, Terminal, Return, TypeRest
<1>1. TypePc'
    BY DEF TypePc, Goto, PC, Driving, InTurn, Closing, Unnoted
<1>2. TypeFlags'
    BY DEF TypeFlags, queue, token, locals
<1>3. TypeState'
    BY DEF TypeState, States, Reasons, token, locals
<1>4. TypeTurn'
    BY DEF TypeTurn, locals
<1>5. TypeSettle'
  <2>1. /\ generation' \in {generation, generation + 1}
        /\ watch' = watch \/ watch' = Spent("taken") \/ watch' = Spent("fired")
      BY DEF settling
  <2> QED  BY <2>1, TypeOfSpent DEF TypeSettle
<1>6. TypeControl'
    BY DEF TypeControl, control
<1> QED
    BY <1>1, <1>2, <1>3, <1>4, <1>5, <1>6

LEMMA TypeOfOthers ==
    ASSUME TypeRest, Len(log) \in Nat,
           \/ onSettled \/ Cancel \/ \E how \in Controls : TestState(how)
           \/ Dispose \/ DisposeClear \/ DisposePark \/ UNCHANGED vars
    PROVE  TypeRest'
<1> USE DEF onSettled, Cancel, TestState, Dispose, DisposeClear, DisposePark, vars, TypeRest
<1>1. TypePc' /\ TypeTurn'
    BY DEF TypePc, TypeTurn, locals
<1>2. TypeFlags'
    BY DEF TypeFlags, queue, token, locals
<1>3. TypeState'
    BY DEF TypeState, States, Reasons, token, locals
<1>4. TypeSettle'
  <2>1. CASE onSettled
    <3>1. (\E c \in Calls : pc[c] \in Unnoted) \in BOOLEAN
        OBVIOUS
    <3> HIDE DEF Unnoted
    <3> QED  BY <2>1, <3>1 DEF TypeSettle
  <2>2. CASE ~onSettled
    <3>1. generation' = generation /\ (watch' = watch \/ watch' = Spent("cleared"))
        BY <2>2 DEF settling
    <3> QED  BY <3>1, TypeOfSpent DEF TypeSettle
  <2> QED  BY <2>1, <2>2
<1>5. TypeControl'
    BY ControlAssumption DEF TypeControl, control
<1> QED
    BY <1>1, <1>2, <1>3, <1>4, <1>5

LEMMA TypeParts == TypeOK <=> TypeSeqs /\ TypeRest
    BY DEF TypeOK, TypeSeqs, TypeRest, TypePc, TypeFlags, TypeState, TypeTurn, TypeSettle,
           TypeControl

LEMMA TypeStep == TypeOK /\ [Next]_vars => TypeOK'
<1> SUFFICES ASSUME TypeOK, [Next]_vars PROVE TypeOK'
    OBVIOUS
<1>1. TypeRest /\ TypeSeqs' /\ Len(log) \in Nat
    BY Shape, TypeOfSeqs, TypeParts DEF TypeSeqs
<1>2. inbox # <<>> => Head(inbox) \in Calls
    BY HeadTailProperties DEF TypeOK
<1>3. TypeRest'
    BY <1>1, <1>2, TypeOfSubmit, TypeOfDrive, TypeOfOthers DEF Next
<1>4. (TypeOK <=> TypeSeqs /\ TypeRest)'
    BY TypeParts, PTL
<1> QED
    BY <1>1, <1>3, <1>4

LEMMA TypeInit == Init => TypeOK
<1> SUFFICES ASSUME Init PROVE TypeSeqs /\ TypeRest
    BY TypeParts
<1> USE DEF Init
<1>1. TypeSeqs
    BY EmptySeq DEF TypeSeqs
<1>2. TypePc
    BY DEF TypePc, PC
<1>3. TypeFlags /\ TypeState /\ TypeTurn
    BY DEF TypeFlags, TypeState, TypeTurn, States, Reasons
<1>4. TypeSettle /\ TypeControl
    BY DEF Spent, TypeSettle, TypeControl
<1> QED
    BY <1>1, <1>2, <1>3, <1>4 DEF TypeRest

\* Every variable keeps its type: no step of a call, of the driver or of another
\* thread leaves the tables the code declares.
THEOREM TypeCorrect == Spec => []TypeOK
    BY TypeInit, TypeStep, PTL DEF Spec

-----------------------------------------------------------------------------
(* One driver *)

Claimed == \A c \in Calls : pc[c] \in Driving => running \/ disposer = "done"

DriverInv == OneDriver /\ Claimed

LEMMA DriverStep == TypeOK /\ DriverInv /\ [Next]_vars => DriverInv'
<1> SUFFICES ASSUME TypeOK, DriverInv, [Next]_vars PROVE DriverInv'
    OBVIOUS
<1> USE DEF DriverInv, OneDriver, Claimed
<1>1. pc \in [Calls -> PC]
    BY DEF TypeOK
<1>2. ASSUME NEW c \in Calls, Submit(c) PROVE DriverInv'
    BY <1>1, <1>2 DEF Submit, Enqueue, RequestCompaction, Reject, Full, ActivateSession,
                      Poke, Enter, Goto, Driving, InTurn, Closing, Unnoted, control, disposed
<1>3. ASSUME NEW c \in Calls, Drive(c) PROVE DriverInv'
  <2>1. CASE Stop(c)
      BY <1>1, <2>1 DEF Stop, Goto, Driving, InTurn, Closing, Unnoted, control
  <2>2. ASSUME ~Stop(c)
        PROVE  /\ running' = running /\ disposer' = disposer
               /\ \E to \in PC : /\ pc' = [pc EXCEPT ![c] = to]
                                 /\ to \in Driving => pc[c] \in Driving
      BY <1>3, <2>2 DEF Drive, Leave, MaintenanceFailure, RunTurn, Trigger, Begin, Step,
            StepCeiling, Think, Fail, CallProvider, Answer, Conclude, Nudge, CallTools, Ask,
            Permitted, CancelledByTools, ToolsDone, Rested, flushSettleCallbacks, TakeIf,
            RunCallback, StoreState, noteTerminal, Terminal, Return, Goto, PC, Driving, InTurn, Closing, Unnoted, control
  <2> QED  BY <1>1, <2>1, <2>2
<1>4. CASE \/ onSettled \/ Cancel \/ \E how \in Controls : TestState(how)
           \/ Dispose \/ DisposeClear \/ DisposePark \/ UNCHANGED vars
    BY <1>4 DEF onSettled, Cancel, TestState, Dispose, DisposeClear, DisposePark, vars,
                control
<1> QED
    BY <1>2, <1>3, <1>4 DEF Next

LEMMA DriverAlways == Spec => []DriverInv
<1>1. Init => DriverInv
    BY DEF Init, DriverInv, OneDriver, Claimed, Driving, InTurn, Closing, Unnoted
<1> QED
    BY <1>1, TypeCorrect, DriverStep, PTL DEF Spec

\* Two tasks never drive one agent at once: running_ is claimed by an exchange, and
\* the dispose that clears it under a turn lets nobody claim it again.
THEOREM One_Driver == Spec => []OneDriver
    BY DriverAlways, PTL DEF DriverInv

-----------------------------------------------------------------------------
(* One terminal event for each turn *)

\* What the property says of the log alone, for any sequence of events.
IsStart(l, i) == l[i][1] = "started"
IsEnd(l, i)   == l[i][1] \in Terminals

EndBetween(l) ==
    \A i, j \in 1..Len(l) : i < j /\ IsStart(l, i) /\ IsStart(l, j)
        => \E k \in (i + 1)..(j - 1) : IsEnd(l, k)
StartBetween(l) ==
    \A i, j \in 1..Len(l) : i < j /\ IsEnd(l, i) /\ IsEnd(l, j)
        => \E k \in (i + 1)..(j - 1) : IsStart(l, k)
StartBefore(l) ==
    \A j \in 1..Len(l) : IsEnd(l, j) => \E i \in 1..(j - 1) : IsStart(l, i)

Alternates(l) == EndBetween(l) /\ StartBetween(l) /\ StartBefore(l)

OpenTurn(l) == \E i \in 1..Len(l) : /\ IsStart(l, i)
                                    /\ \A k \in (i + 1)..Len(l) : ~IsEnd(l, k)

LEMMA AddMessages ==
    ASSUME NEW l \in Seq(Events), NEW m \in Seq(Events), Alternates(l),
           Len(l) <= Len(m), \A i \in 1..Len(l) : m[i] = l[i],
           \A i \in (Len(l) + 1)..Len(m) : m[i][1] = "message"
    PROVE  Alternates(m) /\ (OpenTurn(m) <=> OpenTurn(l))
<1>1. Len(l) \in Nat /\ Len(m) \in Nat
    OBVIOUS
<1>2. \A i \in 1..Len(m) : i > Len(l) => ~IsStart(m, i) /\ ~IsEnd(m, i)
    BY <1>1 DEF IsStart, IsEnd, Terminals
<1>3. \A i \in 1..Len(l) : /\ IsStart(m, i) <=> IsStart(l, i)
                           /\ IsEnd(m, i) <=> IsEnd(l, i)
    BY DEF IsStart, IsEnd
<1>4. Alternates(m)
  <2>1. EndBetween(m)
    <3> SUFFICES ASSUME NEW i \in 1..Len(m), NEW j \in 1..Len(m), i < j,
                        IsStart(m, i), IsStart(m, j)
                 PROVE  \E k \in (i + 1)..(j - 1) : IsEnd(m, k)
        BY DEF EndBetween
    <3>1. i \in 1..Len(l) /\ j \in 1..Len(l) /\ IsStart(l, i) /\ IsStart(l, j)
        BY <1>1, <1>2, <1>3
    <3>2. PICK k \in (i + 1)..(j - 1) : IsEnd(l, k)
        BY <3>1 DEF Alternates, EndBetween
    <3> QED  BY <1>1, <1>3, <3>1, <3>2
  <2>2. StartBetween(m)
    <3> SUFFICES ASSUME NEW i \in 1..Len(m), NEW j \in 1..Len(m), i < j,
                        IsEnd(m, i), IsEnd(m, j)
                 PROVE  \E k \in (i + 1)..(j - 1) : IsStart(m, k)
        BY DEF StartBetween
    <3>1. i \in 1..Len(l) /\ j \in 1..Len(l) /\ IsEnd(l, i) /\ IsEnd(l, j)
        BY <1>1, <1>2, <1>3
    <3>2. PICK k \in (i + 1)..(j - 1) : IsStart(l, k)
        BY <3>1 DEF Alternates, StartBetween
    <3> QED  BY <1>1, <1>3, <3>1, <3>2
  <2>3. StartBefore(m)
    <3> SUFFICES ASSUME NEW j \in 1..Len(m), IsEnd(m, j)
                 PROVE  \E i \in 1..(j - 1) : IsStart(m, i)
        BY DEF StartBefore
    <3>1. j \in 1..Len(l) /\ IsEnd(l, j)
        BY <1>1, <1>2, <1>3
    <3>2. PICK i \in 1..(j - 1) : IsStart(l, i)
        BY <3>1 DEF Alternates, StartBefore
    <3>3. i \in 1..Len(l)
        BY <1>1, <3>1
    <3> QED  BY <1>3, <3>2, <3>3
  <2> QED  BY <2>1, <2>2, <2>3 DEF Alternates
<1>5. ASSUME OpenTurn(l) PROVE OpenTurn(m)
  <2>1. PICK o \in 1..Len(l) : IsStart(l, o) /\ \A k \in (o + 1)..Len(l) : ~IsEnd(l, k)
      BY <1>5 DEF OpenTurn
  <2>2. \A k \in (o + 1)..Len(m) : ~IsEnd(m, k)
    <3> TAKE k \in (o + 1)..Len(m)
    <3>1. CASE k <= Len(l)
        BY <1>1, <1>3, <2>1, <3>1
    <3>2. CASE k > Len(l)
        BY <1>1, <1>2, <3>2
    <3> QED  BY <1>1, <3>1, <3>2
  <2>3. o \in 1..Len(m) /\ IsStart(m, o)
      BY <1>1, <1>3, <2>1
  <2> QED  BY <2>2, <2>3 DEF OpenTurn
<1>6. ASSUME OpenTurn(m) PROVE OpenTurn(l)
  <2>1. PICK o \in 1..Len(m) : IsStart(m, o) /\ \A k \in (o + 1)..Len(m) : ~IsEnd(m, k)
      BY <1>6 DEF OpenTurn
  <2>2. o \in 1..Len(l) /\ IsStart(l, o)
      BY <1>1, <1>2, <1>3, <2>1
  <2>3. \A k \in (o + 1)..Len(l) : ~IsEnd(l, k)
      BY <1>1, <1>3, <2>1
  <2> QED  BY <2>2, <2>3 DEF OpenTurn
<1> QED
    BY <1>4, <1>5, <1>6

LEMMA AddStart ==
    ASSUME NEW l \in Seq(Events), NEW e \in Events, e[1] = "started",
           Alternates(l), ~OpenTurn(l)
    PROVE  Alternates(Append(l, e)) /\ OpenTurn(Append(l, e))
<1> DEFINE m == Append(l, e)
<1>1. /\ Len(l) \in Nat /\ Len(m) = Len(l) + 1 /\ m[Len(l) + 1] = e
      /\ \A i \in 1..Len(l) : m[i] = l[i]
    BY Appending
<1> HIDE DEF m
<1>2. IsStart(m, Len(m)) /\ ~IsEnd(m, Len(m))
    BY <1>1 DEF IsStart, IsEnd, Terminals
<1>3. \A i \in 1..Len(l) : /\ IsStart(m, i) <=> IsStart(l, i)
                           /\ IsEnd(m, i) <=> IsEnd(l, i)
    BY <1>1 DEF IsStart, IsEnd
<1>4. \A i \in 1..Len(l) : IsStart(l, i) => \E k \in (i + 1)..Len(l) : IsEnd(l, k)
    BY DEF OpenTurn
<1>5. Alternates(m)
  <2>1. EndBetween(m)
      BY <1>1, <1>2, <1>3, <1>4 DEF Alternates, EndBetween
  <2>2. StartBetween(m) /\ StartBefore(m)
      BY <1>1, <1>2, <1>3 DEF Alternates, StartBetween, StartBefore
  <2> QED  BY <2>1, <2>2 DEF Alternates
<1>6. OpenTurn(m)
    BY <1>1, <1>2 DEF OpenTurn
<1> QED
    BY <1>5, <1>6 DEF m

LEMMA AddEnd ==
    ASSUME NEW l \in Seq(Events), NEW e \in Events, e[1] \in Terminals,
           Alternates(l), OpenTurn(l)
    PROVE  Alternates(Append(l, e)) /\ ~OpenTurn(Append(l, e))
<1> DEFINE m == Append(l, e)
<1>1. /\ Len(l) \in Nat /\ Len(m) = Len(l) + 1 /\ m[Len(l) + 1] = e
      /\ \A i \in 1..Len(l) : m[i] = l[i]
    BY Appending
<1> HIDE DEF m
<1>2. IsEnd(m, Len(m)) /\ ~IsStart(m, Len(m))
    BY <1>1 DEF IsStart, IsEnd, Terminals
<1>3. \A i \in 1..Len(l) : /\ IsStart(m, i) <=> IsStart(l, i)
                           /\ IsEnd(m, i) <=> IsEnd(l, i)
                           /\ ~(IsStart(l, i) /\ IsEnd(l, i))
    BY <1>1 DEF IsStart, IsEnd, Terminals
<1>4. PICK o \in 1..Len(l) : IsStart(l, o) /\ \A k \in (o + 1)..Len(l) : ~IsEnd(l, k)
    BY DEF OpenTurn
<1>5. \A i \in 1..Len(l) : IsEnd(l, i) => i < o
    BY <1>1, <1>3, <1>4
<1>6. Alternates(m)
  <2>1. EndBetween(m)
      BY <1>1, <1>2, <1>3 DEF Alternates, EndBetween
  <2>2. StartBetween(m)
    <3> SUFFICES ASSUME NEW i \in 1..Len(m), NEW j \in 1..Len(m), i < j,
                        IsEnd(m, i), IsEnd(m, j)
                 PROVE  \E k \in (i + 1)..(j - 1) : IsStart(m, k)
        BY DEF StartBetween
    <3>1. i \in 1..Len(l) /\ IsEnd(l, i) /\ i < o
        BY <1>1, <1>3, <1>5
    <3>2. CASE j \in 1..Len(l)
      <4>1. IsEnd(l, j)
          BY <1>3, <3>2
      <4>2. PICK k \in (i + 1)..(j - 1) : IsStart(l, k)
          BY <3>1, <3>2, <4>1 DEF Alternates, StartBetween
      <4> QED  BY <1>1, <1>3, <3>1, <3>2, <4>2
    <3>3. CASE j = Len(l) + 1
      <4>1. o \in (i + 1)..(j - 1) /\ IsStart(m, o)
          BY <1>1, <1>3, <1>4, <3>1, <3>3
      <4> QED  BY <4>1
    <3>4. j \in 1..Len(l) \/ j = Len(l) + 1
        BY <1>1
    <3> QED  BY <3>2, <3>3, <3>4
  <2>3. StartBefore(m)
      BY <1>1, <1>2, <1>3, <1>4 DEF Alternates, StartBefore
  <2> QED  BY <2>1, <2>2, <2>3 DEF Alternates
<1>7. ~OpenTurn(m)
    BY <1>1, <1>2 DEF OpenTurn
<1> QED
    BY <1>6, <1>7 DEF m

\* Some task is in a turn.
AtTurn == \E c \in Calls : pc[c] \in InTurn

\* What a step adds to the log, and whether a turn is being run before and after.
TurnShape ==
    \/ log' = log /\ (AtTurn' <=> AtTurn)
    \/ FoldItems /\ (AtTurn' <=> AtTurn)
    \/ Opens /\ ~AtTurn /\ AtTurn'
    \/ (\E event : Closes(event)) /\ AtTurn /\ ~AtTurn'
    \/ Refuses /\ ~AtTurn /\ AtTurn'

LEMMA TurnShapeOfStep == ASSUME TypeOK, DriverInv, [Next]_vars PROVE TurnShape
<1> USE DEF TurnShape, AtTurn, Driving, InTurn, Closing, Unnoted, Goto
<1>0. pc \in [Calls -> PC] /\ OneDriver
    BY DEF TypeOK, DriverInv
<1>1. ASSUME NEW c \in Calls, Submit(c) PROVE TurnShape
    BY <1>0, <1>1 DEF Submit, Enqueue, RequestCompaction, Reject, Full, ActivateSession,
                      Poke, Enter
<1>2. ASSUME NEW c \in Calls, Drive(c) PROVE TurnShape
  <2>0. \A d \in Calls : d # c /\ pc[c] \in Driving => pc[d] \notin InTurn
      BY <1>0 DEF OneDriver
  <2>1. CASE RunTurn(c)
      BY <1>0, <2>0, <2>1 DEF RunTurn
  <2>2. CASE Step(c)
      BY <1>0, <2>0, <2>2 DEF Step
  <2>3. CASE Trigger(c)
      BY <1>0, <2>0, <2>3 DEF Trigger, Opens
  <2>4. CASE MaintenanceFailure(c)
      BY <1>0, <2>0, <2>4 DEF MaintenanceFailure, Refuses
  <2>5. /\ <<"failed", None>> \in Terminals \X (Calls \cup {None} \cup Reasons)
        /\ <<"ended", None>> \in Terminals \X (Calls \cup {None} \cup Reasons)
        /\ <<"cancelled", reason>> \in Terminals \X (Calls \cup {None} \cup Reasons)
        /\ <<"cancelled", captured>> \in Terminals \X (Calls \cup {None} \cup Reasons)
      BY DEF TypeOK, Terminals
  <2>6. CASE log' # log /\ (StepCeiling(c) \/ Fail(c) \/ Conclude(c)
                            \/ CancelledByTools(c) \/ ToolsDone(c))
    <3>1. \E event : Closes(event)
        BY <2>5, <2>6 DEF StepCeiling, Fail, Conclude, CancelledByTools, ToolsDone,
                          Terminal, Closes
    <3>2. pc[c] \in InTurn /\ \E to \in Closing : pc' = [pc EXCEPT ![c] = to]
        BY <2>6 DEF StepCeiling, Fail, Conclude, CancelledByTools, ToolsDone, Terminal,
                    Return
    <3> QED  BY <1>0, <2>0, <3>1, <3>2
  <2>7. CASE log' = log /\ (StepCeiling(c) \/ Fail(c) \/ Conclude(c)
                            \/ CancelledByTools(c) \/ ToolsDone(c))
    <3>1. \A e : Append(log, e) # log
        BY DEF TypeOK
    <3> QED  BY <1>0, <2>7, <3>1 DEF StepCeiling, Fail, Conclude, CancelledByTools,
                                     ToolsDone, Terminal
  <2>8. CASE Leave(c) \/ Begin(c) \/ Think(c) \/ CallProvider(c) \/ Answer(c)
             \/ StoreState(c) \/ noteTerminal(c)
      BY <1>0, <2>8 DEF Leave, Begin, Think, CallProvider, Answer, StoreState, noteTerminal
  <2>9. CASE Nudge(c) \/ CallTools(c) \/ Ask(c) \/ Permitted(c) \/ Stop(c) \/ Rested(c)
             \/ flushSettleCallbacks(c) \/ RunCallback(c)
      BY <1>0, <2>9 DEF Nudge, CallTools, Ask, Permitted, Stop, Rested,
                        flushSettleCallbacks, TakeIf, RunCallback
  <2> QED
      BY <1>2, <2>1, <2>2, <2>3, <2>4, <2>6, <2>7, <2>8, <2>9 DEF Drive
<1>3. CASE \/ onSettled \/ Cancel \/ \E how \in Controls : TestState(how)
           \/ Dispose \/ DisposeClear \/ DisposePark \/ UNCHANGED vars
    BY <1>3 DEF onSettled, Cancel, TestState, Dispose, DisposeClear, DisposePark, vars
<1> QED
    BY <1>1, <1>2, <1>3 DEF Next

TurnInv == Alternates(log) /\ (OpenTurn(log) <=> AtTurn)

LEMMA TurnStep == TypeOK /\ DriverInv /\ TurnInv /\ [Next]_vars => TurnInv'
<1> SUFFICES ASSUME TypeOK, DriverInv, TurnInv, [Next]_vars
             PROVE  Alternates(log') /\ (OpenTurn(log') <=> AtTurn')
    BY DEF TurnInv, Alternates, EndBetween, StartBetween, StartBefore, OpenTurn, IsStart,
           IsEnd
<1>1. TurnShape /\ log \in Seq(Events) /\ inbox \in Seq(Calls)
    BY TurnShapeOfStep DEF TypeOK
<1> USE DEF TurnInv
<1>2. CASE log' = log /\ (AtTurn' <=> AtTurn)
    BY <1>2
<1>3. CASE FoldItems /\ (AtTurn' <=> AtTurn)
    BY <1>1, <1>3, Folding, AddMessages
<1>4. CASE Opens /\ ~AtTurn /\ AtTurn'
  <2>1. <<"started", Head(inbox)>> \in Events
      BY <1>1, <1>4, HeadTailProperties DEF Opens, Events
  <2> QED  BY <1>1, <1>4, <2>1, AddStart DEF Opens
<1>5. CASE (\E event : Closes(event)) /\ AtTurn /\ ~AtTurn'
  <2>1. PICK event : Closes(event)
      BY <1>5
  <2>2. event \in Events /\ event[1] \in Terminals
      BY <2>1 DEF Closes, Events
  <2> QED  BY <1>1, <1>5, <2>1, <2>2, AddEnd DEF Closes
<1>6. CASE Refuses /\ ~AtTurn /\ AtTurn'
  <2>1. <<"started", None>> \in Events
      BY DEF Events
  <2> QED  BY <1>1, <1>6, <2>1, AddStart DEF Refuses
<1> QED
    BY <1>1, <1>2, <1>3, <1>4, <1>5, <1>6 DEF TurnShape

LEMMA TurnAlways == Spec => []TurnInv
<1>1. Init => TurnInv
  <2> SUFFICES ASSUME Init PROVE Alternates(log) /\ ~OpenTurn(log) /\ ~AtTurn
      BY DEF TurnInv
  <2>1. 1..Len(log) = {}
      BY DEF Init
  <2>2. Alternates(log) /\ ~OpenTurn(log)
      BY <2>1 DEF Alternates, EndBetween, StartBetween, StartBefore, OpenTurn
  <2>3. ~AtTurn
      BY DEF Init, AtTurn, InTurn
  <2> QED  BY <2>2, <2>3
<1> QED
    BY <1>1, TypeCorrect, DriverAlways, TurnStep, PTL DEF Spec

\* A turn has one terminal event and is closed by it, also when a dispose or a
\* cancel comes between its steps, and for a compaction no inbox had room for.
THEOREM One_Terminal_Per_Turn == Spec => []OneTerminalPerTurn
<1>1. TurnInv => OneTerminalPerTurn
    BY DEF TurnInv, Alternates, EndBetween, StartBetween, StartBefore, OpenTurn, AtTurn,
           IsStart, IsEnd, OneTerminalPerTurn, Open, Started, Ended
<1> QED
    BY <1>1, TurnAlways, PTL

-----------------------------------------------------------------------------
(* A callback fires after a terminal event *)

\* Some task has a terminal event in the log and has not noted it.
AtClose == \E c \in Calls : pc[c] \in Unnoted

\* A step keeps what the log holds.
Grows == /\ Len(log) \in Nat /\ Len(log') \in Nat /\ Len(log) <= Len(log')
         /\ \A i \in 1..Len(log) : log'[i] = log[i]

LEMMA GrowsByStep == ASSUME TypeOK, [Next]_vars PROVE Grows
<1>1. log \in Seq(Events) /\ Len(log) \in Nat
    BY DEF TypeOK
<1>2. CASE log' = log
    BY <1>1, <1>2 DEF Grows
<1>3. CASE FoldItems
    BY <1>1, <1>3, Folding DEF Grows
<1>4. ASSUME NEW e, log' = Append(log, e) PROVE Grows
    BY <1>1, <1>4 DEF Grows
<1> QED
    BY <1>2, <1>3, <1>4, Shape DEF SeqShape, Accepts, Opens, Closes, Refuses

\* Only an appended terminal event brings a task to where it has one to note, and
\* while it is there nobody appends.
NoteShape ==
    /\ \/ log' = log /\ (AtClose' => AtClose)
       \/ ~AtClose'
       \/ \E event : Closes(event)
    /\ generation' = generation \/ (AtClose /\ generation' = generation + 1)

LEMMA NoteShapeOfStep == ASSUME TypeOK, DriverInv, [Next]_vars PROVE NoteShape
<1> USE DEF NoteShape, AtClose, Driving, InTurn, Closing, Unnoted, Goto
<1>0. pc \in [Calls -> PC] /\ OneDriver
    BY DEF TypeOK, DriverInv
<1>1. ASSUME NEW c \in Calls, Submit(c) PROVE NoteShape
    BY <1>0, <1>1 DEF Submit, Enqueue, RequestCompaction, Reject, Full, ActivateSession,
                      Poke, Enter, settling
<1>2. ASSUME NEW c \in Calls, Drive(c) PROVE NoteShape
  <2>0. \A d \in Calls : d # c /\ pc[c] \in Driving => pc[d] \notin Unnoted
      BY <1>0 DEF OneDriver
  <2>1. CASE RunTurn(c) \/ Step(c) \/ Trigger(c) \/ MaintenanceFailure(c)
    <3>1. generation' = generation
        BY <2>1 DEF RunTurn, Step, Trigger, MaintenanceFailure, settling
    <3>2. pc[c] \in Driving /\ \E to \in {"folded", "think", "while", "begun", "refused"} :
                                   pc' = [pc EXCEPT ![c] = to]
        BY <2>1 DEF RunTurn, Step, Trigger, MaintenanceFailure
    <3> QED  BY <1>0, <2>0, <3>1, <3>2
  <2>2. CASE StepCeiling(c) \/ Fail(c) \/ Conclude(c) \/ CancelledByTools(c)
    <3>1. /\ <<"failed", None>> \in Terminals \X (Calls \cup {None} \cup Reasons)
          /\ <<"ended", None>> \in Terminals \X (Calls \cup {None} \cup Reasons)
          /\ <<"cancelled", reason>> \in Terminals \X (Calls \cup {None} \cup Reasons)
          /\ <<"cancelled", captured>> \in Terminals \X (Calls \cup {None} \cup Reasons)
        BY DEF TypeOK, Terminals
    <3>2. \E event : Closes(event)
        BY <2>2, <3>1 DEF StepCeiling, Fail, Conclude, CancelledByTools, Terminal, Closes
    <3>3. generation' = generation
        BY <2>2 DEF StepCeiling, Fail, Conclude, CancelledByTools, settling
    <3> QED  BY <3>2, <3>3
  <2>3. CASE ToolsDone(c)
    <3>1. generation' = generation
        BY <2>3 DEF ToolsDone, settling
    <3>2. CASE log' = Append(log, <<"failed", None>>)
      <4>1. Closes(<<"failed", None>>)
          BY <3>2 DEF Closes, Terminals
      <4> QED  BY <3>1, <4>1
    <3>3. CASE Goto(c, "step")
        BY <1>0, <2>0, <2>3, <3>1, <3>3 DEF ToolsDone
    <3> QED  BY <2>3, <3>2, <3>3 DEF ToolsDone, Terminal
  <2>4. CASE Leave(c) \/ Begin(c) \/ Think(c) \/ CallProvider(c) \/ Answer(c)
             \/ StoreState(c) \/ noteTerminal(c)
      BY <1>0, <2>4 DEF Leave, Begin, Think, CallProvider, Answer, StoreState, noteTerminal,
                        settling
  <2>5. CASE Nudge(c) \/ CallTools(c) \/ Ask(c) \/ Permitted(c) \/ Stop(c) \/ Rested(c)
             \/ flushSettleCallbacks(c) \/ RunCallback(c)
      BY <1>0, <2>5 DEF Nudge, CallTools, Ask, Permitted, Stop, Rested,
                        flushSettleCallbacks, TakeIf, RunCallback, settling
  <2> QED  BY <1>2, <2>1, <2>2, <2>3, <2>4, <2>5 DEF Drive
<1>3. CASE \/ onSettled \/ Cancel \/ \E how \in Controls : TestState(how)
           \/ Dispose \/ DisposeClear \/ DisposePark \/ UNCHANGED vars
    BY <1>3 DEF onSettled, Cancel, TestState, Dispose, DisposeClear, DisposePark, vars,
                settling
<1> QED
    BY <1>1, <1>2, <1>3 DEF Next

\* The terminal event a task has still to note is the last of the log.
CloseInv == AtClose => Len(log) > 0 /\ IsEnd(log, Len(log))

\* A terminal event after the registration of a callback, or one in the log by then
\* that had still to be noted.
Later(w, l) == \E i \in 1..Len(l) : IsEnd(l, i) /\ (i > w.at \/ (w.unnoted /\ i = w.at))

\* A waiting callback is one of an agent whose dispose has not cleared it, and a
\* newer generation, or a terminal event about to make it newer, is a later event.
WatchInv == watch.state = "waiting" =>
                /\ disposer \in {"none", "exchanged"}
                /\ watch.at <= Len(log)
                /\ watch.generation <= generation
                /\ watch.generation < generation \/ AtClose => Later(watch, log)

\* The steps that change the callback or take dispose past its first step.
WatchShape == \/ /\ watch' = watch
                 /\ disposer' \in {disposer, "exchanged"} \/ disposer \in {"cleared", "parked"}
              \/ onSettled \/ DisposeClear
              \/ \E c \in Calls : flushSettleCallbacks(c)
              \/ watch' = Spent("fired")

LEMMA WatchShapeOfStep == ASSUME [Next]_vars PROVE WatchShape
<1> USE DEF WatchShape, settling, control
<1>1. ASSUME NEW c \in Calls, Submit(c) PROVE WatchShape
    BY <1>1 DEF Submit, Enqueue, RequestCompaction, Reject, Full, ActivateSession, Poke, Enter
<1>2. ASSUME NEW c \in Calls, Drive(c) PROVE WatchShape
    BY <1>2 DEF Drive, Leave, MaintenanceFailure, RunTurn, Trigger, Begin, Step, StepCeiling,
            Think, Fail, CallProvider, Answer, Conclude, Nudge, CallTools, Ask, Permitted,
            CancelledByTools, ToolsDone, Stop, Rested, StoreState, noteTerminal, RunCallback,
            Terminal, Return
<1>3. CASE \/ Cancel \/ \E how \in Controls : TestState(how)
           \/ Dispose \/ DisposePark \/ UNCHANGED vars
    BY <1>3 DEF Cancel, TestState, Dispose, DisposePark, vars
<1> QED
    BY <1>1, <1>2, <1>3 DEF Next

SettleInv == CloseInv /\ WatchInv

LEMMA CloseStep == ASSUME TypeOK, DriverInv, CloseInv, [Next]_vars PROVE CloseInv'
<1> SUFFICES ASSUME AtClose' PROVE Len(log') > 0 /\ IsEnd(log', Len(log'))
    BY DEF CloseInv, IsEnd
<1>1. NoteShape /\ log \in Seq(Events)
    BY NoteShapeOfStep DEF TypeOK
<1>2. CASE log' = log /\ AtClose
    BY <1>2 DEF CloseInv
<1>3. CASE \E event : Closes(event)
  <2>1. PICK event : Closes(event)
      BY <1>3
  <2>2. event \in Events /\ event[1] \in Terminals
      BY <2>1 DEF Closes, Events
  <2>3. Len(log') = Len(log) + 1 /\ log'[Len(log) + 1] = event /\ Len(log) \in Nat
      BY <1>1, <2>1, <2>2, Appending DEF Closes
  <2> QED  BY <2>2, <2>3 DEF IsEnd
<1> QED
    BY <1>1, <1>2, <1>3 DEF NoteShape

LEMMA WatchStep == ASSUME TypeOK, DriverInv, SettleInv, [Next]_vars PROVE WatchInv'
<1> SUFFICES ASSUME watch'.state = "waiting"
             PROVE  /\ disposer' \in {"none", "exchanged"}
                    /\ watch'.at <= Len(log')
                    /\ watch'.generation <= generation'
                    /\ watch'.generation < generation' \/ AtClose' => Later(watch', log')
    BY DEF WatchInv, Later, IsEnd
<1> USE DEF SettleInv
<1>1. /\ Grows /\ NoteShape /\ CloseInv' /\ generation \in Nat /\ log \in Seq(Events)
      /\ watch \in [state : {"none", "waiting", "taken", "fired", "cleared"},
                    generation : Nat, at : Nat, unnoted : BOOLEAN]
    BY GrowsByStep, NoteShapeOfStep, CloseStep DEF TypeOK
<1>2. CASE onSettled
  <2>1. /\ watch'.generation = generation' /\ generation' = generation
        /\ watch'.at = Len(log') /\ (watch'.unnoted <=> AtClose')
        /\ disposer' \in {"none", "exchanged"}
      BY <1>2 DEF onSettled, control, disposed, AtClose
  <2>2. ASSUME AtClose' PROVE Later(watch', log')
    <3>1. Len(log') > 0 /\ IsEnd(log', Len(log')) /\ Len(log') \in Nat
        BY <1>1, <2>2 DEF CloseInv, IsEnd, Grows
    <3> QED  BY <2>1, <2>2, <3>1 DEF Later
  <2> QED  BY <1>1, <2>1, <2>2 DEF Grows
<1>3. /\ ~DisposeClear /\ watch' # Spent("fired")
      /\ ~\E c \in Calls : flushSettleCallbacks(c) /\ watch' # watch
    BY <1>1 DEF Spent, DisposeClear, flushSettleCallbacks, TakeIf
<1>4. CASE watch' = watch /\ disposer' \in {"none", "exchanged"}
  <2>1. Later(watch, log) => Later(watch, log')
      BY <1>1 DEF Grows, Later, IsEnd
  <2>2. generation' # generation => Later(watch, log')
      BY <1>1, <1>4, <2>1 DEF NoteShape, WatchInv
  <2>3. ASSUME AtClose' PROVE Later(watch, log')
    <3>1. CASE log' = log /\ AtClose
        BY <1>4, <2>1, <3>1 DEF WatchInv
    <3>2. CASE \E event : Closes(event)
      <4>1. PICK event : Closes(event)
          BY <3>2
      <4>2. Len(log') = Len(log) + 1 /\ Len(log) \in Nat
          BY <1>1, <4>1, Appending DEF Closes, Events
      <4>3. IsEnd(log', Len(log'))
          BY <1>1, <2>3 DEF CloseInv, IsEnd
      <4>4. watch.at <= Len(log) /\ watch.at \in Nat
          BY <1>1, <1>4 DEF WatchInv
      <4>5. Len(log') \in 1..Len(log') /\ Len(log') > watch.at
          BY <4>2, <4>4
      <4> QED  BY <4>3, <4>5 DEF Later
    <3> QED  BY <1>1, <2>3, <3>1, <3>2 DEF NoteShape
  <2> QED
      BY <1>1, <1>4, <2>1, <2>2, <2>3 DEF Grows, WatchInv, NoteShape
<1>5. ASSUME ~onSettled PROVE watch' = watch /\ disposer' \in {"none", "exchanged"}
  <2>1. watch' = watch
      BY <1>3, <1>5, WatchShapeOfStep DEF WatchShape
  <2>2. CASE \E c \in Calls : flushSettleCallbacks(c)
      BY <2>1, <2>2 DEF flushSettleCallbacks, TakeIf, WatchInv, control
  <2> QED
      BY <1>3, <1>5, <2>1, <2>2, WatchShapeOfStep DEF WatchShape, WatchInv
<1> QED
    BY <1>2, <1>4, <1>5

\* An onSettled callback is taken only when a terminal event has been noted since
\* its registration and no task is in a turn, and never once a dispose has cleared it.
THEOREM Settles_After_Terminal == Spec => SettlesAfterTerminal
<1>1. Init => SettleInv
    BY DEF Spent, Init, SettleInv, CloseInv, WatchInv, AtClose, Unnoted
<1>2. TypeOK /\ DriverInv /\ SettleInv /\ [Next]_vars => SettleInv'
    BY CloseStep, WatchStep DEF SettleInv
<1>3. TypeOK /\ DriverInv /\ TurnInv /\ SettleInv /\ [Next]_vars =>
        [watch'.state = "taken" /\ watch.state # "taken" =>
            /\ \E i \in 1..Len(log) :
                 Ended(i) /\ (i > watch.at \/ (watch.unnoted /\ i = watch.at))
            /\ \A i \in 1..Len(log) : ~Open(i)
            /\ disposer \in {"none", "exchanged"}]_vars
  <2> SUFFICES ASSUME TypeOK, DriverInv, TurnInv, SettleInv, [Next]_vars,
                      watch'.state = "taken", watch.state # "taken"
               PROVE  /\ \E i \in 1..Len(log) :
                           Ended(i) /\ (i > watch.at \/ (watch.unnoted /\ i = watch.at))
                      /\ \A i \in 1..Len(log) : ~Open(i)
                      /\ disposer \in {"none", "exchanged"}
      OBVIOUS
  <2>1. watch \in [state : {"none", "waiting", "taken", "fired", "cleared"},
                   generation : Nat, at : Nat, unnoted : BOOLEAN]
      BY DEF TypeOK
  <2>2. ~onSettled /\ ~DisposeClear /\ watch' # Spent("fired")
      BY <2>1 DEF Spent, onSettled, DisposeClear
  <2>3. PICK c \in Calls : flushSettleCallbacks(c)
      BY <2>2, WatchShapeOfStep DEF WatchShape
  <2>4. watch.state = "waiting" /\ watch.generation < generation /\ ~running
      BY <2>1, <2>3 DEF flushSettleCallbacks, TakeIf, AtRest
  <2>5. disposer \in {"none", "exchanged"} /\ Later(watch, log)
      BY <2>4 DEF SettleInv, WatchInv
  <2>6. ~AtTurn
      BY <2>4, <2>5 DEF DriverInv, Claimed, Driving, AtTurn
  <2>7. \A i \in 1..Len(log) : ~Open(i)
      BY <2>6 DEF TurnInv, OpenTurn, IsStart, IsEnd, Open, Started, Ended
  <2> QED
      BY <2>5, <2>7 DEF Later, IsEnd, Ended
<1> QED
    BY <1>1, <1>2, <1>3, TypeCorrect, DriverAlways, TurnAlways, PTL
       DEF Spec, SettlesAfterTerminal

-----------------------------------------------------------------------------
(* Items *)

\* The first k numbers after m, beside a set of numbers up to m.
LEMMA CountOn ==
    ASSUME NEW m \in Nat, NEW k \in Nat, NEW S, S \subseteq 1..m
    PROVE  /\ IsFiniteSet(S) /\ IsFiniteSet(S \cup ((m + 1)..(m + k)))
           /\ Cardinality(S) \in Nat
           /\ Cardinality(S \cup ((m + 1)..(m + k))) = Cardinality(S) + k
<1> DEFINE T == (m + 1)..(m + k)
<1>1. IsFiniteSet(1..m) /\ IsFiniteSet(T) /\ Cardinality(T) = k
  <2>1. m + 1 \in Int /\ m + k \in Int /\ (m + 1 > m + k => k = 0) /\ (m + k) - (m + 1) + 1 = k
      OBVIOUS
  <2>2. IsFiniteSet(T) /\ Cardinality(T) = IF m + 1 > m + k THEN 0 ELSE (m + k) - (m + 1) + 1
      BY <2>1, FS_Interval
  <2> HIDE DEF T
  <2>3. Cardinality(T) = k
      BY <2>1, <2>2
  <2>4. IsFiniteSet(1..m)
      BY FS_Interval
  <2> QED  BY <2>2, <2>3, <2>4
<1>2. IsFiniteSet(S) /\ Cardinality(S) \in Nat
    BY <1>1, FS_Subset, FS_CardinalityType
<1>3. S \cap T = {}
    OBVIOUS
<1> HIDE DEF T
<1>4. Cardinality(S \cap T) = 0
    BY <1>3, FS_EmptySet
<1>5. /\ IsFiniteSet(S \cup T)
      /\ Cardinality(S \cup T) = Cardinality(S) + Cardinality(T) - Cardinality(S \cap T)
    BY <1>1, <1>2, FS_Union
<1> QED
    BY <1>1, <1>2, <1>4, <1>5 DEF T

IsItem(e) == e[1] = "message" \/ (e[1] = "started" /\ e[2] # None)

\* The log keeps what it has and gets k more events.
LogGrows(k) ==
    /\ Len(log) \in Nat /\ k \in Nat /\ Len(log') = Len(log) + k
    /\ \A i \in 1..Len(log) : log'[i] = log[i]

\* Events that are no items leave the items where they are.
LEMMA NoItems ==
    ASSUME NEW k, LogGrows(k),
           \A i \in (Len(log) + 1)..(Len(log) + k) : ~IsItem(log'[i])
    PROVE  /\ Items' = Items
           /\ \A i \in Items : ItemsUpTo(i)' = ItemsUpTo(i) /\ log'[i] = log[i]
<1>1. Items' = Items
    BY DEF LogGrows, Items, IsItem
<1>2. \A i \in Items : i \in 1..Len(log)
    BY DEF Items
<1> QED
    BY <1>1, <1>2 DEF LogGrows, ItemsUpTo

\* Events that are all items are counted on.
LEMMA MoreItems ==
    ASSUME NEW k, LogGrows(k),
           \A i \in (Len(log) + 1)..(Len(log) + k) : IsItem(log'[i])
    PROVE  /\ Cardinality(Items') = Cardinality(Items) + k /\ Cardinality(Items) \in Nat
           /\ Items' = Items \cup ((Len(log) + 1)..(Len(log) + k))
           /\ \A i \in Items : ItemsUpTo(i)' = ItemsUpTo(i) /\ log'[i] = log[i]
           /\ \A j \in 1..k, i \in Items' :
                 i = Len(log) + j => ItemsUpTo(i)' = Cardinality(Items) + j
<1> DEFINE m == Len(log)
<1>1. m \in Nat /\ k \in Nat /\ Len(log') = m + k /\ \A i \in 1..m : log'[i] = log[i]
    BY DEF LogGrows
<1>2. Items \subseteq 1..m
    BY DEF Items
<1>3. Items' = Items \cup ((m + 1)..(m + k))
  <2>1. Items' = {i \in 1..(m + k) : IsItem(log'[i])} /\ Items = {i \in 1..m : IsItem(log[i])}
      BY <1>1 DEF Items, IsItem
  <2>2. \A i \in (m + 1)..(m + k) : IsItem(log'[i])
      OBVIOUS
  <2>3. ASSUME NEW i \in 1..m PROVE IsItem(log'[i]) <=> IsItem(log[i])
      BY <1>1
  <2> HIDE DEF m
  <2> QED  BY <1>1, <2>1, <2>2, <2>3
<1> HIDE DEF m
<1>4. Cardinality(Items') = Cardinality(Items) + k /\ Cardinality(Items) \in Nat
    BY <1>1, <1>2, <1>3, CountOn
<1>5. ASSUME NEW i \in Items
      PROVE  ItemsUpTo(i)' = ItemsUpTo(i) /\ log'[i] = log[i]
  <2>1. {j \in Items' : j <= i} = {j \in Items : j <= i}
      BY <1>1, <1>2, <1>3
  <2> QED  BY <1>1, <1>2, <2>1 DEF ItemsUpTo
<1>6. ASSUME NEW j \in 1..k, NEW i \in Items', i = m + j
      PROVE  ItemsUpTo(i)' = Cardinality(Items) + j
  <2>1. j \in Nat
      BY <1>1
  <2>2. {h \in Items' : h <= i} = Items \cup ((m + 1)..(m + j))
    <3>1. ASSUME NEW h \in Items', h <= i PROVE h \in Items \cup ((m + 1)..(m + j))
      <4>1. CASE h \in (m + 1)..(m + k)
          BY <1>1, <1>6, <2>1, <3>1, <4>1
      <4> QED  BY <1>3, <4>1
    <3>2. ASSUME NEW h \in Items PROVE h \in Items' /\ h <= i
        BY <1>1, <1>2, <1>3, <1>6, <2>1
    <3>3. ASSUME NEW h \in (m + 1)..(m + j) PROVE h \in Items' /\ h <= i
      <4>1. h \in (m + 1)..(m + k) /\ h <= i
          BY <1>1, <1>6, <2>1
      <4> QED  BY <1>3, <4>1
    <3> QED  BY <3>1, <3>2, <3>3
  <2>3. Cardinality(Items \cup ((m + 1)..(m + j))) = Cardinality(Items) + j
      BY <1>1, <1>2, <2>1, CountOn
  <2> QED  BY <2>2, <2>3 DEF ItemsUpTo
<1> QED
    BY <1>3, <1>4, <1>5, <1>6 DEF m

\* The items of the log are the first of the accepted ones ...
Logged == /\ Cardinality(Items) \in Nat
          /\ \A i \in Items : /\ ItemsUpTo(i) \in 1..Cardinality(Items)
                              /\ log[i][2] = accepted[ItemsUpTo(i)]

\* ... and the inbox holds those after them.
Waiting == /\ Len(accepted) = Cardinality(Items) + Len(inbox)
           /\ \A k \in 1..Len(inbox) : inbox[k] = accepted[Cardinality(Items) + k]

Conserved == /\ Logged
             /\ ~Cleared => Waiting
             /\ Cleared => inbox = <<>> /\ Cardinality(Items) <= Len(accepted)

LEMMA ConservedInv == TypeOK /\ Conserved => ItemsConserved
<1> SUFFICES ASSUME TypeOK, Conserved PROVE ItemsConserved
    OBVIOUS
<1>1. /\ inbox \in Seq(Calls) /\ accepted \in Seq(Calls) /\ Cardinality(Items) \in Nat
      /\ Len(inbox) \in Nat /\ Len(accepted) \in Nat
    BY DEF TypeOK, Conserved, Logged
<1>2. Cardinality(Items) <= Len(accepted)
    BY <1>1 DEF Conserved, Waiting
<1>3. CASE ~Cleared
  <2> DEFINE rest == SubSeq(accepted, Cardinality(Items) + 1, Len(accepted))
  <2>1. \A i \in (Cardinality(Items) + 1)..Len(accepted) : accepted[i] \in Calls
      BY <1>1
  <2>2. /\ Len(rest) = Len(accepted) - Cardinality(Items)
        /\ \A i \in 1..(Len(accepted) - Cardinality(Items)) : rest[i] = accepted[Cardinality(Items) + i]
        /\ rest \in Seq(Calls)
      BY <1>1, <1>2, <2>1, SubSeqProperties
  <2> HIDE DEF rest
  <2>3. Len(rest) = Len(inbox) /\ \A i \in 1..Len(inbox) : rest[i] = inbox[i]
    <3>1. Len(accepted) = Cardinality(Items) + Len(inbox)
          /\ \A k \in 1..Len(inbox) : inbox[k] = accepted[Cardinality(Items) + k]
        BY <1>3 DEF Conserved, Waiting
    <3>2. Len(accepted) - Cardinality(Items) = Len(inbox)
        BY <1>1, <3>1
    <3> QED  BY <2>2, <3>1, <3>2
  <2>4. inbox = rest
      BY <1>1, <2>2, <2>3, SeqEqual
  <2> QED  BY <1>2, <1>3, <2>4 DEF Conserved, Logged, ItemsConserved, Cleared, rest
<1>4. CASE Cleared
    BY <1>2, <1>4 DEF Conserved, Logged, ItemsConserved, Cleared
<1> QED
    BY <1>3, <1>4

\* A dispose that has cleared the inbox is not undone, and nothing is accepted
\* after it.
LEMMA ClearedStep == ASSUME [Next]_vars, Cleared PROVE Cleared'
<1>1. \/ disposer' = disposer \/ Dispose \/ DisposeClear \/ DisposePark
    BY DEF Next, Submit, Enqueue, RequestCompaction, Reject, Full, ActivateSession, Poke,
           Enter, Drive, Leave, MaintenanceFailure, RunTurn, Trigger, Begin, Step,
           StepCeiling, Think, Fail, CallProvider, Answer, Conclude, Nudge, CallTools, Ask,
           Permitted, CancelledByTools, ToolsDone, Stop, Rested, flushSettleCallbacks, TakeIf,
           RunCallback, StoreState, noteTerminal, onSettled, Cancel, TestState, control, vars
<1> QED
    BY <1>1 DEF Cleared, Dispose, DisposeClear, DisposePark

LEMMA ClearingStep ==
    ASSUME [Next]_vars, ~Cleared, Cleared'
    PROVE  inbox' = <<>> /\ UNCHANGED <<accepted, log>>
<1>1. DisposeClear
  <2>1. \/ disposer' = disposer \/ Dispose \/ DisposeClear \/ DisposePark
      BY DEF Next, Submit, Enqueue, RequestCompaction, Reject, Full, ActivateSession, Poke,
             Enter, Drive, Leave, MaintenanceFailure, RunTurn, Trigger, Begin, Step,
             StepCeiling, Think, Fail, CallProvider, Answer, Conclude, Nudge, CallTools, Ask,
             Permitted, CancelledByTools, ToolsDone, Stop, Rested, flushSettleCallbacks, TakeIf,
             RunCallback, StoreState, noteTerminal, onSettled, Cancel, TestState, control, vars
  <2> QED  BY <2>1 DEF Cleared, Dispose, DisposePark
<1> QED
    BY <1>1 DEF DisposeClear

\* Steps that log no item and leave what was accepted.
LEMMA NothingLogged ==
    ASSUME Logged, accepted' = accepted, NEW k, LogGrows(k),
           \A i \in (Len(log) + 1)..(Len(log) + k) : ~IsItem(log'[i])
    PROVE  Logged' /\ Cardinality(Items') = Cardinality(Items)
<1>1. /\ Items' = Items
      /\ \A i \in Items : ItemsUpTo(i)' = ItemsUpTo(i) /\ log'[i] = log[i]
    BY NoItems
<1>2. \A i \in Items' : /\ ItemsUpTo(i)' \in 1..Cardinality(Items')
                        /\ log'[i][2] = accepted'[ItemsUpTo(i)']
    BY <1>1 DEF Logged
<1> QED
    BY <1>1, <1>2 DEF Logged

\* Steps that log the first k of the inbox.
LEMMA FrontLogged ==
    ASSUME TypeOK, Logged, Waiting, accepted' = accepted,
           NEW k, LogGrows(k), k <= Len(inbox),
           \A j \in 1..k : IsItem(log'[Len(log) + j]) /\ log'[Len(log) + j][2] = inbox[j],
           Len(inbox') = Len(inbox) - k,
           \A j \in 1..(Len(inbox) - k) : inbox'[j] = inbox[k + j]
    PROVE  Logged' /\ Waiting'
<1> DEFINE c == Cardinality(Items)
<1>1. Len(log) \in Nat /\ Len(inbox) \in Nat /\ k \in Nat /\ c \in Nat
    BY DEF TypeOK, LogGrows, Logged
<1>2. ASSUME NEW i \in (Len(log) + 1)..(Len(log) + k) PROVE IsItem(log'[i])
  <2>1. i - Len(log) \in 1..k /\ Len(log) + (i - Len(log)) = i
      BY <1>1
  <2> QED  BY <2>1
<1>3. /\ Cardinality(Items') = c + k
      /\ Items' = Items \cup ((Len(log) + 1)..(Len(log) + k))
      /\ \A i \in Items : ItemsUpTo(i)' = ItemsUpTo(i) /\ log'[i] = log[i]
      /\ \A j \in 1..k, i \in Items' : i = Len(log) + j => ItemsUpTo(i)' = c + j
    BY <1>2, MoreItems
<1>4. \A j \in 1..Len(inbox) : inbox[j] = accepted[c + j]
    BY DEF Waiting
<1>5. ASSUME NEW i \in Items'
      PROVE  ItemsUpTo(i)' \in 1..(c + k) /\ log'[i][2] = accepted[ItemsUpTo(i)']
  <2>1. CASE i \in Items
    <3>1. ItemsUpTo(i) \in 1..c /\ log[i][2] = accepted[ItemsUpTo(i)]
        BY <2>1 DEF Logged
    <3>2. ItemsUpTo(i)' = ItemsUpTo(i) /\ log'[i] = log[i]
        BY <1>3, <2>1
    <3> HIDE DEF c
    <3> QED  BY <1>1, <3>1, <3>2
  <2>2. CASE i \in (Len(log) + 1)..(Len(log) + k)
    <3>1. PICK j \in 1..k : i = Len(log) + j
      <4>1. i - Len(log) \in 1..k /\ i = Len(log) + (i - Len(log))
          BY <1>1, <2>2
      <4> QED  BY <4>1
    <3>2. ItemsUpTo(i)' = c + j /\ log'[i][2] = inbox[j]
        BY <1>3, <1>5, <3>1
    <3>3. inbox[j] = accepted[c + j] /\ c + j \in 1..(c + k)
        BY <1>1, <1>4
    <3> QED  BY <3>2, <3>3
  <2> QED  BY <1>3, <2>1, <2>2
<1>6. Logged'
    BY <1>1, <1>3, <1>5 DEF Logged
<1>7. Waiting'
  <2>1. Len(accepted') = Cardinality(Items') + Len(inbox')
      BY <1>1, <1>3 DEF Waiting
  <2>2. ASSUME NEW j \in 1..Len(inbox')
        PROVE  inbox'[j] = accepted'[Cardinality(Items') + j]
    <3>1. j \in 1..(Len(inbox) - k) /\ k + j \in 1..Len(inbox) /\ c + (k + j) = (c + k) + j
        BY <1>1
    <3> QED  BY <1>3, <1>4, <3>1
  <2> QED  BY <2>1, <2>2 DEF Waiting
<1> QED
    BY <1>6, <1>7

\* Events that are no items: terminal ones, and a start without a trigger.
NoItemLogged == \E k \in Nat : /\ LogGrows(k)
                               /\ \A i \in (Len(log) + 1)..(Len(log) + k) : ~IsItem(log'[i])

LEMMA PlainEvents ==
    ASSUME TypeOK, \/ log' = log
                   \/ \E event : Closes(event)
                   \/ Refuses
    PROVE  NoItemLogged
<1>1. log \in Seq(Events) /\ Len(log) \in Nat
    BY DEF TypeOK
<1>2. CASE log' = log
  <2>1. LogGrows(0)
      BY <1>1, <1>2 DEF LogGrows
  <2>2. (Len(log) + 1)..(Len(log) + 0) = {}
      BY <1>1
  <2> QED  BY <2>1, <2>2 DEF NoItemLogged
<1>3. CASE \E event : Closes(event)
  <2>1. PICK event : Closes(event)
      BY <1>3
  <2>2. event \in Events /\ ~IsItem(event)
      BY <2>1 DEF Closes, Events, IsItem, Terminals
  <2>3. LogGrows(1) /\ log'[Len(log) + 1] = event
      BY <1>1, <2>1, <2>2, Appending DEF Closes, LogGrows
  <2>4. \A i \in (Len(log) + 1)..(Len(log) + 1) : i = Len(log) + 1
      BY <1>1
  <2> QED  BY <2>2, <2>3, <2>4 DEF NoItemLogged
<1>4. CASE Refuses
  <2>1. <<"started", None>> \in Events /\ ~IsItem(<<"started", None>>)
      BY DEF Events, IsItem
  <2>2. LogGrows(1) /\ log'[Len(log) + 1] = <<"started", None>>
      BY <1>1, <1>4, <2>1, Appending DEF Refuses, LogGrows
  <2>3. \A i \in (Len(log) + 1)..(Len(log) + 1) : i = Len(log) + 1
      BY <1>1
  <2> QED  BY <2>1, <2>2, <2>3 DEF NoItemLogged
<1> QED
    BY <1>2, <1>3, <1>4

\* A disposed agent: nothing is accepted, and nothing is left to be logged.
LEMMA ConservedCleared ==
    ASSUME TypeOK, Conserved, SeqShape, Cleared, Cleared' PROVE Conserved'
<1>1. inbox = <<>> /\ Logged /\ Cardinality(Items) <= Len(accepted)
    BY DEF Conserved
<1>2. ~Accepts /\ ~Opens
    BY <1>1 DEF Accepts, Opens, Cleared, disposed
<1>3. ASSUME FoldItems PROVE inbox' = <<>> /\ NoItemLogged
  <2>1. PICK n \in 0..Len(inbox) : /\ inbox' = SubSeq(inbox, n + 1, Len(inbox))
                                   /\ log' = log \o Messages(n)
      BY <1>3 DEF FoldItems
  <2>2. n = 0 /\ Len(inbox) = 0 /\ Len(log) \in Nat
      BY <1>1 DEF TypeOK
  <2>3. /\ inbox' \in Seq(Calls) /\ Len(inbox') = 0 /\ Len(log') = Len(log) + 0
        /\ \A i \in 1..Len(log) : log'[i] = log[i]
      BY <2>1, <2>2, FoldingFront
  <2>4. LogGrows(0) /\ (Len(log) + 1)..(Len(log) + 0) = {}
      BY <2>2, <2>3 DEF LogGrows
  <2> QED  BY <2>3, <2>4, EmptySeq DEF NoItemLogged
<1>4. accepted' = accepted /\ inbox' = <<>> /\ NoItemLogged
    BY <1>1, <1>2, <1>3, PlainEvents DEF SeqShape
<1>5. Logged' /\ Cardinality(Items') = Cardinality(Items)
    BY <1>1, <1>4, NothingLogged DEF NoItemLogged
<1> QED
    BY <1>1, <1>4, <1>5 DEF Conserved

LEMMA ConservedWaiting ==
    ASSUME TypeOK, Conserved, SeqShape, ~Cleared, ~Cleared' PROVE Logged' /\ Waiting'
<1>1. /\ Logged /\ Waiting /\ Cardinality(Items) \in Nat
      /\ inbox \in Seq(Calls) /\ Len(inbox) \in Nat /\ accepted \in Seq(Calls)
      /\ log \in Seq(Events) /\ Len(log) \in Nat /\ Len(accepted) \in Nat
    BY DEF Conserved, Logged, TypeOK
<1>2. CASE UNCHANGED <<inbox, accepted>> /\ (log' = log \/ (\E event : Closes(event))
                                             \/ Refuses)
  <2>1. Logged' /\ Cardinality(Items') = Cardinality(Items)
      BY <1>1, <1>2, PlainEvents, NothingLogged DEF NoItemLogged
  <2> QED  BY <1>1, <1>2, <2>1 DEF Waiting
<1>3. CASE Accepts
  <2>1. PICK c \in Calls : /\ inbox' = Append(inbox, c) /\ log' = log
                           /\ accepted' = Append(accepted, c)
      BY <1>3 DEF Accepts
  <2>2. /\ Len(inbox') = Len(inbox) + 1 /\ inbox'[Len(inbox) + 1] = c
        /\ \A i \in 1..Len(inbox) : inbox'[i] = inbox[i]
      BY <1>1, <2>1, Appending
  <2>3. /\ Len(accepted') = Len(accepted) + 1 /\ accepted'[Len(accepted) + 1] = c
        /\ \A i \in 1..Len(accepted) : accepted'[i] = accepted[i]
      BY <1>1, <2>1, Appending
  <2>4. Items' = Items /\ \A i : ItemsUpTo(i)' = ItemsUpTo(i)
      BY <2>1 DEF Items, ItemsUpTo
  <2>5. Len(accepted) = Cardinality(Items) + Len(inbox)
        /\ \A k \in 1..Len(inbox) : inbox[k] = accepted[Cardinality(Items) + k]
      BY <1>1 DEF Waiting
  <2>6. ASSUME NEW i \in Items
        PROVE  /\ ItemsUpTo(i) \in 1..Cardinality(Items)
               /\ log'[i][2] = accepted'[ItemsUpTo(i)]
    <3>1. ItemsUpTo(i) \in 1..Cardinality(Items) /\ log[i][2] = accepted[ItemsUpTo(i)]
        BY <1>1 DEF Logged
    <3>2. ItemsUpTo(i) \in 1..Len(accepted)
        BY <1>1, <2>5, <3>1
    <3> QED  BY <2>1, <2>3, <3>1, <3>2
  <2>7. Logged'
      BY <1>1, <2>4, <2>6 DEF Logged
  <2>8. ASSUME NEW k \in 1..Len(inbox')
        PROVE  inbox'[k] = accepted'[Cardinality(Items) + k]
    <3>1. CASE k \in 1..Len(inbox)
      <4>1. Cardinality(Items) + k \in 1..Len(accepted)
          BY <1>1, <2>5, <3>1
      <4> QED  BY <2>2, <2>3, <2>5, <3>1, <4>1
    <3>2. CASE k = Len(inbox) + 1
      <4>1. Cardinality(Items) + k = Len(accepted) + 1
          BY <1>1, <2>5, <3>2
      <4> QED  BY <2>2, <2>3, <3>2, <4>1
    <3> QED  BY <1>1, <2>2, <3>1, <3>2
  <2>9. Waiting'
      BY <1>1, <2>2, <2>3, <2>4, <2>5, <2>8 DEF Waiting
  <2> QED  BY <2>7, <2>9
<1>4. CASE FoldItems /\ UNCHANGED accepted
  <2>1. PICK n \in 0..Len(inbox) : /\ inbox' = SubSeq(inbox, n + 1, Len(inbox))
                                   /\ log' = log \o Messages(n)
      BY <1>4 DEF FoldItems
  <2>2. /\ Len(inbox') = Len(inbox) - n
        /\ \A j \in 1..(Len(inbox) - n) : inbox'[j] = inbox[n + j]
        /\ Len(log') = Len(log) + n
        /\ \A i \in 1..Len(log) : log'[i] = log[i]
        /\ \A j \in 1..n : log'[Len(log) + j] = <<"message", inbox[j]>>
      BY <2>1, FoldingFront
  <2>3. LogGrows(n) /\ n <= Len(inbox)
      BY <1>1, <2>2 DEF LogGrows
  <2>4. ASSUME NEW j \in 1..n
        PROVE  IsItem(log'[Len(log) + j]) /\ log'[Len(log) + j][2] = inbox[j]
    <3>1. log'[Len(log) + j] = <<"message", inbox[j]>>
        BY <2>2
    <3> QED  BY <3>1 DEF IsItem
  <2> QED  BY <1>1, <1>4, <2>2, <2>3, <2>4, FrontLogged
<1>5. CASE Opens
  <2>1. /\ inbox # <<>> /\ inbox' = Tail(inbox) /\ accepted' = accepted
        /\ log' = Append(log, <<"started", Head(inbox)>>)
      BY <1>5 DEF Opens
  <2>2. /\ Head(inbox) \in Calls /\ Head(inbox) = inbox[1] /\ Len(inbox) >= 1
        /\ Len(inbox') = Len(inbox) - 1
        /\ \A j \in 1..(Len(inbox) - 1) : inbox'[j] = inbox[1 + j]
      BY <1>1, <2>1
  <2>3. <<"started", Head(inbox)>> \in Events /\ IsItem(<<"started", Head(inbox)>>)
      BY <2>2 DEF Events, IsItem
  <2>4. /\ Len(log') = Len(log) + 1 /\ log'[Len(log) + 1] = <<"started", Head(inbox)>>
        /\ \A i \in 1..Len(log) : log'[i] = log[i]
      BY <1>1, <2>1, <2>3, Appending
  <2>5. LogGrows(1) /\ 1 <= Len(inbox)
      BY <1>1, <2>2, <2>4 DEF LogGrows
  <2>6. \A j \in 1..1 : IsItem(log'[Len(log) + j]) /\ log'[Len(log) + j][2] = inbox[j]
    <3>1. \A j \in 1..1 : j = 1
        OBVIOUS
    <3> QED  BY <2>2, <2>3, <2>4, <3>1
  <2> QED  BY <1>1, <2>1, <2>2, <2>5, <2>6, FrontLogged
<1> QED
    BY <1>2, <1>3, <1>4, <1>5 DEF SeqShape

LEMMA ConservedStep == TypeOK /\ Conserved /\ [Next]_vars => Conserved'
<1> SUFFICES ASSUME TypeOK, Conserved, [Next]_vars PROVE Conserved'
    OBVIOUS
<1>1. SeqShape
    BY Shape
<1>2. CASE Cleared
    BY <1>1, <1>2, ClearedStep, ConservedCleared
<1>3. CASE ~Cleared /\ Cleared'
  <2>1. inbox' = <<>> /\ UNCHANGED <<accepted, log>>
      BY <1>3, ClearingStep
  <2>2. Logged' /\ Cardinality(Items') = Cardinality(Items)
      BY <2>1, PlainEvents, NothingLogged DEF NoItemLogged, Conserved
  <2>3. Cardinality(Items) <= Len(accepted)
      BY <1>3 DEF Conserved, Waiting, Logged, TypeOK
  <2> QED  BY <1>3, <2>1, <2>2, <2>3 DEF Conserved
<1>4. CASE ~Cleared /\ ~Cleared'
    BY <1>1, <1>4, ConservedWaiting DEF Conserved
<1> QED
    BY <1>2, <1>3, <1>4

\* Every accepted item reaches the log once and in the order of acceptance, or is
\* in the inbox, whoever enqueues, cancels or disposes meanwhile; only dispose,
\* which empties the inbox, drops what is still in it.
THEOREM Items_Conserved == Spec => []ItemsConserved
<1>1. Init => Conserved
  <2> SUFFICES ASSUME Init PROVE Conserved
      OBVIOUS
  <2>1. Items = {}
      BY DEF Init, Items
  <2>2. Cardinality(Items) = 0
      BY <2>1, FS_EmptySet
  <2>3. inbox = <<>> /\ accepted = <<>> /\ ~Cleared
      BY DEF Init, Cleared
  <2> QED  BY <2>1, <2>2, <2>3 DEF Conserved, Logged, Waiting
<1> QED
    BY <1>1, TypeCorrect, ConservedInv, ConservedStep, PTL DEF Spec

=============================================================================
