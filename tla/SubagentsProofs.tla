-------------------------- MODULE SubagentsProofs --------------------------
(***************************************************************************)
(* Proofs about the settlements of children, for any sets of children and  *)
(* of calls and any bounds.                                                *)
(*                                                                         *)
(* That an epoch gets one fan-in rests on the claim: an epoch's number is  *)
(* in one of three places, the open entry, one settlement that appends, or *)
(* the log. A foreground run without an epoch (number 0) has no entry to   *)
(* claim; there the only settlement is its waiter's, and it has one.       *)
(*                                                                         *)
(* That a notice comes after its fan-in rests on when the ordinals are     *)
(* taken: an epoch's job takes the next one when it is opened, so that it  *)
(* is at most one ahead of the log, and is named only by the settlement    *)
(* that has appended a fan-in since (NoticeInv).                           *)
(***************************************************************************)
EXTENDS Subagents, FiniteSetTheorems, TLAPS

Claims(s, c, e) == s.stage = "appending" /\ s.child = c /\ s.epoch = e
WaitsFor(s, c)  == s.by = "waiter" /\ s.child = c

LogInv ==
    /\ OneFanInPerEpoch
    /\ \A i \in DOMAIN log : log[i].kind = "fanin" => log[i].number <= opened

ClaimInv ==
    /\ \A s \in settlers : s.stage = "appending" =>
         /\ s.epoch <= opened /\ ~FannedIn(log, s.child, s.epoch)
         /\ s.epoch = 0 => s.by = "waiter"
    /\ \A s, t \in settlers : \A c \in Children, e \in Numbers :
         Claims(s, c, e) /\ Claims(t, c, e) => s = t

EntryInv ==
    \A c \in Children :
        /\ epochs[c].number <= opened
        /\ epochs[c].open =>
             /\ epochs[c].number # 0 /\ ~FannedIn(log, c, epochs[c].number)
             /\ \A s \in settlers : ~Claims(s, c, epochs[c].number)

\* Whoever was registered with an epoch finds an entry.
RegisteredInv ==
    /\ \A s \in settlers : s.by # "waiter" => epochs[s.child].number # 0
    /\ \A s \in settlers : s.stage = "checking" => s.by # "waiter"
    /\ \A c \in Children : \A w \in watchers[c] : ~w.waits => epochs[c].number # 0
    /\ \A t \in Senders : sender[t].at = "watching" => epochs[sender[t].child].number # 0

WaiterInv ==
    /\ \A c \in Children : waiter[c].at # "none" =>
         /\ \A s \in settlers : ~WaitsFor(s, c)
         /\ ~FannedIn(log, c, 0)
    /\ \A s, t \in settlers : \A c \in Children : WaitsFor(s, c) /\ WaitsFor(t, c) => s = t
    /\ \A s \in settlers : s.by = "waiter" /\ s.stage = "claiming" =>
         ~FannedIn(log, s.child, 0)

CreatedInv ==
    \A c \in Children \ created :
        /\ waiter[c].at = "none" /\ ~FannedIn(log, c, 0)
        /\ \A s \in settlers : ~WaitsFor(s, c)

SettledInv == LogInv /\ ClaimInv /\ EntryInv /\ RegisteredInv /\ WaiterInv /\ CreatedInv

USE LimitAssumption, NoneAssumption

-----------------------------------------------------------------------------
(* Types *)

LEMMA CountType ==
    ASSUME NEW l \in Seq(Record), NEW c
    PROVE  /\ Count(l, c) \in Nat
           /\ \A i \in DOMAIN l : Ordinal(l, i) \in Nat
<1>1. IsFiniteSet(1..Len(l)) /\ DOMAIN l = 1..Len(l)
    BY FS_Interval
<1>2. \A S : S \subseteq DOMAIN l => Cardinality(S) \in Nat
    BY <1>1, FS_Subset, FS_CardinalityType
<1> QED
    BY <1>2 DEF Count, Ordinal, FanIns

LEMMA UnreportedType ==
    ASSUME NEW l \in Seq(Record)
    PROVE  Unreported(l) \subseteq Children \X Nat
<1>1. \A i \in DOMAIN l : l[i] \in Record
    OBVIOUS
<1>2. \A i \in DOMAIN l : l[i].child \in Children /\ Ordinal(l, i) \in Nat
    BY <1>1, CountType DEF Record
<1> QED
    BY <1>2 DEF Unreported, Background

\* A notice from the parent's inbox is a record and leaves an inbox behind.
LEMMA TakenType ==
    ASSUME TypeOK, parentInbox # <<>>, TakeNotice
    PROVE  /\ parentInbox' \in Seq(Item) /\ log' \in Seq(Record)
           /\ Head(parentInbox) \in Item
           /\ Notice(Head(parentInbox).child, Head(parentInbox).number) \in Record
           /\ Notice(Head(parentInbox).child, Head(parentInbox).number).kind = "notice"
<1>1. parentInbox \in Seq(Item) /\ log \in Seq(Record)
    BY DEF TypeOK
<1>2. Head(parentInbox) \in Item /\ parentInbox' \in Seq(Item)
    BY <1>1 DEF TakeNotice
<1>3. /\ Notice(Head(parentInbox).child, Head(parentInbox).number) \in Record
      /\ Notice(Head(parentInbox).child, Head(parentInbox).number).kind = "notice"
    BY <1>2 DEF Notice, Item, Record
<1>4. log' \in Seq(Record)
    BY <1>1, <1>3 DEF TakeNotice
<1> QED
    BY <1>2, <1>3, <1>4

LEMMA WokenHasNotice == ASSUME Woken PROVE parentInbox # <<>>
<1>1. PICK i \in DOMAIN parentInbox : TRUE
    BY DEF Woken, ParentIsBusy
<1> QED
    BY <1>1

LEMMA CurrentType ==
    ASSUME TypeOK, NEW c \in Children
    PROVE  Current(c) \subseteq Children \X Numbers
<1>1. epochs[c].number \in Numbers
    BY DEF TypeOK, Epoch
<1> QED  BY <1>1 DEF Current

\* What an item does to a child's inbox and its history, taken or refused.
LEMMA AcceptType ==
    ASSUME TypeOK, NEW c \in Children, Accept(c) \/ Refuse(c)
    PROVE  inbox' \in [Children -> Nat] /\ lost' \in SUBSET (Children \X Numbers)
<1>1. inbox \in [Children -> Nat] /\ lost \subseteq Children \X Numbers /\ inbox[c] \in Nat
    BY DEF TypeOK
<1>2. inbox' = inbox \/ inbox' = [inbox EXCEPT ![c] = @ + 1]
    BY DEF Accept, Refuse
<1>3. lost' = lost \/ lost' = lost \cup Current(c)
    BY DEF Accept, Refuse
<1>4. inbox' \in [Children -> Nat]
    BY <1>1, <1>2
<1>5. lost' \in SUBSET (Children \X Numbers)
    BY <1>1, <1>3, CurrentType
<1> QED
    BY <1>4, <1>5

\* The parts of the state that the actions change, one update at a time.
LEMMA WatchedType ==
    ASSUME watchers \in [Children -> SUBSET Watcher], NEW c, NEW w \in Watcher
    PROVE  Watched(c, w) \in [Children -> SUBSET Watcher]
    BY DEF Watched

LEMMA OpenType ==
    ASSUME TypeOK, NEW c \in Children, NEW x \in BOOLEAN, OpenEpoch(c, x)
    PROVE  epochs' \in [Children -> Epoch] /\ jobs' \in [1..MaxEpochs -> Job]
<1>1. /\ opened + 1 \in Numbers
      /\ epochs \in [Children -> Epoch] /\ jobs \in [1..MaxEpochs -> Job]
    BY DEF TypeOK, OpenEpoch, Numbers
<1>2. [number |-> opened + 1, open |-> TRUE, expected |-> x] \in Epoch
    BY <1>1 DEF Epoch
<1>3. Count(log, c) + 1 \in Nat
    BY CountType DEF TypeOK
<1>4. [state |-> "running", child |-> c, ordinal |-> Count(log, c) + 1] \in Job
    BY <1>3 DEF Job
<1> QED  BY <1>1, <1>2, <1>4 DEF OpenEpoch

LEMMA GoType ==
    ASSUME sender \in [Senders -> Sending], NEW t \in Senders,
           NEW a \in {"looking", "reading", "opening", "watching", "sending"}, Go(t, a)
    PROVE  sender' \in [Senders -> Sending]
<1>1. [sender[t] EXCEPT !.at = a] \in Sending
    BY DEF Sending
<1>2. sender' = [sender EXCEPT ![t] = [sender[t] EXCEPT !.at = a]]
    BY DEF Go
<1> QED  BY <1>1, <1>2

LEMMA SendersWithoutType ==
    ASSUME sender \in [Senders -> Sending], NEW c
    PROVE  SendersWithout(c) \in [Senders -> Sending]
<1>1. \A t \in Senders : [sender[t] EXCEPT !.holds = FALSE] \in Sending
    BY DEF Sending
<1> QED  BY <1>1 DEF SendersWithout

LEMMA SettlerUpdate ==
    ASSUME NEW s \in Settler, NEW g \in Stages
    PROVE  /\ [s EXCEPT !.live = FALSE] \in Settler
           /\ [s EXCEPT !.stage = g] \in Settler
           /\ \A b \in BOOLEAN : [s EXCEPT !.stage = g, !.live = b] \in Settler
           /\ \A e, j \in Numbers : [s EXCEPT !.stage = g, !.epoch = e, !.job = j] \in Settler
           /\ \A n \in Nat : [s EXCEPT !.stage = g, !.seen = n] \in Settler
    BY DEF Settler

LEMMA SettlersWithoutType ==
    ASSUME NEW c, NEW S \in SUBSET Settler
    PROVE  SettlersWithout(c, S) \subseteq Settler
<1>1. \A s \in S : [s EXCEPT !.live = FALSE] \in Settler
    BY DEF Settler
<1> QED  BY <1>1 DEF SettlersWithout

LEMMA MoveType ==
    ASSUME settlers \subseteq Settler, NEW s, NEW t \in Settler, Move(s, t)
    PROVE  settlers' \subseteq Settler
    BY DEF Move

LEMMA StopType ==
    ASSUME settlers \subseteq Settler, NEW c \in Children, NEW k \in BOOLEAN, StopWaiting(c, k)
    PROVE  settlers' \subseteq Settler
<1>1. [child |-> c, by |-> "waiter", epoch |-> 0, expected |-> FALSE,
       continuable |-> k, live |-> agent[c] = "live", stage |-> "claiming",
       job |-> 0, seen |-> 0] \in Settler
    BY DEF Settler, Stages, Numbers
<1> QED  BY <1>1 DEF StopWaiting

\* Who is on the way to a child has one, and who reports on a job has one.
Targets ==
    /\ \A t \in Senders : sender[t].at \notin {"new", "done"} => sender[t].child \in Children
    /\ \A s \in settlers : s.stage \in {"reporting", "injecting", "waking"} =>
         s.job \in 1..MaxEpochs

LEMMA Typing == TypeOK /\ Targets /\ [Next]_vars => TypeOK'
<1> SUFFICES ASSUME TypeOK, Targets, [Next]_vars PROVE TypeOK'
    OBVIOUS
<1>1. ASSUME Prompt PROVE TypeOK'
  <2> QED
    BY <1>1 DEF TypeOK, Prompt, daemon, sessions, loops, service, threads
<1>2. ASSUME Woken PROVE TypeOK'
  <2>1. /\ parentInbox' \in Seq(Item) /\ log' \in Seq(Record)
        /\ Head(parentInbox) \in Item
      BY <1>2, WokenHasNotice, TakenType DEF Woken
  <2>2. parentBusy' \in BOOLEAN
      BY <1>2, <2>1 DEF Woken, Item
  <2> QED
    BY <1>2, <2>1, <2>2
    DEF TypeOK, Woken, TakeNotice, daemon, sessions, loops, service, threads
<1>3. ASSUME FoldNotice PROVE TypeOK'
  <2>1. parentInbox' \in Seq(Item) /\ log' \in Seq(Record)
      BY <1>3, TakenType DEF FoldNotice
  <2> QED
    BY <1>3, <2>1
    DEF TypeOK, FoldNotice, TakeNotice, daemon, sessions, loops, service, threads
<1>4. ASSUME EndParentTurn PROVE TypeOK'
  <2> QED
    BY <1>4 DEF TypeOK, EndParentTurn, daemon, sessions, loops, service, threads
<1>5. ASSUME NEW c \in Children, NEW k \in BOOLEAN, StartBackground(c, k) PROVE TypeOK'
  <2>1. watchers' \in [Children -> SUBSET Watcher]
    <3>1. opened + 1 \in Numbers
        BY <1>5 DEF TypeOK, StartBackground, OpenEpoch, Numbers
    <3>2. NewWatcher(opened + 1, k) \in Watcher
        BY <3>1 DEF Watcher, NewWatcher
    <3> QED  BY <1>5, <3>2, WatchedType DEF TypeOK, StartBackground
  <2>2. epochs' \in [Children -> Epoch]
    BY <1>5
    DEF TypeOK, StartBackground, OpenEpoch, Epoch, Numbers
  <2>3. jobs' \in [1..MaxEpochs -> Job]
    BY <1>5, OpenType DEF StartBackground
  <2> QED
    BY <1>5, <2>1, <2>2, <2>3
    DEF TypeOK, StartBackground, CreateChild, OpenEpoch, Numbers, daemon, parent
<1>6. ASSUME NEW c \in Children, NEW k \in BOOLEAN, StartForeground(c, k) PROVE TypeOK'
  <2>1. watchers' \in [Children -> SUBSET Watcher]
    <3>1. WaitingWatcher(k) \in Watcher
        BY DEF Watcher, WaitingWatcher, Numbers
    <3> QED  BY <1>6, <3>1, WatchedType DEF TypeOK, StartForeground
  <2>2. epochs' \in [Children -> Epoch]
    <3>1. CASE k
        BY <1>6, <3>1, OpenType DEF TypeOK, StartForeground
    <3>2. CASE ~k
        BY <1>6, <3>2 DEF TypeOK, StartForeground, service
    <3> QED  BY <3>1, <3>2
  <2>3. jobs' \in [1..MaxEpochs -> Job]
    <3>1. CASE k
        BY <1>6, <3>1, OpenType DEF StartForeground
    <3>2. CASE ~k
        BY <1>6, <3>2 DEF TypeOK, StartForeground, service
    <3> QED  BY <3>1, <3>2
  <2>4. waiter' \in [Children -> Waiter]
    BY <1>6
    DEF TypeOK, StartForeground, CreateChild, OpenEpoch, Watched, WaitingWatcher, Waiter
  <2> QED
    BY <1>6, <2>1, <2>2, <2>3, <2>4
    DEF TypeOK, StartForeground, CreateChild, OpenEpoch, Numbers, daemon, parent, service
<1>7. ASSUME NEW c \in Children, WorkerLooks(c) PROVE TypeOK'
  <2>1. settlers' \subseteq Settler
    <3>1. settlers \subseteq Settler /\ epochs[c] \in Epoch
        BY DEF TypeOK
    <3>2. [child |-> c, by |-> "worker", epoch |-> epochs[c].number,
           expected |-> epochs[c].expected, continuable |-> TRUE,
           live |-> FALSE, stage |-> "claiming", job |-> 0, seen |-> 0] \in Settler
        BY <3>1 DEF Settler, Stages, Epoch, Numbers
    <3> QED  BY <1>7, <3>1, <3>2 DEF WorkerLooks
  <2> QED
    BY <1>7, <2>1 DEF TypeOK, WorkerLooks, daemon, sessions, parent, loops, service
<1>8. ASSUME NEW c \in Children, WorkerSends(c) PROVE TypeOK'
  <2>1. inbox' \in [Children -> Nat] /\ lost' \in SUBSET (Children \X Numbers)
      BY <1>8, AcceptType DEF WorkerSends
  <2>2. worker' \in [Children -> {"none", "starting", "found", "stale"}]
      BY <1>8 DEF TypeOK, WorkerSends
  <2> QED  BY <1>8, <2>1, <2>2 DEF TypeOK, WorkerSends, daemon, sessions, parent, service
<1>9. ASSUME NEW c \in Children, BeginTurn(c) PROVE TypeOK'
  <2> QED
    BY <1>9 DEF TypeOK, BeginTurn, daemon, sessions, parent, service, threads
<1>10. ASSUME NEW c \in Children, FoldSteer(c) PROVE TypeOK'
  <2> QED
    BY <1>10 DEF TypeOK, FoldSteer, daemon, sessions, parent, service, threads
<1>11. ASSUME NEW c \in Children, EndTurn(c) PROVE TypeOK'
  <2>1. watchers' \in [Children -> SUBSET Watcher]
    <3>1. \A w \in Watcher : [w EXCEPT !.due = TRUE] \in Watcher
        BY DEF Watcher
    <3>2. {[w EXCEPT !.due = TRUE] : w \in watchers[c]} \in SUBSET Watcher
        BY <3>1 DEF TypeOK
    <3>3. \/ watchers' = [watchers EXCEPT ![c] = {[w EXCEPT !.due = TRUE] : w \in watchers[c]}]
          \/ watchers' = watchers
        BY <1>11 DEF EndTurn
    <3> QED  BY <3>2, <3>3 DEF TypeOK
  <2>2. lost' \subseteq Children \X Numbers
    BY <1>11, CurrentType DEF TypeOK, EndTurn
  <2> QED
    BY <1>11, <2>1, <2>2 DEF TypeOK, EndTurn, daemon, sessions, parent, service, threads
<1>12. ASSUME NEW c \in Children, Flush(c) PROVE TypeOK'
  <2>1. watchers' \in [Children -> SUBSET Watcher]
    BY <1>12 DEF TypeOK, Flush, Watcher, Numbers
  <2>2. waiter' \in [Children -> Waiter]
    <3>1. waiter \in [Children -> Waiter]
        BY DEF TypeOK
    <3>2. \A w \in Waiter : \A a \in {"told", w.at} : [w EXCEPT !.at = a] \in Waiter
        BY DEF Waiter
    <3>3. \/ waiter' = [waiter EXCEPT ![c] = [waiter[c] EXCEPT !.at = "told"]]
          \/ waiter' = [waiter EXCEPT ![c] = [waiter[c] EXCEPT !.at = waiter[c].at]]
        BY <1>12, <3>1 DEF Flush
    <3> QED  BY <3>1, <3>2, <3>3
  <2>3. settlers' \subseteq Settler
    <3>1. settlers \subseteq Settler /\ watchers[c] \subseteq Watcher
        BY DEF TypeOK
    <3>2. \A w \in Watcher :
            [child |-> c, by |-> "callback", epoch |-> w.epoch, expected |-> w.expected,
             continuable |-> w.continuable, live |-> FALSE, stage |-> "checking",
             job |-> 0, seen |-> 0] \in Settler
        BY DEF Watcher, Settler, Stages, Numbers
    <3> QED  BY <1>12, <3>1, <3>2 DEF Flush
  <2> QED
    BY <1>12, <2>1, <2>2, <2>3 DEF TypeOK, Flush, daemon, sessions, parent, service
<1>13. ASSUME NEW c \in Children, Told(c) PROVE TypeOK'
  <2>1. waiter' \in [Children -> Waiter]
    BY <1>13 DEF TypeOK, Told, StopWaiting, NoWaiter, Waiter
  <2>2. settlers' \subseteq Settler
    BY <1>13, StopType DEF TypeOK, Told, Waiter
  <2> QED
    BY <1>13, <2>1, <2>2
    DEF TypeOK, Told, StopWaiting, NoWaiter, daemon, sessions, parent, loops, service
<1>14. ASSUME NEW c \in Children, TimesOut(c) PROVE TypeOK'
  <2>1. waiter' \in [Children -> Waiter]
    BY <1>14 DEF TypeOK, TimesOut, StopWaiting, NoWaiter, Waiter
  <2>2. settlers' \subseteq Settler
    BY <1>14, StopType DEF TypeOK, TimesOut, Waiter
  <2> QED
    BY <1>14, <2>1, <2>2
    DEF TypeOK, TimesOut, StopWaiting, NoWaiter, daemon, sessions, parent, loops,
        service
<1>15. ASSUME NEW c \in Children, Interrupt(c) PROVE TypeOK'
  <2> QED
    BY <1>15 DEF TypeOK, Interrupt, daemon, sessions, parent, service, threads
<1>16. ASSUME NEW c \in Children, Delete(c) PROVE TypeOK'
  <2>1. watchers' \in [Children -> SUBSET Watcher]
    BY <1>16
    DEF TypeOK, Delete, DisposeAgent, SendersWithout, SettlersWithout, Watcher, Numbers
  <2>2. sender' \in [Senders -> Sending]
    BY <1>16, SendersWithoutType DEF TypeOK, Delete, DisposeAgent
  <2>3. settlers' \subseteq Settler
    BY <1>16, SettlersWithoutType DEF TypeOK, Delete
  <2>4. lost' \subseteq Children \X Numbers
    BY <1>16, CurrentType DEF TypeOK, Delete
  <2> QED
    BY <1>16, <2>1, <2>2, <2>3, <2>4
    DEF TypeOK, Delete, DisposeAgent, SendersWithout, SettlersWithout, daemon, parent,
        service
<1>17. ASSUME NEW t \in Senders, NEW c \in Children, Send(t, c) PROVE TypeOK'
  <2>1. sender' \in [Senders -> Sending]
    BY <1>17 DEF TypeOK, Send, Sending
  <2> QED
    BY <1>17, <2>1 DEF TypeOK, Send, daemon, sessions, parent, loops, service
<1>18. ASSUME NEW t \in Senders, LookUp(t) PROVE TypeOK'
  <2>1. sender' \in [Senders -> Sending]
    <3>1. sender \in [Senders -> Sending]
        BY DEF TypeOK
    <3>2. sender[t].child \in Children \cup {None} /\ Finished \in Sending
        BY <3>1 DEF Sending, Finished
    <3>3. \/ sender' = [sender EXCEPT ![t] = Finished]
          \/ sender' = [sender EXCEPT ![t] = [@ EXCEPT !.at = "reading", !.holds = TRUE]]
        BY <1>18, <3>1 DEF LookUp, Finish
    <3>4. [sender[t] EXCEPT !.at = "reading", !.holds = TRUE] \in Sending
        BY <3>1 DEF Sending
    <3> QED  BY <3>1, <3>2, <3>3, <3>4
  <2> QED
    BY <1>18, <2>1 DEF TypeOK, LookUp, Finish, Finished, daemon, sessions, parent, service
<1>19. ASSUME NEW t \in Senders, ReadEpoch(t) PROVE TypeOK'
  <2>1. sender' \in [Senders -> Sending]
    <3>1. Go(t, "sending") \/ Go(t, "opening")
        BY <1>19 DEF ReadEpoch
    <3> QED  BY <3>1, GoType DEF TypeOK
  <2> QED
    BY <1>19, <2>1 DEF TypeOK, ReadEpoch, daemon, sessions, parent, loops, service
<1>20. ASSUME NEW t \in Senders, Open(t) PROVE TypeOK'
  <2>1. epochs' \in [Children -> Epoch]
    BY <1>20, OpenType DEF Targets, Open
  <2>2. jobs' \in [1..MaxEpochs -> Job]
    BY <1>20, OpenType DEF Targets, Open
  <2>3. sender' \in [Senders -> Sending]
    BY <1>20, GoType DEF TypeOK, Open
  <2>4. sender[t].child \in Children
    BY <1>20 DEF Targets, Open
  <2>5. lost' \subseteq Children \X Numbers
    BY <1>20, <2>4, CurrentType DEF TypeOK, Open
  <2> QED
    BY <1>20, <2>1, <2>2, <2>3, <2>5
    DEF TypeOK, Open, OpenEpoch, Numbers, daemon, sessions, parent, loops
<1>21. ASSUME NEW t \in Senders, Watch(t) PROVE TypeOK'
  <2>1. watchers' \in [Children -> SUBSET Watcher]
    <3>1. CASE agent[sender[t].child] = "live"
      <4>1. epochs[sender[t].child].number \in Numbers
          BY <1>21 DEF TypeOK, Targets, Watch, Epoch
      <4>2. NewWatcher(epochs[sender[t].child].number, TRUE) \in Watcher
          BY <4>1 DEF Watcher, NewWatcher
      <4>3. watchers' = Watched(sender[t].child, NewWatcher(epochs[sender[t].child].number, TRUE))
          BY <1>21, <3>1 DEF Watch
      <4> QED  BY <4>2, <4>3, WatchedType DEF TypeOK
    <3>2. CASE agent[sender[t].child] # "live"
        BY <1>21, <3>2 DEF TypeOK, Watch
    <3> QED  BY <3>1, <3>2
  <2>2. sender' \in [Senders -> Sending]
    BY <1>21, GoType DEF TypeOK, Watch
  <2>3. sender[t].child \in Children
    BY <1>21 DEF Targets, Watch
  <2>4. lost' \subseteq Children \X Numbers
    BY <1>21, <2>3, CurrentType DEF TypeOK, Watch
  <2> QED
    BY <1>21, <2>1, <2>2, <2>4
    DEF TypeOK, Watch, Go, Watched, NewWatcher, daemon, sessions, parent, service
<1>22. ASSUME NEW t \in Senders, Deliver(t) PROVE TypeOK'
  <2>1. sender' \in [Senders -> Sending]
      BY <1>22 DEF TypeOK, Deliver, Finish, Finished, Sending
  <2>2. sender[t].child \in Children
      BY <1>22 DEF Targets, Deliver
  <2>3. inbox' \in [Children -> Nat] /\ lost' \in SUBSET (Children \X Numbers)
      BY <1>22, <2>2, AcceptType DEF Deliver
  <2> QED  BY <1>22, <2>1, <2>3 DEF TypeOK, Deliver, daemon, sessions, parent, service
<1>23. ASSUME NEW e \in 1..MaxEpochs, Kill(e) PROVE TypeOK'
  <2>1. jobs' \in [1..MaxEpochs -> Job]
    <3>1. jobs \in [1..MaxEpochs -> Job]
        BY DEF TypeOK
    <3>2. [jobs[e] EXCEPT !.state = "settled"] \in Job
        BY <3>1 DEF Job
    <3>3. jobs' = [jobs EXCEPT ![e] = [@ EXCEPT !.state = "settled"]]
        BY <1>23, <3>1 DEF Kill
    <3> QED  BY <3>1, <3>2, <3>3
  <2> QED
    BY <1>23, <2>1 DEF TypeOK, Kill, daemon, sessions, parent, threads
<1>24. ASSUME NEW s \in settlers, Check(s) PROVE TypeOK'
  <2>1. watchers' \in [Children -> SUBSET Watcher]
    <3>1. s \in Settler
        BY DEF TypeOK
    <3>2. NewWatcher(s.epoch, s.continuable) \in Watcher
        BY <3>1 DEF Watcher, NewWatcher, Settler
    <3>3. watchers' \in {watchers, Watched(s.child, NewWatcher(s.epoch, s.continuable))}
        BY <1>24 DEF Check
    <3> QED  BY <3>2, <3>3, WatchedType DEF TypeOK
  <2>2. settlers' \subseteq Settler
    <3>1. s \in Settler
        BY DEF TypeOK
    <3>2. [s EXCEPT !.stage = "claiming", !.live = agent[s.child] = "live"] \in Settler
        BY <3>1, SettlerUpdate DEF Stages
    <3>3. settlers' = settlers \ {s}
          \/ Move(s, [s EXCEPT !.stage = "claiming", !.live = agent[s.child] = "live"])
        BY <1>24 DEF Check
    <3> QED  BY <3>2, <3>3, MoveType DEF TypeOK
  <2> QED
    BY <1>24, <2>1, <2>2
    DEF TypeOK, Check, Move, Watched, NewWatcher, daemon, sessions, parent, service
<1>25. ASSUME NEW s \in settlers, Claim(s) PROVE TypeOK'
  <2>1. epochs' \in [Children -> Epoch]
    <3>1. epochs \in [Children -> Epoch]
        BY DEF TypeOK
    <3>2. \A e \in Epoch : [e EXCEPT !.open = FALSE] \in Epoch
        BY DEF Epoch
    <3>3. epochs' = epochs \/ epochs' = [epochs EXCEPT ![s.child] = [@ EXCEPT !.open = FALSE]]
        BY <1>25, <3>1 DEF Claim
    <3> QED  BY <3>1, <3>2, <3>3
  <2>2. settlers' \subseteq Settler
    <3>1. s \in Settler
        BY DEF TypeOK
    <3>2. epochs[s.child].number \in Numbers
          /\ (IF epochs[s.child].expected THEN epochs[s.child].number ELSE 0) \in Numbers
        BY <3>1 DEF TypeOK, Epoch, Settler, Numbers
    <3>3. /\ [s EXCEPT !.stage = "closing"] \in Settler
          /\ [s EXCEPT !.stage = "appending", !.epoch = epochs[s.child].number,
                       !.job = IF epochs[s.child].expected THEN epochs[s.child].number ELSE 0]
               \in Settler
        BY <3>1, <3>2, SettlerUpdate DEF Stages
    <3>4. \/ Move(s, [s EXCEPT !.stage = "closing"])
          \/ Move(s, [s EXCEPT !.stage = "appending", !.epoch = epochs[s.child].number,
                       !.job = IF epochs[s.child].expected THEN epochs[s.child].number ELSE 0])
        BY <1>25 DEF Claim
    <3> QED  BY <3>3, <3>4, MoveType DEF TypeOK
  <2>3. lost' \subseteq Children \X Numbers
    BY <1>25 DEF TypeOK, Claim
  <2> QED
    BY <1>25, <2>1, <2>2, <2>3 DEF TypeOK, Claim, Move, daemon, sessions, parent, loops
<1>26. ASSUME NEW s \in settlers, AppendFanIn(s) PROVE TypeOK'
  <2>1. log' \in Seq(Record)
    <3>1. s \in Settler /\ log \in Seq(Record)
        BY DEF TypeOK
    <3>2. FanIn(s.child, s.epoch, s.expected) \in Record
        BY <3>1 DEF FanIn, Record, Settler, Numbers
    <3> QED  BY <1>26, <3>1, <3>2 DEF AppendFanIn
  <2>2. settlers' \subseteq Settler
    BY <1>26 DEF TypeOK, AppendFanIn, Move, FanIn, Settler, Stages, Numbers
  <2> QED
    BY <1>26, <2>1, <2>2
    DEF TypeOK, AppendFanIn, Move, FanIn, daemon, sessions, parent, loops, service
<1>27. ASSUME NEW s \in settlers, Report(s) PROVE TypeOK'
  <2>1. jobs' \in [1..MaxEpochs -> Job]
    <3>1. jobs \in [1..MaxEpochs -> Job]
        BY DEF TypeOK
    <3>2. \A j \in Job : [j EXCEPT !.state = "settled"] \in Job
        BY DEF Job
    <3>3. jobs' = [jobs EXCEPT ![s.job] = [@ EXCEPT !.state = "settled"]]
        BY <1>27, <3>1 DEF Report
    <3> QED  BY <3>1, <3>2, <3>3
  <2>2. settlers' \subseteq Settler
    BY <1>27 DEF TypeOK, Report, Move, Settler, Stages, Numbers
  <2> QED
    BY <1>27, <2>1, <2>2 DEF TypeOK, Report, Move, daemon, sessions, parent, loops
<1>28. ASSUME NEW s \in settlers, Announce(s) PROVE TypeOK'
  <2>1. parentInbox' \in Seq(Item)
    <3>1. s \in Settler /\ jobs[s.job] \in Job /\ parentInbox \in Seq(Item)
        BY <1>28 DEF TypeOK, Targets, Announce
    <3>2. [child |-> s.child, number |-> jobs[s.job].ordinal,
           wakes |-> s.stage = "waking"] \in Item
        BY <3>1 DEF Item, Settler, Job
    <3>3. parentInbox' = parentInbox \/ parentInbox' = Append(parentInbox,
             [child |-> s.child, number |-> jobs[s.job].ordinal, wakes |-> s.stage = "waking"])
        BY <1>28 DEF Announce
    <3> QED  BY <3>1, <3>2, <3>3
  <2>2. settlers' \subseteq Settler
    BY <1>28 DEF TypeOK, Announce, Move, Settler, Stages, Numbers
  <2> QED
    <3>1. s.seen \in Nat
        BY DEF TypeOK, Settler
    <3>2. wakes' \in Nat
        BY <1>28, <3>1 DEF TypeOK, Announce
    <3> QED  BY <1>28, <2>1, <2>2, <3>2
    DEF TypeOK, Announce, daemon, sessions, loops, service
<1>29. ASSUME NEW s \in settlers, Close(s) PROVE TypeOK'
  <2>1. watchers' \in [Children -> SUBSET Watcher]
    BY <1>29
    DEF TypeOK, Close, DisposeAgent, loops
  <2>2. sender' \in [Senders -> Sending]
    BY <1>29, SendersWithoutType DEF TypeOK, Close, DisposeAgent
  <2>3. settlers' \subseteq Settler
    <3>1. settlers \ {s} \subseteq Settler
        BY DEF TypeOK
    <3>2. \/ settlers' = settlers \ {s}
          \/ settlers' = SettlersWithout(s.child, settlers \ {s})
        BY <1>29 DEF Close
    <3> QED  BY <3>1, <3>2, SettlersWithoutType
  <2> QED
    <3>1. UNCHANGED <<daemon, sessions, log, parent, replaying, service, waiter>>
        BY <1>29 DEF Close
    <3>2. DisposeAgent(s.child) \/ UNCHANGED <<loops, worker>>
        BY <1>29 DEF Close
    <3>3. lost' = lost \/ lost' = lost \cup Current(s.child)
        BY <1>29 DEF Close
    <3>4. lost' \in SUBSET (Children \X Numbers)
      <4>1. s.child \in Children
          BY DEF TypeOK, Settler
      <4> QED  BY <3>3, <4>1, CurrentType DEF TypeOK
    <3>5. CASE DisposeAgent(s.child)
        BY <2>1, <2>2, <2>3, <3>1, <3>4, <3>5
        DEF TypeOK, DisposeAgent, daemon, sessions, parent, service
    <3>6. CASE UNCHANGED <<loops, worker>>
        BY <2>1, <2>2, <2>3, <3>1, <3>4, <3>6
        DEF TypeOK, daemon, sessions, parent, loops, service
    <3> QED  BY <3>2, <3>5, <3>6
<1>30. ASSUME Resume PROVE TypeOK'
  <2>1. replaying' \in SUBSET (Children \X Nat)
    BY <1>30, UnreportedType DEF TypeOK, Resume
  <2> QED
    BY <1>30, <2>1 DEF TypeOK, Resume, daemon, sessions, loops, service, threads
<1>31. ASSUME Replay PROVE TypeOK'
  <2>1. log' \in Seq(Record)
    BY <1>31 DEF TypeOK, Replay, Notice, Record, Numbers
  <2>2. replaying' \in SUBSET (Children \X Nat)
    BY <1>31 DEF TypeOK, Replay, Notice
  <2> QED
    BY <1>31, <2>1, <2>2
    DEF TypeOK, Replay, Notice, daemon, sessions, parent, loops, service, threads
<1>32. ASSUME Crash PROVE TypeOK'
  <2>1. parentInbox' \in Seq(Item)
    BY <1>32 DEF TypeOK, Crash, NoJob, NoEpoch, NoWaiter, Finished, Item
  <2>2. replaying' \in SUBSET (Children \X Nat)
    BY <1>32 DEF TypeOK, Crash, NoJob, NoEpoch, NoWaiter, Finished
  <2>3. watchers' \in [Children -> SUBSET Watcher]
    BY <1>32 DEF TypeOK, Crash, NoJob, NoEpoch, NoWaiter, Finished, Watcher, Numbers
  <2>4. epochs' \in [Children -> Epoch]
    BY <1>32 DEF TypeOK, Crash, NoJob, NoEpoch, NoWaiter, Finished, Epoch, Numbers
  <2>5. jobs' \in [1..MaxEpochs -> Job]
    BY <1>32 DEF TypeOK, Crash, NoJob, NoEpoch, NoWaiter, Finished, Job
  <2>6. waiter' \in [Children -> Waiter]
    BY <1>32 DEF TypeOK, Crash, NoJob, NoEpoch, NoWaiter, Finished, Waiter
  <2>7. sender' \in [Senders -> Sending]
    BY <1>32 DEF TypeOK, Crash, NoJob, NoEpoch, NoWaiter, Finished, Sending
  <2>8. settlers' \subseteq Settler
    BY <1>32 DEF TypeOK, Crash, NoJob, NoEpoch, NoWaiter, Finished, Settler, Stages, Numbers
  <2>9. /\ agent' \in [Children -> {"none", "live"}] /\ inbox' \in [Children -> Nat]
        /\ busy' \in [Children -> BOOLEAN] /\ interrupted' \in [Children -> BOOLEAN]
        /\ worker' \in [Children -> {"none", "starting", "found", "stale"}]
        /\ lost' \in SUBSET (Children \X Numbers)
    BY <1>32 DEF Crash
  <2>10. /\ up' \in BOOLEAN /\ crashes' \in 0..MaxCrashes /\ slots' \in Nat
         /\ parentBusy' \in BOOLEAN /\ resident' \in BOOLEAN /\ wakes' \in Nat
    <3>1. crashes \in 0..MaxCrashes /\ crashes < MaxCrashes /\ crashes' = crashes + 1
        BY <1>32 DEF TypeOK, Crash
    <3>2. crashes' \in 0..MaxCrashes
        BY <3>1
    <3>3. slots' = 0 /\ wakes' = 0 /\ up' = FALSE /\ parentBusy' = FALSE /\ resident' = FALSE
        BY <1>32 DEF Crash
    <3> QED  BY <3>2, <3>3
  <2>11. UNCHANGED <<created, gone, log, opened>>
    BY <1>32 DEF Crash
  <2> QED
    BY <2>1, <2>2, <2>3, <2>4, <2>5, <2>6, <2>7, <2>8, <2>9, <2>10, <2>11 DEF TypeOK
<1>33. ASSUME Restart PROVE TypeOK'
  <2>1. replaying' \in SUBSET (Children \X Nat)
    BY <1>33, UnreportedType DEF TypeOK, Restart
  <2> QED
    BY <1>33, <2>1 DEF TypeOK, Restart, sessions, parent, loops, service, threads
<1>34. ASSUME UNCHANGED vars PROVE TypeOK'
    BY <1>34 DEF TypeOK, vars, daemon, sessions, parent, loops, service, threads
<1>35. ASSUME NEW s \in settlers, AppendFails(s) PROVE TypeOK'
  <2>1. settlers' \subseteq Settler
    BY <1>35 DEF TypeOK, AppendFails
  <2>2. lost' \subseteq Children \X Numbers
    <3>1. s.child \in Children /\ s.epoch \in Numbers
        BY DEF TypeOK, Settler
    <3> QED  BY <1>35, <3>1 DEF TypeOK, AppendFails
  <2> QED
    BY <1>35, <2>1, <2>2 DEF TypeOK, AppendFails, daemon, sessions, parent, loops, service
<1> QED
    BY <1>1, <1>2, <1>3, <1>4, <1>5, <1>6, <1>7, <1>8, <1>9, <1>10, <1>11, <1>12, <1>13,
       <1>14, <1>15, <1>16, <1>17, <1>18, <1>19, <1>20, <1>21, <1>22, <1>23, <1>24, <1>25,
       <1>26, <1>27, <1>28, <1>29, <1>30, <1>31, <1>32, <1>33, <1>34, <1>35
    DEF Next, Child, SendMessage, Settlement

LEMMA WithoutKeeps ==
    ASSUME NEW c, NEW S \in SUBSET Settler, NEW u \in SettlersWithout(c, S)
    PROVE  \E s \in S : /\ u = IF s.child = c THEN [s EXCEPT !.live = FALSE] ELSE s
                        /\ u.child = s.child /\ u.by = s.by /\ u.epoch = s.epoch
                        /\ u.stage = s.stage /\ u.job = s.job
<1>1. PICK s \in S : u = IF s.child = c THEN [s EXCEPT !.live = FALSE] ELSE s
    BY DEF SettlersWithout
<1>2. s \in Settler
    OBVIOUS
<1> QED  BY <1>1, <1>2 DEF Settler

LEMMA SendersTargeted ==
    ASSUME TypeOK, Targets, Next
    PROVE  \A t \in Senders :
             sender'[t].at \notin {"new", "done"} => sender'[t].child \in Children
<1>0. sender \in [Senders -> Sending]
    BY DEF TypeOK
<1>1. CASE \E t \in Senders, a \in {"reading", "sending", "opening", "watching"} :
             sender[t].at \notin {"new", "done"} /\ Go(t, a)
    BY <1>0, <1>1 DEF Go, Targets, Sending
<1>2. CASE \E t \in Senders : Finish(t)
    BY <1>0, <1>2 DEF Finish, Finished, Targets
<1>3. CASE \E t \in Senders, c \in Children : Send(t, c)
    BY <1>0, <1>3 DEF Send, Targets
<1>4. ASSUME NEW t \in Senders, LookUp(t)
      PROVE  Finish(t) \/ /\ sender[t].at = "looking"
                          /\ sender' = [sender EXCEPT ![t].at = "reading", ![t].holds = TRUE]
    BY <1>4 DEF LookUp
<1>5. CASE \E t \in Senders :
             /\ sender[t].at = "looking"
             /\ sender' = [sender EXCEPT ![t].at = "reading", ![t].holds = TRUE]
    BY <1>0, <1>5 DEF Targets, Sending
<1>6. CASE \E c \in Children : sender' = SendersWithout(c)
    BY <1>0, <1>6 DEF SendersWithout, Targets, Sending
<1>7. CASE Crash
    BY <1>0, <1>7 DEF Crash, Finished
<1>8. CASE UNCHANGED sender
    BY <1>8 DEF Targets
<1>9. ASSUME NEW t \in Senders, SendMessage(t) PROVE
        \/ \E a \in {"reading", "sending", "opening", "watching"} :
             sender[t].at \notin {"new", "done"} /\ Go(t, a)
        \/ Finish(t) \/ LookUp(t)
    BY <1>9 DEF SendMessage, ReadEpoch, Open, Watch, Deliver
<1>10. ASSUME NEW z \in settlers, Settlement(z)
       PROVE  UNCHANGED sender \/ \E c \in Children : sender' = SendersWithout(c)
  <2>1. z.child \in Children
      BY DEF TypeOK, Settler
  <2> QED  BY <1>10, <2>1 DEF Settlement, Check, Claim, AppendFanIn, Report, Announce, Close,
                              DisposeAgent
<1>11. ASSUME NEW c \in Children,
              \/ \E k \in BOOLEAN : StartBackground(c, k) \/ StartForeground(c, k)
              \/ WorkerLooks(c) \/ WorkerSends(c) \/ Child(c)
              \/ Told(c) \/ TimesOut(c) \/ Interrupt(c)
       PROVE  UNCHANGED sender
    BY <1>11 DEF StartBackground, StartForeground, WorkerLooks, WorkerSends, Child, BeginTurn,
                 FoldSteer, EndTurn, Flush, Told, TimesOut, StopWaiting, Interrupt, threads
<1>12. ASSUME NEW c \in Children, Delete(c) PROVE sender' = SendersWithout(c)
    BY <1>12 DEF Delete, DisposeAgent
<1>13. ASSUME Prompt \/ Woken \/ FoldNotice \/ EndParentTurn \/ Resume \/ Replay \/ Restart
              \/ (\E e \in 1..MaxEpochs : Kill(e)) \/ (\E s \in settlers : AppendFails(s))
       PROVE  UNCHANGED sender
    BY <1>13 DEF Prompt, Woken, FoldNotice, TakeNotice, EndParentTurn, Resume, Replay,
                 Restart, Kill, AppendFails, threads
<1> QED
    BY <1>1, <1>2, <1>3, <1>4, <1>5, <1>6, <1>7, <1>8, <1>9, <1>10, <1>11, <1>12, <1>13
    DEF Next

LEMMA SettlersTargeted ==
    ASSUME TypeOK, Targets, Next
    PROVE  \A s \in settlers' : s.stage \in {"reporting", "injecting", "waking"} =>
             s.job \in 1..MaxEpochs
<1> DEFINE Waits(s) == s.stage \in {"reporting", "injecting", "waking"}
           Has(s)   == s.job \in 1..MaxEpochs
<1>0. settlers \subseteq Settler /\ \A s \in settlers : Waits(s) => Has(s)
    BY DEF TypeOK, Targets
<1>1. ASSUME NEW s \in settlers, NEW u, Move(s, u), Waits(u) => Has(u)
      PROVE  \A z \in settlers' : Waits(z) => Has(z)
    BY <1>0, <1>1 DEF Move
<1>2. ASSUME NEW c, NEW S \in SUBSET settlers, settlers' = SettlersWithout(c, S)
      PROVE  \A z \in settlers' : Waits(z) => Has(z)
  <2> TAKE z \in settlers'
  <2>1. PICK s \in S : z.stage = s.stage /\ z.job = s.job
      BY <1>0, <1>2, WithoutKeeps
  <2> QED  BY <1>0, <2>1
<1>3. ASSUME NEW s \in settlers, Settlement(s) PROVE \A z \in settlers' : Waits(z) => Has(z)
  <2>0. s \in Settler
      BY <1>0
  <2>1. CASE Check(s)
    <3>1. [s EXCEPT !.stage = "claiming", !.live = agent[s.child] = "live"].stage = "claiming"
        BY <2>0 DEF Settler
    <3>2. \/ settlers' \subseteq settlers
          \/ Move(s, [s EXCEPT !.stage = "claiming", !.live = agent[s.child] = "live"])
        BY <2>1 DEF Check
    <3> QED  BY <1>0, <1>1, <3>1, <3>2
  <2>2. CASE Claim(s)
    <3>1. \A e, j : /\ [s EXCEPT !.stage = "closing"].stage = "closing"
                    /\ [s EXCEPT !.stage = "appending", !.epoch = e, !.job = j].stage = "appending"
        BY <2>0 DEF Settler
    <3>2. \/ Move(s, [s EXCEPT !.stage = "closing"])
          \/ \E e, j : Move(s, [s EXCEPT !.stage = "appending", !.epoch = e, !.job = j])
        BY <2>2 DEF Claim
    <3> QED  BY <1>1, <3>1, <3>2
  <2>3. CASE AppendFanIn(s)
    <3> DEFINE u == [s EXCEPT !.stage = IF s.job = 0 THEN "closing" ELSE "reporting"]
    <3>1. u.job = s.job /\ s.job \in Numbers
          /\ u.stage = (IF s.job = 0 THEN "closing" ELSE "reporting")
        BY <2>0 DEF Settler
    <3>2. Waits(u) => Has(u)
        BY <3>1 DEF Numbers
    <3>3. Move(s, u)
        BY <2>3 DEF AppendFanIn
    <3> HIDE DEF u
    <3> QED  BY <1>1, <3>2, <3>3
  <2>4. CASE Report(s)
    <3>1. \A g, n : [s EXCEPT !.stage = g, !.seen = n].job = s.job
        BY <2>0 DEF Settler
    <3>2. Has(s)
        BY <1>0, <2>4 DEF Report
    <3>3. \E g, n : Move(s, [s EXCEPT !.stage = g, !.seen = n])
        BY <2>4 DEF Report
    <3> QED  BY <1>1, <3>1, <3>2, <3>3
  <2>5. CASE Announce(s)
    <3>1. [s EXCEPT !.stage = "closing"].stage = "closing"
        BY <2>0 DEF Settler
    <3> QED  BY <1>1, <2>5, <3>1 DEF Announce
  <2>6. CASE Close(s)
    <3>1. settlers' = settlers \ {s} \/ settlers' = SettlersWithout(s.child, settlers \ {s})
        BY <2>6 DEF Close
    <3>2. settlers \ {s} \in SUBSET settlers
        OBVIOUS
    <3> QED  BY <1>0, <1>2, <3>1, <3>2
  <2> QED  BY <1>3, <2>1, <2>2, <2>3, <2>4, <2>5, <2>6 DEF Settlement
<1>4. ASSUME NEW c \in Children, WorkerLooks(c) \/ Flush(c) \/ Told(c) \/ TimesOut(c)
      PROVE  \A z \in settlers' : Waits(z) => Has(z)
  <2>1. \A z \in settlers' : z \in settlers \/ z.stage \in {"checking", "claiming"}
      BY <1>4 DEF WorkerLooks, Flush, Told, TimesOut, StopWaiting
  <2> QED  BY <1>0, <2>1
<1>5. ASSUME NEW c \in Children, Delete(c) PROVE \A z \in settlers' : Waits(z) => Has(z)
    BY <1>2, <1>5 DEF Delete
<1>6. ASSUME Crash PROVE \A z \in settlers' : Waits(z) => Has(z)
    BY <1>6 DEF Crash
<1>7. ASSUME NEW c \in Children,
             \/ \E k \in BOOLEAN : StartBackground(c, k) \/ StartForeground(c, k)
             \/ WorkerSends(c) \/ BeginTurn(c) \/ FoldSteer(c) \/ EndTurn(c) \/ Interrupt(c)
             \/ \E t \in Senders : Send(t, c)
      PROVE  UNCHANGED settlers
    BY <1>7 DEF StartBackground, StartForeground, WorkerSends, BeginTurn, FoldSteer, EndTurn,
                Interrupt, Send, threads
<1>8. ASSUME NEW t \in Senders, SendMessage(t) PROVE UNCHANGED settlers
    BY <1>8 DEF SendMessage, LookUp, ReadEpoch, Open, Watch, Deliver
<1>9. ASSUME Prompt \/ Woken \/ FoldNotice \/ EndParentTurn \/ Resume \/ Replay \/ Restart
             \/ \E e \in 1..MaxEpochs : Kill(e)
      PROVE  UNCHANGED settlers
    BY <1>9 DEF Prompt, Woken, FoldNotice, TakeNotice, EndParentTurn, Resume, Replay,
                Restart, Kill, threads
<1>10. ASSUME NEW s \in settlers, AppendFails(s) PROVE settlers' \subseteq settlers
    BY <1>10 DEF AppendFails
<1> HIDE DEF Waits, Has
<1>11. \A z \in settlers' : Waits(z) => Has(z)
    BY <1>0, <1>3, <1>4, <1>5, <1>6, <1>7, <1>8, <1>9, <1>10 DEF Next, Child
<1> QED  BY <1>11 DEF Waits, Has

LEMMA TypesHold == Spec => [](TypeOK /\ Targets)
<1>1. ASSUME Init PROVE TypeOK /\ Targets
  <2>1. NoEpoch \in Epoch /\ NoJob \in Job /\ NoWaiter \in Waiter
        /\ [at |-> "new", child |-> None, holds |-> FALSE] \in Sending
      BY DEF NoEpoch, NoJob, NoWaiter, Epoch, Job, Waiter, Sending, Numbers
  <2>2. /\ epochs \in [Children -> Epoch] /\ jobs \in [1..MaxEpochs -> Job]
        /\ waiter \in [Children -> Waiter] /\ sender \in [Senders -> Sending]
      BY <1>1, <2>1 DEF Init
  <2>3. /\ log \in Seq(Record) /\ parentInbox \in Seq(Item) /\ settlers \in SUBSET Settler
        /\ replaying \in SUBSET (Children \X Nat)
      BY <1>1 DEF Init
  <2>4. /\ crashes \in 0..MaxCrashes /\ slots \in Nat /\ wakes \in Nat /\ opened \in Numbers
        /\ inbox \in [Children -> Nat]
      BY <1>1 DEF Init, Numbers
  <2>5. /\ watchers \in [Children -> SUBSET Watcher]
        /\ worker \in [Children -> {"none", "starting", "found", "stale"}]
        /\ agent \in [Children -> {"none", "live"}]
      BY <1>1 DEF Init
  <2>6. /\ up \in BOOLEAN /\ parentBusy \in BOOLEAN /\ resident \in BOOLEAN
        /\ created \in SUBSET Children /\ gone \in SUBSET Children
      BY <1>1 DEF Init
  <2>7. /\ busy \in [Children -> BOOLEAN] /\ interrupted \in [Children -> BOOLEAN]
        /\ lost \in SUBSET (Children \X Numbers)
      BY <1>1 DEF Init
  <2>8. TypeOK
      BY <2>2, <2>3, <2>4, <2>5, <2>6, <2>7 DEF TypeOK
  <2> QED  BY <1>1, <2>8 DEF Init, Targets
<1>2. TypeOK /\ Targets /\ [Next]_vars => (TypeOK /\ Targets)'
  <2> SUFFICES ASSUME TypeOK, Targets, [Next]_vars PROVE (TypeOK /\ Targets)'
      OBVIOUS
  <2>1. TypeOK'
      BY Typing
  <2>2. CASE Next
      BY <2>1, <2>2, SendersTargeted, SettlersTargeted DEF Targets
  <2>3. CASE UNCHANGED vars
      BY <2>1, <2>3 DEF Targets, vars, threads
  <2> QED  BY <2>2, <2>3
<1> QED  BY <1>1, <1>2, PTL DEF Spec

(***************************************************************************)
(* The model stays within its types; in particular who is on the way to a  *)
(* child (send_message, subagent_service.cpp:802) has one.                 *)
(***************************************************************************)
THEOREM TypeCorrect == Spec => []TypeOK
    BY TypesHold, PTL

-----------------------------------------------------------------------------
(* One fan-in per epoch *)

\* A record that is no fan-in disturbs nothing.
LogCalm == log' = log \/ \E r \in Record : r.kind = "notice" /\ log' = Append(log, r)

LEMMA Appended ==
    ASSUME log \in Seq(Record), NEW r \in Record, log' = Append(log, r)
    PROVE  /\ \A c, e : FannedIn(log', c, e) <=>
                          \/ FannedIn(log, c, e)
                          \/ r.kind = "fanin" /\ r.child = c /\ r.number = e
           /\ DOMAIN log' = 1..(Len(log) + 1) /\ DOMAIN log = 1..Len(log) /\ Len(log) \in Nat
           /\ log'[Len(log) + 1] = r /\ \A i \in 1..Len(log) : log'[i] = log[i]
<1>1. /\ DOMAIN log' = 1..(Len(log) + 1) /\ DOMAIN log = 1..Len(log) /\ Len(log) \in Nat
      /\ log'[Len(log) + 1] = r /\ \A i \in 1..Len(log) : log'[i] = log[i]
    OBVIOUS
<1>2. \A i : i \in DOMAIN log' <=> i \in DOMAIN log \/ i = Len(log) + 1
    BY <1>1
<1>3. \A i \in DOMAIN log : log'[i] = log[i]
    BY <1>1
<1> QED  BY <1>1, <1>2, <1>3 DEF FannedIn

LEMMA Calm ==
    ASSUME TypeOK, LogInv, LogCalm, UNCHANGED opened
    PROVE  LogInv' /\ \A c, e : FannedIn(log', c, e) <=> FannedIn(log, c, e)
<1>1. CASE log' = log
    BY <1>1 DEF LogInv, OneFanInPerEpoch
<1>2. ASSUME NEW r \in Record, r.kind = "notice", log' = Append(log, r)
      PROVE  LogInv' /\ \A c, e : FannedIn(log', c, e) <=> FannedIn(log, c, e)
  <2>1. log \in Seq(Record)
      BY DEF TypeOK
  <2>2. /\ \A c, e : FannedIn(log', c, e) <=> FannedIn(log, c, e)
        /\ DOMAIN log' = 1..(Len(log) + 1) /\ DOMAIN log = 1..Len(log) /\ Len(log) \in Nat
        /\ log'[Len(log) + 1] = r /\ \A i \in 1..Len(log) : log'[i] = log[i]
      BY <1>2, <2>1, Appended
  <2>3. \A i \in DOMAIN log' : log'[i].kind = "fanin" => i \in DOMAIN log /\ log'[i] = log[i]
      BY <1>2, <2>2
  <2> QED  BY <1>2, <2>2, <2>3 DEF LogInv, OneFanInPerEpoch
<1> QED  BY <1>1, <1>2 DEF LogCalm

\* Steps in which settlements only go on or go away: each that is left comes from
\* one that was there, and none of them makes a claim.
Follows(u, s) ==
    /\ u.child = s.child /\ u.by = s.by /\ u.epoch = s.epoch
    /\ u.stage = s.stage \/ u.stage # "appending"
    /\ u.stage = "checking" => s.stage = "checking"
    /\ u.stage = "claiming" => s.stage \in {"checking", "claiming"}

LEMMA Carried ==
    ASSUME TypeOK, TypeOK', SettledInv, LogCalm, UNCHANGED <<epochs, opened, created>>,
           NEW S \in SUBSET settlers, NEW f, settlers' = {f[s] : s \in S},
           \A s \in S : Follows(f[s], s),
           \A c \in Children : waiter'[c].at # "none" => waiter[c].at # "none",
           \A c \in Children : \A w \in watchers'[c] : ~w.waits => epochs[c].number # 0,
           \A t \in Senders : sender'[t].at = "watching" =>
             epochs[sender'[t].child].number # 0
    PROVE  SettledInv'
<1>1. LogInv' /\ \A c, e : FannedIn(log', c, e) <=> FannedIn(log, c, e)
    BY Calm DEF SettledInv
<1>2. \A u \in settlers' : \E s \in S : u = f[s] /\ Follows(u, s) /\ s \in settlers
    OBVIOUS
<1>3. ClaimInv'
  <2>1. \A u \in settlers' : u.stage = "appending" =>
          /\ u.epoch <= opened /\ ~FannedIn(log, u.child, u.epoch)
          /\ u.epoch = 0 => u.by = "waiter"
      BY <1>2 DEF SettledInv, ClaimInv, Follows
  <2>2. ASSUME NEW u \in settlers', NEW v \in settlers', NEW c \in Children, NEW e \in Numbers,
               Claims(u, c, e), Claims(v, c, e)
        PROVE  u = v
    <3>1. PICK s \in S : u = f[s] /\ Follows(u, s) /\ s \in settlers
        BY <1>2
    <3>2. PICK t \in S : v = f[t] /\ Follows(v, t) /\ t \in settlers
        BY <1>2
    <3>3. Claims(s, c, e) /\ Claims(t, c, e)
        BY <2>2, <3>1, <3>2 DEF Claims, Follows
    <3>4. s = t
        BY <3>1, <3>2, <3>3 DEF SettledInv, ClaimInv
    <3> QED  BY <3>1, <3>2, <3>4
  <2> QED  BY <1>1, <2>1, <2>2 DEF ClaimInv
<1>4. EntryInv'
  <2>1. \A u \in settlers', c \in Children, e \in Numbers :
          Claims(u, c, e) => \E s \in settlers : Claims(s, c, e)
      BY <1>2 DEF Claims, Follows
  <2>2. \A c \in Children : epochs[c].number \in Numbers
      BY DEF TypeOK, Epoch
  <2> QED  BY <1>1, <2>1, <2>2 DEF SettledInv, EntryInv
<1>5. RegisteredInv'
    BY <1>2 DEF SettledInv, RegisteredInv, Follows
<1>6. WaiterInv'
  <2>1. \A u \in settlers', c \in Children : WaitsFor(u, c) => \E s \in settlers : WaitsFor(s, c)
      BY <1>2 DEF WaitsFor, Follows
  <2>2. \A c \in Children : waiter'[c].at # "none" =>
          (\A u \in settlers' : ~WaitsFor(u, c)) /\ ~FannedIn(log', c, 0)
      BY <1>1, <2>1 DEF SettledInv, WaiterInv
  <2>3. ASSUME NEW u \in settlers', NEW v \in settlers', NEW c \in Children,
               WaitsFor(u, c), WaitsFor(v, c)
        PROVE  u = v
    <3>1. PICK s \in S : u = f[s] /\ Follows(u, s) /\ s \in settlers
        BY <1>2
    <3>2. PICK t \in S : v = f[t] /\ Follows(v, t) /\ t \in settlers
        BY <1>2
    <3>3. WaitsFor(s, c) /\ WaitsFor(t, c)
        BY <2>3, <3>1, <3>2 DEF WaitsFor, Follows
    <3>4. s = t
        BY <3>1, <3>2, <3>3 DEF SettledInv, WaiterInv
    <3> QED  BY <3>1, <3>2, <3>4
  <2>4. \A u \in settlers' : u.by = "waiter" /\ u.stage = "claiming" =>
          ~FannedIn(log', u.child, 0)
      BY <1>1, <1>2 DEF SettledInv, WaiterInv, RegisteredInv, Follows
  <2> QED  BY <2>2, <2>3, <2>4 DEF WaiterInv
<1>7. CreatedInv'
  <2>1. \A u \in settlers', c \in Children : WaitsFor(u, c) => \E s \in settlers : WaitsFor(s, c)
      BY <1>2 DEF WaitsFor, Follows
  <2> QED  BY <1>1, <2>1 DEF SettledInv, CreatedInv
<1> QED  BY <1>1, <1>3, <1>4, <1>5, <1>6, <1>7 DEF SettledInv

\* New settlements of callbacks and workers, none of them a claim.
LEMMA Joined ==
    ASSUME TypeOK, TypeOK', SettledInv, UNCHANGED <<log, epochs, opened, created, sender>>,
           NEW N, settlers' = settlers \cup N,
           \A n \in N : /\ n.by # "waiter" /\ n.stage # "appending"
                        /\ epochs[n.child].number # 0,
           \A c \in Children : waiter'[c].at # "none" => waiter[c].at # "none",
           \A c \in Children : watchers'[c] \subseteq watchers[c]
    PROVE  SettledInv'
<1>1. LogInv' /\ ClaimInv'
    BY DEF SettledInv, LogInv, OneFanInPerEpoch, ClaimInv, Claims
<1>2. EntryInv' /\ RegisteredInv'
    BY DEF SettledInv, EntryInv, RegisteredInv, Claims
<1>3. WaiterInv' /\ CreatedInv'
    BY DEF SettledInv, WaiterInv, CreatedInv, WaitsFor
<1> QED  BY <1>1, <1>2, <1>3 DEF SettledInv

\* The settlement of a foreground start that stops waiting.
LEMMA Stopped ==
    ASSUME TypeOK, SettledInv, NEW c \in Children, NEW k,
           waiter[c].at # "none", StopWaiting(c, k)
    PROVE  SettledInv'
<1> DEFINE n == [child |-> c, by |-> "waiter", epoch |-> 0, expected |-> FALSE,
                 continuable |-> k, live |-> agent[c] = "live", stage |-> "claiming",
                 job |-> 0, seen |-> 0]
<1>1. /\ settlers' = settlers \cup {n} /\ waiter' = [waiter EXCEPT ![c] = NoWaiter]
      /\ UNCHANGED <<log, epochs, opened, created, watchers, sender>>
    BY DEF StopWaiting, sessions, loops, service
<1>2. n.by = "waiter" /\ n.child = c /\ n.stage = "claiming"
    OBVIOUS
<1>3. \A d \in Children : waiter'[d].at # "none" => d # c /\ waiter'[d] = waiter[d]
    BY <1>1 DEF TypeOK, NoWaiter
<1>4. waiter'[c].at = "none" /\ \A d \in Children \ {c} : waiter'[d] = waiter[d]
    BY <1>1 DEF TypeOK, NoWaiter
<1> HIDE DEF n
<1>5. LogInv' /\ ClaimInv'
    BY <1>1, <1>2 DEF SettledInv, LogInv, OneFanInPerEpoch, ClaimInv, Claims
<1>6. EntryInv' /\ RegisteredInv'
    BY <1>1, <1>2 DEF SettledInv, EntryInv, RegisteredInv, Claims
<1>7. WaiterInv'
    BY <1>1, <1>2, <1>3 DEF SettledInv, WaiterInv, WaitsFor
<1>8. CreatedInv'
    BY <1>1, <1>2, <1>4 DEF SettledInv, CreatedInv, WaitsFor
<1> QED  BY <1>5, <1>6, <1>7, <1>8 DEF SettledInv

\* A new epoch's number is in no entry, no claim and no fan-in.
LEMMA Opened ==
    ASSUME TypeOK, TypeOK', SettledInv, UNCHANGED <<log, settlers>>, NEW c \in Children, NEW x,
           OpenEpoch(c, x), created \subseteq created',
           \A d \in Children : waiter'[d].at # "none" =>
             waiter[d].at # "none" \/ d \in created' \ created,
           \A d \in Children : \A w \in watchers'[d] : w \in watchers[d] \/ d = c,
           \A t \in Senders : sender'[t].at = "watching" =>
             \/ sender'[t].child = c
             \/ sender'[t].child \in Children /\ epochs[sender'[t].child].number # 0
    PROVE  SettledInv'
<1>1. /\ opened \in Nat /\ opened' = opened + 1
      /\ epochs'[c].number = opened + 1
      /\ \A d \in Children \ {c} : epochs'[d] = epochs[d]
      /\ \A d \in Children : epochs[d].number \in Nat
    BY DEF OpenEpoch, TypeOK, Numbers, Epoch
<1>2. /\ \A i \in DOMAIN log : log[i].number \in Nat
      /\ \A s \in settlers : s.epoch \in Nat
  <2>1. \A i \in DOMAIN log : log[i] \in Record
      BY DEF TypeOK
  <2> QED  BY <2>1 DEF TypeOK, Record, Settler, Numbers
<1>3. LogInv'
    BY <1>1, <1>2 DEF SettledInv, LogInv, OneFanInPerEpoch
<1>4. ClaimInv'
    BY <1>1, <1>2 DEF SettledInv, ClaimInv
<1>5. EntryInv'
  <2>1. ~FannedIn(log, c, opened + 1)
      BY <1>1, <1>2 DEF SettledInv, LogInv, FannedIn
  <2>2. \A s \in settlers : ~Claims(s, c, opened + 1)
      BY <1>1, <1>2 DEF SettledInv, ClaimInv, Claims
  <2>3. /\ epochs'[c].number <= opened' /\ epochs'[c].number # 0
        /\ ~FannedIn(log', c, epochs'[c].number)
        /\ \A s \in settlers' : ~Claims(s, c, epochs'[c].number)
      BY <1>1, <2>1, <2>2
  <2>4. \A d \in Children \ {c} : epochs'[d].number <= opened'
      BY <1>1 DEF SettledInv, EntryInv
  <2> QED  BY <1>1, <2>3, <2>4 DEF SettledInv, EntryInv
<1>6. RegisteredInv'
  <2>1. epochs'[c].number # 0
      BY <1>1
  <2>2. \A d \in Children : epochs[d].number # 0 => epochs'[d].number # 0
      BY <1>1, <2>1
  <2>3. \A s \in settlers : s.child \in Children
      BY DEF TypeOK, Settler
  <2> QED  BY <2>1, <2>2, <2>3 DEF SettledInv, RegisteredInv
<1>7. WaiterInv' /\ CreatedInv'
    BY DEF SettledInv, WaiterInv, CreatedInv
<1> QED  BY <1>3, <1>4, <1>5, <1>6, <1>7 DEF SettledInv

LEMMA Claimed ==
    ASSUME TypeOK, TypeOK', Targets, SettledInv, NEW s \in settlers, Claim(s)
    PROVE  SettledInv'
<1> DEFINE e == epochs[s.child]
           u == [s EXCEPT !.stage = "appending", !.epoch = e.number,
                          !.job = IF e.expected THEN e.number ELSE 0]
<1>0. s \in Settler /\ s.child \in Children /\ e \in Epoch /\ e.number \in Numbers
    BY DEF TypeOK, Settler, Epoch
<1>1. UNCHANGED <<log, opened, created, watchers, waiter, sender>>
    BY DEF Claim, sessions, loops
<1>2. s.stage = "claiming"
    BY DEF Claim
<1>3. CASE Move(s, [s EXCEPT !.stage = "closing"]) /\ UNCHANGED epochs
  <2> DEFINE f == [z \in settlers |-> IF z = s THEN [s EXCEPT !.stage = "closing"] ELSE z]
  <2>1. settlers' = {f[z] : z \in settlers}
      BY <1>3 DEF Move
  <2>2. \A z \in settlers : Follows(f[z], z)
      BY <1>0, <1>2 DEF Follows, Settler
  <2> HIDE DEF f
  <2>3. LogCalm
      BY <1>1 DEF LogCalm
  <2> QED  BY <1>1, <1>3, <2>1, <2>2, <2>3, Carried DEF SettledInv, RegisteredInv
<1>4. CASE /\ e.number # 0 => e.open
           /\ epochs' = [epochs EXCEPT ![s.child].open = FALSE]
           /\ Move(s, u)
  <2>1. /\ u.stage = "appending" /\ u.epoch = e.number /\ u.child = s.child /\ u.by = s.by
        /\ settlers' = (settlers \ {s}) \cup {u}
      BY <1>0, <1>4 DEF Settler, Move
  <2>2. /\ \A c \in Children : epochs'[c].number = epochs[c].number
        /\ epochs'[s.child].open = FALSE
        /\ \A c \in Children \ {s.child} : epochs'[c] = epochs[c]
      BY <1>0, <1>4 DEF TypeOK, Epoch
  <2>3. e.number = 0 => s.by = "waiter" /\ ~FannedIn(log, s.child, 0)
      BY <1>0, <1>2 DEF SettledInv, RegisteredInv, WaiterInv
  <2>4. ~FannedIn(log, s.child, e.number) /\ e.number <= opened
      BY <1>0, <1>4, <2>3 DEF SettledInv, EntryInv
  <2>5. \A t \in settlers \ {s} : ~Claims(t, s.child, e.number)
    <3>1. CASE e.number # 0
        BY <1>0, <1>4, <3>1 DEF SettledInv, EntryInv
    <3>2. CASE e.number = 0
      <4> SUFFICES ASSUME NEW t \in settlers \ {s}, Claims(t, s.child, 0) PROVE FALSE
          BY <3>2
      <4>1. WaitsFor(t, s.child) /\ WaitsFor(s, s.child)
          BY <2>3, <3>2 DEF SettledInv, ClaimInv, Claims, WaitsFor
      <4> QED  BY <1>0, <4>1 DEF SettledInv, WaiterInv
    <3> QED  BY <3>1, <3>2
  <2> HIDE DEF u, e
  <2>6. LogInv'
      BY <1>1 DEF SettledInv, LogInv, OneFanInPerEpoch
  <2>7. ClaimInv'
    <3>1. \A t \in settlers' : t.stage = "appending" =>
            /\ t.epoch <= opened /\ ~FannedIn(log, t.child, t.epoch)
            /\ t.epoch = 0 => t.by = "waiter"
        BY <2>1, <2>3, <2>4 DEF SettledInv, ClaimInv
    <3>2. \A t \in settlers \ {s} : \A c \in Children, n \in Numbers :
            ~(Claims(t, c, n) /\ Claims(u, c, n))
        BY <2>1, <2>5 DEF Claims
    <3>3. \A t, v \in settlers' : \A c \in Children, n \in Numbers :
            Claims(t, c, n) /\ Claims(v, c, n) => t = v
        BY <2>1, <3>2 DEF SettledInv, ClaimInv
    <3> QED  BY <1>1, <3>1, <3>3 DEF ClaimInv
  <2>8. EntryInv'
    <3>1. \A c \in Children \ {s.child} : \A n : ~Claims(u, c, n)
        BY <2>1 DEF Claims
    <3> QED  BY <1>0, <1>1, <2>1, <2>2, <3>1 DEF SettledInv, EntryInv
  <2>9. RegisteredInv'
    <3>1. \A t \in settlers : t.child \in Children
        BY DEF TypeOK, Settler
    <3>2. \A t \in settlers' : t.by # "waiter" => epochs'[t.child].number # 0
        BY <1>0, <2>1, <2>2, <3>1 DEF SettledInv, RegisteredInv
    <3>3. \A c \in Children : \A w \in watchers'[c] : ~w.waits => epochs'[c].number # 0
        BY <1>1, <2>2 DEF SettledInv, RegisteredInv
    <3>4. \A t \in Senders : sender'[t].at = "watching" => epochs'[sender'[t].child].number # 0
      <4>1. \A t \in Senders : sender[t].at = "watching" =>
              sender[t].child \in Children /\ epochs[sender[t].child].number # 0
          BY DEF SettledInv, RegisteredInv, Targets
      <4> QED  BY <1>1, <2>2, <4>1
    <3>5. \A t \in settlers' : t.stage = "checking" => t.by # "waiter"
        BY <2>1 DEF SettledInv, RegisteredInv
    <3> QED  BY <3>2, <3>3, <3>4, <3>5 DEF RegisteredInv
  <2>10. \A c \in Children : WaitsFor(u, c) <=> WaitsFor(s, c)
      BY <2>1 DEF WaitsFor
  <2>11. WaiterInv'
    <3>1. \A c \in Children : waiter[c].at # "none" =>
            (\A t \in settlers' : ~WaitsFor(t, c)) /\ ~FannedIn(log, c, 0)
        BY <2>1, <2>10 DEF SettledInv, WaiterInv
    <3>2. \A t, v \in settlers' : \A c \in Children : WaitsFor(t, c) /\ WaitsFor(v, c) => t = v
        BY <2>1, <2>10 DEF SettledInv, WaiterInv
    <3>3. \A t \in settlers' : t.by = "waiter" /\ t.stage = "claiming" =>
            ~FannedIn(log, t.child, 0)
        BY <2>1 DEF SettledInv, WaiterInv
    <3> QED  BY <1>1, <3>1, <3>2, <3>3 DEF WaiterInv
  <2>12. CreatedInv'
      BY <1>1, <2>1, <2>10 DEF SettledInv, CreatedInv
  <2> QED  BY <2>6, <2>7, <2>8, <2>9, <2>11, <2>12 DEF SettledInv
<1> QED  BY <1>3, <1>4 DEF Claim

LEMMA FannedInOnce ==
    ASSUME TypeOK, TypeOK', SettledInv, NEW s \in settlers, AppendFanIn(s)
    PROVE  SettledInv'
<1> DEFINE u == [s EXCEPT !.stage = IF s.job = 0 THEN "closing" ELSE "reporting"]
           r == FanIn(s.child, s.epoch, s.expected)
<1>0. s \in Settler /\ s.child \in Children /\ s.epoch \in Numbers /\ log \in Seq(Record)
    BY DEF TypeOK, Settler
<1>1. /\ r \in Record /\ r.kind = "fanin" /\ r.child = s.child /\ r.number = s.epoch
    BY <1>0 DEF FanIn, Record, Settler, Numbers
<1>2. /\ log' = Append(log, r) /\ settlers' = (settlers \ {s}) \cup {u}
      /\ UNCHANGED <<epochs, opened, created, watchers, waiter, sender>>
      /\ s.stage = "appending"
    BY DEF AppendFanIn, Move, sessions, loops, service
<1>3. u.stage \in {"closing", "reporting"} /\ u.child = s.child /\ u.by = s.by
    BY <1>0 DEF Settler
<1> HIDE DEF u, r
<1>4. /\ \A c, e : FannedIn(log', c, e) <=>
                     FannedIn(log, c, e) \/ (c = s.child /\ e = s.epoch)
      /\ DOMAIN log' = 1..(Len(log) + 1) /\ DOMAIN log = 1..Len(log) /\ Len(log) \in Nat
      /\ log'[Len(log) + 1] = r /\ \A i \in 1..Len(log) : log'[i] = log[i]
    BY <1>0, <1>1, <1>2, Appended
<1>5. ~FannedIn(log, s.child, s.epoch) /\ s.epoch <= opened /\ (s.epoch = 0 => s.by = "waiter")
    BY <1>2 DEF SettledInv, ClaimInv
<1>6. \A t \in settlers' : (t \in settlers /\ t # s) \/ t = u
    BY <1>2
<1>7. \A t \in settlers' : t.stage = "appending" =>
        t \in settlers /\ ~(t.child = s.child /\ t.epoch = s.epoch)
    BY <1>0, <1>2, <1>3, <1>6 DEF SettledInv, ClaimInv, Claims
<1>8. LogInv'
  <2>1. \A i \in DOMAIN log' :
          \/ i \in DOMAIN log /\ log'[i] = log[i]
          \/ i = Len(log) + 1 /\ log'[i] = r
      BY <1>4
  <2>2. \A i \in DOMAIN log : log[i].kind = "fanin" =>
          ~(log[i].child = s.child /\ log[i].number = s.epoch)
      BY <1>5 DEF FannedIn
  <2>3. OneFanInPerEpoch'
      BY <1>1, <2>1, <2>2 DEF SettledInv, LogInv, OneFanInPerEpoch
  <2>4. \A i \in DOMAIN log' : log'[i].kind = "fanin" => log'[i].number <= opened
      BY <1>1, <1>5, <2>1 DEF SettledInv, LogInv
  <2> QED  BY <1>2, <2>3, <2>4 DEF LogInv
<1>9. ClaimInv'
  <2>1. \A t \in settlers' : t.stage = "appending" =>
          /\ t.epoch <= opened' /\ ~FannedIn(log', t.child, t.epoch)
          /\ t.epoch = 0 => t.by = "waiter"
      BY <1>2, <1>4, <1>7 DEF SettledInv, ClaimInv
  <2>2. \A t, v \in settlers' : \A c \in Children, e \in Numbers :
          Claims(t, c, e) /\ Claims(v, c, e) => t = v
      BY <1>7 DEF SettledInv, ClaimInv, Claims
  <2> QED  BY <2>1, <2>2 DEF ClaimInv
<1>10. EntryInv'
  <2>1. \A c \in Children : epochs[c].open => ~(c = s.child /\ epochs[c].number = s.epoch)
      BY <1>2 DEF SettledInv, EntryInv, Claims
  <2>2. \A t \in settlers', c \in Children : \A e : Claims(t, c, e) => t \in settlers
      BY <1>7 DEF Claims
  <2> QED  BY <1>2, <1>4, <2>1, <2>2 DEF SettledInv, EntryInv
<1>11. RegisteredInv'
    BY <1>2, <1>3, <1>6 DEF SettledInv, RegisteredInv
<1>12. \A c \in Children : WaitsFor(u, c) <=> WaitsFor(s, c)
    BY <1>3 DEF WaitsFor
<1>13. s.epoch = 0 => WaitsFor(s, s.child)
    BY <1>5 DEF WaitsFor
<1>14. WaiterInv'
  <2>1. \A c \in Children : waiter[c].at # "none" =>
          (\A t \in settlers' : ~WaitsFor(t, c)) /\ ~FannedIn(log', c, 0)
      BY <1>0, <1>4, <1>6, <1>12, <1>13 DEF SettledInv, WaiterInv
  <2>2. \A t, v \in settlers' : \A c \in Children : WaitsFor(t, c) /\ WaitsFor(v, c) => t = v
      BY <1>6, <1>12 DEF SettledInv, WaiterInv
  <2>3. ASSUME NEW t \in settlers', t.by = "waiter", t.stage = "claiming"
        PROVE  ~FannedIn(log', t.child, 0)
    <3>1. t \in settlers /\ t # s /\ t.child \in Children
        BY <1>3, <1>6, <2>3 DEF TypeOK, Settler
    <3>2. ~FannedIn(log, t.child, 0)
        BY <2>3, <3>1 DEF SettledInv, WaiterInv
    <3>3. ~(t.child = s.child /\ s.epoch = 0)
        BY <1>13, <2>3, <3>1 DEF SettledInv, WaiterInv, WaitsFor
    <3> QED  BY <1>4, <3>2, <3>3
  <2> QED  BY <1>2, <2>1, <2>2, <2>3 DEF WaiterInv
<1>15. CreatedInv'
    BY <1>0, <1>2, <1>4, <1>6, <1>12, <1>13 DEF SettledInv, CreatedInv
<1> QED  BY <1>8, <1>9, <1>10, <1>11, <1>14, <1>15 DEF SettledInv

\* What a settlement that only goes on leaves is made of what was there.
LEMMA MovedOn ==
    ASSUME TypeOK, TypeOK', SettledInv, NEW s \in settlers, NEW u, Move(s, u), Follows(u, s),
           UNCHANGED <<log, epochs, opened, created, waiter, sender>>,
           \A c \in Children : \A w \in watchers'[c] : ~w.waits => epochs[c].number # 0
    PROVE  SettledInv'
<1> DEFINE f == [z \in settlers |-> IF z = s THEN u ELSE z]
<1>1. settlers' = {f[z] : z \in settlers}
    BY DEF Move
<1>2. \A z \in settlers : Follows(f[z], z)
    BY DEF Follows
<1> HIDE DEF f
<1>3. \A t \in Senders : sender'[t].at = "watching" => epochs[sender'[t].child].number # 0
    BY DEF SettledInv, RegisteredInv
<1>4. LogCalm
    BY DEF LogCalm
<1> QED  BY <1>1, <1>2, <1>3, <1>4, Carried

LEMMA Disposed ==
    ASSUME TypeOK, TypeOK', SettledInv, NEW c \in Children, NEW S \in SUBSET settlers,
           DisposeAgent(c), settlers' = SettlersWithout(c, S),
           UNCHANGED <<log, epochs, opened, created, waiter>>
    PROVE  SettledInv'
<1> DEFINE f == [s \in S |-> IF s.child = c THEN [s EXCEPT !.live = FALSE] ELSE s]
<1>1. settlers' = {f[s] : s \in S}
    BY DEF SettlersWithout
<1>2. \A s \in S : s \in Settler
    BY DEF TypeOK
<1>3. \A s \in S : Follows(f[s], s)
    BY <1>2 DEF Follows, Settler
<1> HIDE DEF f
<1>4. \A d \in Children : watchers'[d] \subseteq watchers[d]
    BY DEF DisposeAgent, TypeOK
<1>5. \A t \in Senders : sender'[t].at = sender[t].at /\ sender'[t].child = sender[t].child
    BY DEF DisposeAgent, SendersWithout, TypeOK, Sending
<1>6. /\ \A d \in Children : \A w \in watchers'[d] : ~w.waits => epochs[d].number # 0
      /\ \A t \in Senders : sender'[t].at = "watching" => epochs[sender'[t].child].number # 0
    BY <1>4, <1>5 DEF SettledInv, RegisteredInv
<1>7. LogCalm
    BY DEF LogCalm
<1> QED  BY <1>1, <1>3, <1>6, <1>7, Carried

\* Steps that leave the settlements alone.
LEMMA Undisturbed ==
    ASSUME TypeOK, TypeOK', SettledInv, LogCalm,
           UNCHANGED <<settlers, epochs, opened, created>>,
           \A c \in Children : waiter'[c].at # "none" => waiter[c].at # "none",
           \A c \in Children : \A w \in watchers'[c] : ~w.waits => epochs[c].number # 0,
           \A t \in Senders : sender'[t].at = "watching" =>
             epochs[sender'[t].child].number # 0
    PROVE  SettledInv'
<1> DEFINE f == [s \in settlers |-> s]
<1>1. settlers' = {f[s] : s \in settlers}
    OBVIOUS
<1>2. \A s \in settlers : Follows(f[s], s)
    BY DEF Follows
<1> HIDE DEF f
<1> QED  BY <1>1, <1>2, Carried

Same == UNCHANGED <<settlers, epochs, opened, created, waiter, watchers, sender>>

LEMMA ParentSteps ==
    ASSUME TypeOK, TypeOK', SettledInv,
           \/ Prompt \/ Woken \/ FoldNotice \/ EndParentTurn \/ Resume \/ Replay \/ Restart
           \/ UNCHANGED vars
    PROVE  SettledInv'
<1>1. ASSUME Same, LogCalm PROVE SettledInv'
    BY <1>1, Undisturbed DEF Same, SettledInv, RegisteredInv
<1>2. CASE Prompt \/ EndParentTurn \/ Resume \/ Restart \/ UNCHANGED vars
    BY <1>1, <1>2 DEF Prompt, EndParentTurn, Resume, Restart, vars, Same, LogCalm, sessions,
                      loops, service, threads
<1>3. CASE Woken \/ FoldNotice
  <2>1. parentInbox # <<>> /\ TakeNotice
      BY <1>3, WokenHasNotice DEF Woken, FoldNotice
  <2>2. Notice(Head(parentInbox).child, Head(parentInbox).number) \in Record
        /\ Notice(Head(parentInbox).child, Head(parentInbox).number).kind = "notice"
      BY <2>1, TakenType
  <2> QED  BY <1>1, <2>1, <2>2 DEF TakeNotice, LogCalm, Same, sessions, loops, service, threads
<1>4. CASE Replay
  <2>1. PICK p \in replaying : log' = Append(log, Notice(p[1], p[2]))
      BY <1>4 DEF Replay
  <2>2. p \in Children \X Nat
      BY DEF TypeOK
  <2>3. Notice(p[1], p[2]) \in Record /\ Notice(p[1], p[2]).kind = "notice"
      BY <2>2 DEF Notice, Record
  <2> QED  BY <1>1, <1>4, <2>1, <2>3 DEF Replay, LogCalm, Same, sessions, loops, service, threads
<1> QED  BY <1>2, <1>3, <1>4

LEMMA ChildSteps ==
    ASSUME TypeOK, TypeOK', SettledInv, NEW c \in Children,
           \/ WorkerSends(c) \/ Child(c) \/ Interrupt(c)
    PROVE  SettledInv'
<1>1. CASE WorkerSends(c) \/ BeginTurn(c) \/ FoldSteer(c) \/ Interrupt(c)
  <2>1. Same /\ LogCalm
      BY <1>1 DEF WorkerSends, BeginTurn, FoldSteer, Interrupt, Same, LogCalm, sessions,
                  loops, service, threads
  <2> QED  BY <2>1, Undisturbed DEF Same, SettledInv, RegisteredInv
<1>2. CASE EndTurn(c)
  <2>1. UNCHANGED <<log, settlers, epochs, opened, created, waiter, sender>>
      BY <1>2 DEF EndTurn, sessions, service, threads
  <2>2. \/ watchers' = [watchers EXCEPT ![c] = {[w EXCEPT !.due = TRUE] : w \in watchers[c]}]
        \/ watchers' = watchers
      BY <1>2 DEF EndTurn
  <2>3. \A w \in watchers[c] : [w EXCEPT !.due = TRUE].waits = w.waits
      BY DEF TypeOK, Watcher
  <2>4. \A d \in Children : \A w \in watchers'[d] : ~w.waits => epochs[d].number # 0
    <3>1. \A d \in Children : \A w \in watchers[d] : ~w.waits => epochs[d].number # 0
        BY DEF SettledInv, RegisteredInv
    <3>2. watchers \in [Children -> SUBSET Watcher]
        BY DEF TypeOK
    <3>3. CASE watchers' = watchers
        BY <3>1, <3>3
    <3>4. CASE watchers' = [watchers EXCEPT ![c] = {[w EXCEPT !.due = TRUE] : w \in watchers[c]}]
      <4>1. \A d \in Children \ {c} : watchers'[d] = watchers[d]
          BY <3>2, <3>4
      <4>2. \A v \in watchers'[c] : \E w \in watchers[c] : v = [w EXCEPT !.due = TRUE]
          BY <3>2, <3>4
      <4>3. \A v \in watchers'[c] : \E w \in watchers[c] : v.waits = w.waits
          BY <2>3, <4>2
      <4> QED  BY <3>1, <4>1, <4>3
    <3> QED  BY <2>2, <3>3, <3>4
  <2>5. LogCalm
      BY <2>1 DEF LogCalm
  <2> QED  BY <2>1, <2>4, <2>5, Undisturbed DEF SettledInv, RegisteredInv
<1>3. CASE Flush(c)
  <2> DEFINE due == {w \in watchers[c] : w.due}
             N == {[child |-> c, by |-> "callback", epoch |-> w.epoch, expected |-> w.expected,
                    continuable |-> w.continuable, live |-> FALSE, stage |-> "checking",
                    job |-> 0, seen |-> 0] : w \in {v \in due : ~v.waits}}
  <2>1. settlers' = settlers \cup N /\ watchers' = [watchers EXCEPT ![c] = @ \ due]
        /\ UNCHANGED <<log, epochs, opened, created, sender>>
      BY <1>3 DEF Flush, sessions, service
  <2>2. \A n \in N : n.by = "callback" /\ n.stage = "checking" /\ n.child = c
                     /\ \E w \in watchers[c] : ~w.waits
      OBVIOUS
  <2>3. \A n \in N : n.by # "waiter" /\ n.stage # "appending" /\ epochs[n.child].number # 0
      BY <2>2 DEF SettledInv, RegisteredInv
  <2>4. \A d \in Children : watchers'[d] \subseteq watchers[d]
      BY <2>1 DEF TypeOK
  <2> HIDE DEF N
  <2>5. \A d \in Children : waiter'[d].at # "none" => waiter[d].at # "none"
    <3>1. waiter \in [Children -> Waiter]
        BY DEF TypeOK
    <3>2. \/ /\ waiter' = [waiter EXCEPT ![c] = [waiter[c] EXCEPT !.at = "told"]]
             /\ waiter[c].at = "waiting"
          \/ waiter' = [waiter EXCEPT ![c] = [waiter[c] EXCEPT !.at = waiter[c].at]]
        BY <1>3 DEF Flush
    <3> QED  BY <3>1, <3>2 DEF Waiter
  <2> QED  BY <2>1, <2>3, <2>4, <2>5, Joined
<1> QED  BY <1>1, <1>2, <1>3 DEF Child

LEMMA StartSteps ==
    ASSUME TypeOK, TypeOK', Targets, SettledInv, NEW c \in Children,
           \E k \in BOOLEAN : StartBackground(c, k) \/ StartForeground(c, k)
    PROVE  SettledInv'
<1>0. PICK k \in BOOLEAN : StartBackground(c, k) \/ StartForeground(c, k)
    OBVIOUS
<1>1. c \notin created /\ created' = created \cup {c}
    BY <1>0 DEF StartBackground, StartForeground, CreateChild
<1>2. UNCHANGED <<log, settlers, sender>>
    BY <1>0 DEF StartBackground, StartForeground
<1>3. /\ \A d \in Children \ {c} : watchers'[d] = watchers[d]
      /\ \A d \in Children \ {c} : waiter'[d] = waiter[d]
  <2>1. watchers \in [Children -> SUBSET Watcher] /\ waiter \in [Children -> Waiter]
      BY DEF TypeOK
  <2>2. \E w : watchers' = [watchers EXCEPT ![c] = watchers[c] \cup {w}]
      BY <1>0, <2>1 DEF StartBackground, StartForeground, Watched
  <2>3. waiter' = waiter \/ waiter' = [waiter EXCEPT ![c] = [at |-> "waiting", continuable |-> k]]
      BY <1>0 DEF StartBackground, StartForeground
  <2> QED  BY <2>1, <2>2, <2>3
<1>4. ASSUME NEW x, OpenEpoch(c, x) PROVE SettledInv'
  <2>1. \A t \in Senders : sender'[t].at = "watching" =>
          \/ sender'[t].child = c
          \/ sender'[t].child \in Children /\ epochs[sender'[t].child].number # 0
    <3>1. \A t \in Senders : sender[t].at = "watching" =>
            epochs[sender[t].child].number # 0
        BY DEF SettledInv, RegisteredInv
    <3> QED  BY <1>2, <3>1 DEF Targets
  <2>2. /\ created \subseteq created'
        /\ \A d \in Children : waiter'[d].at # "none" =>
             waiter[d].at # "none" \/ d \in created' \ created
        /\ \A d \in Children : \A w \in watchers'[d] : w \in watchers[d] \/ d = c
      BY <1>1, <1>3
  <2> QED  BY <1>2, <1>4, <2>1, <2>2, Opened
<1>5. ASSUME UNCHANGED <<epochs, opened>>, watchers' = Watched(c, WaitingWatcher(k))
      PROVE  SettledInv'
  <2>1. \A d \in Children : \A w \in watchers'[d] : w \in watchers[d] \/ w.waits
      BY <1>5 DEF TypeOK, Watched, WaitingWatcher
  <2>2. LogInv' /\ ClaimInv' /\ EntryInv'
      BY <1>2, <1>5 DEF SettledInv, LogInv, OneFanInPerEpoch, ClaimInv, EntryInv
  <2>3. RegisteredInv'
      BY <1>2, <1>5, <2>1 DEF SettledInv, RegisteredInv
  <2>4. WaiterInv'
    <3>1. \A s \in settlers : ~WaitsFor(s, c)
        BY <1>1 DEF SettledInv, CreatedInv
    <3>2. ~FannedIn(log, c, 0)
        BY <1>1 DEF SettledInv, CreatedInv
    <3> QED  BY <1>2, <1>3, <3>1, <3>2 DEF SettledInv, WaiterInv
  <2>5. CreatedInv'
      BY <1>1, <1>2, <1>3 DEF SettledInv, CreatedInv
  <2> QED  BY <2>2, <2>3, <2>4, <2>5 DEF SettledInv
<1>6. CASE StartBackground(c, k)
    BY <1>4, <1>6 DEF StartBackground
<1>7. CASE StartForeground(c, k)
    BY <1>4, <1>5, <1>7 DEF StartForeground, service
<1> QED  BY <1>0, <1>6, <1>7

LEMMA SendSteps ==
    ASSUME TypeOK, TypeOK', Targets, SettledInv, NEW t \in Senders,
           SendMessage(t) \/ \E c \in Children : Send(t, c)
    PROVE  SettledInv'
<1>0. /\ sender \in [Senders -> Sending]
      /\ \A v \in Senders : sender[v].at = "watching" =>
           epochs[sender[v].child].number # 0 /\ sender[v].child \in Children
      /\ \A c \in Children : \A w \in watchers[c] : ~w.waits => epochs[c].number # 0
    BY DEF TypeOK, SettledInv, RegisteredInv, Targets
<1>1. ASSUME UNCHANGED <<log, settlers, epochs, opened, created, waiter>>,
             \A c \in Children : \A w \in watchers'[c] : ~w.waits => epochs[c].number # 0,
             \A v \in Senders : sender'[v].at = "watching" => sender'[v] = sender[v]
      PROVE  SettledInv'
  <2>1. \A v \in Senders : sender'[v].at = "watching" => epochs[sender'[v].child].number # 0
      BY <1>0, <1>1
  <2>2. LogCalm
      BY <1>1 DEF LogCalm
  <2> QED  BY <1>1, <2>1, <2>2, Undisturbed
<1>2. ASSUME NEW a, Go(t, a) PROVE
        /\ \A v \in Senders \ {t} : sender'[v] = sender[v]
        /\ sender'[t].at = a /\ sender'[t].child = sender[t].child
    BY <1>0, <1>2 DEF Go, Sending
<1>3. ASSUME Finish(t) PROVE
        /\ \A v \in Senders \ {t} : sender'[v] = sender[v]
        /\ sender'[t].at = "done"
    BY <1>0, <1>3 DEF Finish, Finished
<1>4. CASE \E c \in Children : Send(t, c)
  <2>1. /\ UNCHANGED <<log, settlers, epochs, opened, created, waiter, watchers>>
        /\ \A v \in Senders \ {t} : sender'[v] = sender[v]
        /\ sender'[t].at = "looking"
      BY <1>0, <1>4 DEF Send, sessions, loops, service
  <2> QED  BY <1>0, <1>1, <2>1
<1>5. CASE LookUp(t)
  <2>1. UNCHANGED <<log, settlers, epochs, opened, created, waiter, watchers>>
      BY <1>5 DEF LookUp, sessions, service
  <2>2. Finish(t) \/ sender' = [sender EXCEPT ![t].at = "reading", ![t].holds = TRUE]
      BY <1>5 DEF LookUp
  <2>3. CASE Finish(t)
      BY <1>0, <1>1, <1>3, <2>1, <2>3
  <2>4. CASE sender' = [sender EXCEPT ![t].at = "reading", ![t].holds = TRUE]
    <3>1. (\A v \in Senders \ {t} : sender'[v] = sender[v]) /\ sender'[t].at = "reading"
        BY <1>0, <2>4 DEF Sending
    <3> QED  BY <1>0, <1>1, <2>1, <3>1
  <2> QED  BY <2>2, <2>3, <2>4
<1>6. CASE ReadEpoch(t)
  <2>1. UNCHANGED <<log, settlers, epochs, opened, created, waiter, watchers>>
      BY <1>6 DEF ReadEpoch, sessions, loops, service
  <2>2. Go(t, "sending") \/ Go(t, "opening")
      BY <1>6 DEF ReadEpoch
  <2> QED  BY <1>0, <1>1, <1>2, <2>1, <2>2
<1>7. CASE Open(t)
  <2>1. /\ UNCHANGED <<log, settlers, created, waiter, watchers>>
        /\ Go(t, "watching") /\ OpenEpoch(sender[t].child, TRUE)
      BY <1>7 DEF Open, sessions, loops
  <2>2. sender[t].child \in Children
      BY <1>7 DEF Open, Targets
  <2>3. \A v \in Senders : sender'[v].at = "watching" =>
          \/ sender'[v].child = sender[t].child
          \/ sender'[v].child \in Children /\ epochs[sender'[v].child].number # 0
      BY <1>0, <1>2, <2>1
  <2>4. \A d \in Children : waiter'[d].at # "none" =>
          waiter[d].at # "none" \/ d \in created' \ created
      BY <2>1
  <2>5. \A d \in Children : \A w \in watchers'[d] : w \in watchers[d] \/ d = sender[t].child
      BY <2>1
  <2> QED  BY <2>1, <2>2, <2>3, <2>4, <2>5, Opened
<1>8. CASE Watch(t)
  <2> DEFINE c == sender[t].child
  <2>1. UNCHANGED <<log, settlers, epochs, opened, created, waiter>> /\ Go(t, "sending")
      BY <1>8 DEF Watch, sessions, service
  <2>2. epochs[c].number # 0 /\ c \in Children
      BY <1>0, <1>8 DEF Watch
  <2>3. watchers' = watchers \/ watchers' = Watched(c, NewWatcher(epochs[c].number, TRUE))
      BY <1>8 DEF Watch
  <2> HIDE DEF c
  <2>4. \A d \in Children : \A w \in watchers'[d] : ~w.waits => epochs[d].number # 0
      BY <1>0, <2>2, <2>3 DEF Watched, TypeOK
  <2> QED  BY <1>0, <1>1, <1>2, <2>1, <2>4
<1>9. CASE Deliver(t)
  <2>1. UNCHANGED <<log, settlers, epochs, opened, created, waiter, watchers>> /\ Finish(t)
      BY <1>9 DEF Deliver, sessions, service
  <2> QED  BY <1>0, <1>1, <1>3, <2>1
<1> QED  BY <1>4, <1>5, <1>6, <1>7, <1>8, <1>9 DEF SendMessage

LEMMA SettlementSteps ==
    ASSUME TypeOK, TypeOK', Targets, SettledInv, NEW s \in settlers, Settlement(s)
    PROVE  SettledInv'
<1>0. /\ s \in Settler /\ s.child \in Children
      /\ \A c \in Children : \A w \in watchers[c] : ~w.waits => epochs[c].number # 0
      /\ \A t \in Senders : sender[t].at = "watching" => epochs[sender[t].child].number # 0
    BY DEF TypeOK, Settler, SettledInv, RegisteredInv
<1>1. ASSUME UNCHANGED <<log, epochs, opened, created, waiter, sender>>,
             settlers' = settlers \ {s},
             \A c \in Children : \A w \in watchers'[c] : ~w.waits => epochs[c].number # 0
      PROVE  SettledInv'
  <2> DEFINE f == [z \in settlers \ {s} |-> z]
  <2>1. settlers' = {f[z] : z \in settlers \ {s}}
      BY <1>1
  <2>2. \A z \in settlers \ {s} : Follows(f[z], z)
      BY DEF Follows
  <2> HIDE DEF f
  <2>3. LogCalm
      BY <1>1 DEF LogCalm
  <2>4. settlers \ {s} \in SUBSET settlers
      OBVIOUS
  <2> QED  BY <1>0, <1>1, <2>1, <2>2, <2>3, <2>4, Carried
<1>2. CASE Check(s)
  <2>1. /\ UNCHANGED <<log, epochs, opened, created, waiter, sender>>
        /\ s.stage = "checking"
      BY <1>2 DEF Check, sessions, service
  <2>2. CASE /\ watchers' = Watched(s.child, NewWatcher(s.epoch, s.continuable))
             /\ settlers' = settlers \ {s}
    <3>1. s.by # "waiter" => epochs[s.child].number # 0
        BY DEF SettledInv, RegisteredInv
    <3>2. s.by # "waiter"
        BY <2>1 DEF SettledInv, RegisteredInv
    <3>3. \A c \in Children : \A w \in watchers'[c] : ~w.waits => epochs[c].number # 0
        BY <1>0, <2>2, <3>1, <3>2 DEF Watched, TypeOK
    <3> QED  BY <1>1, <2>1, <2>2, <3>3
  <2>3. CASE /\ Move(s, [s EXCEPT !.stage = "claiming", !.live = agent[s.child] = "live"])
             /\ UNCHANGED watchers
    <3>1. Follows([s EXCEPT !.stage = "claiming", !.live = agent[s.child] = "live"], s)
        BY <1>0, <2>1 DEF Follows, Settler
    <3> QED  BY <1>0, <2>1, <2>3, <3>1, MovedOn
  <2> QED  BY <1>2, <2>2, <2>3 DEF Check
<1>3. CASE Report(s)
  <2>1. /\ UNCHANGED <<log, epochs, opened, created, waiter, sender, watchers>>
        /\ s.stage = "reporting"
      BY <1>3 DEF Report, sessions, loops
  <2>2. PICK g \in {"closing", "injecting", "waking"} :
          Move(s, [s EXCEPT !.stage = g, !.seen = wakes])
      BY <1>3 DEF Report
  <2>3. Follows([s EXCEPT !.stage = g, !.seen = wakes], s)
      BY <1>0, <2>1, <2>2 DEF Follows, Settler
  <2> QED  BY <1>0, <2>1, <2>2, <2>3, MovedOn
<1>4. CASE Announce(s)
  <2>1. /\ UNCHANGED <<log, epochs, opened, created, waiter, sender, watchers>>
        /\ s.stage \in {"injecting", "waking"}
        /\ Move(s, [s EXCEPT !.stage = "closing"])
      BY <1>4 DEF Announce, sessions, loops, service
  <2>2. Follows([s EXCEPT !.stage = "closing"], s)
      BY <1>0, <2>1 DEF Follows, Settler
  <2> QED  BY <1>0, <2>1, <2>2, MovedOn
<1>5. CASE Close(s)
  <2>1. UNCHANGED <<log, epochs, opened, created, waiter>>
      BY <1>5 DEF Close, sessions, service
  <2>2. CASE /\ DisposeAgent(s.child)
             /\ settlers' = SettlersWithout(s.child, settlers \ {s})
    <3>1. settlers \ {s} \in SUBSET settlers
        OBVIOUS
    <3> QED  BY <1>0, <2>1, <2>2, <3>1, Disposed
  <2>3. CASE /\ settlers' = settlers \ {s} /\ UNCHANGED <<loops, sender>>
      BY <1>0, <1>1, <2>1, <2>3 DEF loops
  <2> QED  BY <1>5, <2>2, <2>3 DEF Close
<1> QED  BY <1>2, <1>3, <1>4, <1>5, Claimed, FannedInOnce DEF Settlement

\* A failed append drops settlements and does nothing else.
LEMMA FailureDrops ==
    ASSUME TypeOK, TypeOK', SettledInv, NEW s \in settlers, AppendFails(s)
    PROVE  SettledInv'
<1> DEFINE f == [z \in settlers' |-> z]
<1>1. /\ settlers' \in SUBSET settlers /\ LogCalm
      /\ UNCHANGED <<epochs, opened, created, waiter, watchers, sender>>
    BY DEF AppendFails, LogCalm, sessions, loops, service
<1>2. settlers' = {f[z] : z \in settlers'}
    OBVIOUS
<1>3. \A z \in settlers' : Follows(f[z], z)
    BY DEF Follows
<1> HIDE DEF f
<1>4. /\ \A c \in Children : \A w \in watchers'[c] : ~w.waits => epochs[c].number # 0
      /\ \A t \in Senders : sender'[t].at = "watching" => epochs[sender'[t].child].number # 0
    BY <1>1 DEF SettledInv, RegisteredInv
<1> QED  BY <1>1, <1>2, <1>3, <1>4, Carried

LEMMA OtherSteps ==
    ASSUME TypeOK, TypeOK', SettledInv,
           \/ \E c \in Children : WorkerLooks(c) \/ Told(c) \/ TimesOut(c) \/ Delete(c)
           \/ \E e \in 1..MaxEpochs : Kill(e)
           \/ Crash
    PROVE  SettledInv'
<1>1. ASSUME NEW c \in Children, WorkerLooks(c) PROVE SettledInv'
  <2> DEFINE n == [child |-> c, by |-> "worker", epoch |-> epochs[c].number,
                   expected |-> epochs[c].expected, continuable |-> TRUE,
                   live |-> FALSE, stage |-> "claiming", job |-> 0, seen |-> 0]
  <2>1. UNCHANGED <<log, epochs, opened, created, sender, waiter, watchers>>
      BY <1>1 DEF WorkerLooks, sessions, loops, service
  <2>2. \/ settlers' = settlers
        \/ epochs[c].open /\ settlers' = settlers \cup {n}
      BY <1>1 DEF WorkerLooks
  <2>3. epochs[c].open => epochs[c].number # 0
      BY DEF SettledInv, EntryInv
  <2>4. n.by # "waiter" /\ n.stage # "appending" /\ n.child = c
      OBVIOUS
  <2> HIDE DEF n
  <2>5. CASE settlers' = settlers
    <3>1. Same /\ LogCalm
        BY <2>1, <2>5 DEF Same, LogCalm
    <3> QED  BY <3>1, Undisturbed DEF Same, SettledInv, RegisteredInv
  <2>6. CASE epochs[c].open /\ settlers' = settlers \cup {n}
    <3> DEFINE N == {n}
    <3>1. \A z \in N : z.by # "waiter" /\ z.stage # "appending" /\ epochs[z.child].number # 0
        BY <2>3, <2>4, <2>6
    <3>2. /\ \A d \in Children : waiter'[d].at # "none" => waiter[d].at # "none"
          /\ \A d \in Children : watchers'[d] \subseteq watchers[d]
        BY <2>1
    <3>3. settlers' = settlers \cup N
        BY <2>6
    <3> HIDE DEF N
    <3> QED  BY <2>1, <3>1, <3>2, <3>3, Joined
  <2> QED  BY <2>2, <2>5, <2>6
<1>2. ASSUME NEW c \in Children, Told(c) \/ TimesOut(c) PROVE SettledInv'
  <2>1. waiter[c].at # "none" /\ \E k : StopWaiting(c, k)
      BY <1>2 DEF Told, TimesOut
  <2> QED  BY <2>1, Stopped
<1>3. ASSUME NEW c \in Children, Delete(c) PROVE SettledInv'
  <2>1. /\ DisposeAgent(c) /\ settlers' = SettlersWithout(c, settlers)
        /\ UNCHANGED <<log, epochs, opened, created, waiter>>
      BY <1>3 DEF Delete, service
  <2>2. settlers \in SUBSET settlers
      OBVIOUS
  <2> QED  BY <2>1, <2>2, Disposed
<1>4. ASSUME NEW e \in 1..MaxEpochs, Kill(e) PROVE SettledInv'
  <2>1. Same /\ LogCalm
      BY <1>4 DEF Kill, Same, LogCalm, sessions, threads
  <2> QED  BY <2>1, Undisturbed DEF Same, SettledInv, RegisteredInv
<1>5. CASE Crash
  <2>1. /\ settlers' = {} /\ UNCHANGED <<log, opened, created>>
        /\ \A c \in Children : epochs'[c] = NoEpoch /\ watchers'[c] = {} /\ waiter'[c] = NoWaiter
        /\ \A t \in Senders : \/ sender'[t] = sender[t] /\ sender[t].at = "new"
                              \/ sender'[t] = Finished
      BY <1>5 DEF Crash
  <2>2. opened \in Nat
      BY DEF TypeOK, Numbers
  <2>3. LogInv' /\ ClaimInv' /\ EntryInv'
      BY <2>1, <2>2 DEF SettledInv, LogInv, OneFanInPerEpoch, ClaimInv, EntryInv, NoEpoch
  <2>4. RegisteredInv' /\ WaiterInv' /\ CreatedInv'
      BY <2>1 DEF SettledInv, RegisteredInv, WaiterInv, CreatedInv, NoWaiter, Finished
  <2> QED  BY <2>3, <2>4 DEF SettledInv
<1> QED  BY <1>1, <1>2, <1>3, <1>4, <1>5

(***************************************************************************)
(* The parent's log holds one fan-in per epoch of a child, and one for a   *)
(* foreground run without an epoch, for any children, calls and bounds.    *)
(***************************************************************************)
THEOREM FanInsAreUnique == Spec => []OneFanInPerEpoch
<1> DEFINE IInv == TypeOK /\ Targets /\ SettledInv
<1>1. Init => SettledInv
    BY DEF Init, SettledInv, LogInv, OneFanInPerEpoch, ClaimInv, EntryInv, RegisteredInv,
           WaiterInv, CreatedInv, NoEpoch, NoWaiter, FannedIn
<1>2. ASSUME TypeOK, TypeOK', Targets, SettledInv, [Next]_vars PROVE SettledInv'
    BY <1>2, ParentSteps, ChildSteps, StartSteps, SendSteps, SettlementSteps,
       FailureDrops, OtherSteps DEF Next
<1>3. SettledInv => OneFanInPerEpoch
    BY DEF SettledInv, LogInv
<1> QED  BY <1>1, <1>2, <1>3, TypesHold, PTL DEF Spec
-----------------------------------------------------------------------------
(* A notice follows its fan-in *)

\* n is the ordinal of a fan-in of c that the log has, or will have next.
Named(n, c)     == n \in 1..Count(log, c)
NamedNext(n, c) == n \in 1..(Count(log, c) + 1)

Telling == {"reporting", "injecting", "waking"}

\* What a settlement will say: of its job, once the fan-in is in the log.
Says(s) ==
    /\ s.stage \in Telling =>
         s.job \in 1..opened /\ Named(jobs[s.job].ordinal, s.child)
    /\ s.stage = "appending" /\ s.job # 0 =>
         s.job \in 1..opened /\ NamedNext(jobs[s.job].ordinal, s.child)

\* What the entry of a child will say: its job has the ordinal of a fan-in that
\* is there or the next to come.
WillSay(c) == epochs[c].expected => /\ epochs[c].number \in 1..opened
                                    /\ NamedNext(jobs[epochs[c].number].ordinal, c)

NoticeInv ==
    /\ NoticeFollowsFanIn
    /\ \A i \in DOMAIN parentInbox : Named(parentInbox[i].number, parentInbox[i].child)
    /\ \A p \in replaying : Named(p[2], p[1])
    /\ \A s \in settlers : Says(s)
    /\ \A c \in Children : WillSay(c)

\* A record more: the counts and the ordinals of the log.
LEMMA CountAppended ==
    ASSUME NEW l \in Seq(Record), NEW r \in Record
    PROVE  /\ \A c : /\ Count(l, c) \in Nat
                     /\ Count(Append(l, r), c) = IF r.kind = "fanin" /\ r.child = c
                                                 THEN Count(l, c) + 1 ELSE Count(l, c)
           /\ \A i \in DOMAIN l : Ordinal(Append(l, r), i) = Ordinal(l, i)
           /\ r.kind # "fanin" => Ordinal(Append(l, r), Len(l) + 1) = Count(l, r.child)
<1> DEFINE m == Append(l, r)
           n == Len(l) + 1
<1>1. /\ Len(l) \in Nat /\ DOMAIN l = 1..Len(l) /\ DOMAIN m = 1..n
      /\ m[n] = r /\ \A i \in 1..Len(l) : m[i] = l[i]
    OBVIOUS
<1> HIDE DEF m
<1>2. /\ n \notin DOMAIN l /\ DOMAIN m = DOMAIN l \cup {n}
      /\ \A i \in DOMAIN l : m[i] = l[i] /\ i <= n /\ i \in Nat
    BY <1>1
<1>3. \A c : FanIns(m, c) = IF r.kind = "fanin" /\ r.child = c THEN FanIns(l, c) \cup {n}
                            ELSE FanIns(l, c)
    BY <1>1, <1>2 DEF FanIns
<1>4. \A c : FanIns(l, c) \subseteq DOMAIN l /\ IsFiniteSet(FanIns(l, c))
  <2>1. IsFiniteSet(1..Len(l))
      BY <1>1, FS_Interval
  <2>2. \A c : FanIns(l, c) \subseteq 1..Len(l)
      BY <1>1 DEF FanIns
  <2> QED  BY <1>1, <2>1, <2>2, FS_Subset
<1>5. ASSUME NEW c
      PROVE  /\ Count(l, c) \in Nat
             /\ Count(m, c) = IF r.kind = "fanin" /\ r.child = c
                              THEN Count(l, c) + 1 ELSE Count(l, c)
  <2>1. Cardinality(FanIns(l, c)) \in Nat
      BY <1>4, FS_CardinalityType
  <2>2. n \notin FanIns(l, c)
      BY <1>2, <1>4
  <2>3. Cardinality(FanIns(l, c) \cup {n}) = Cardinality(FanIns(l, c)) + 1
      BY <1>4, <2>2, FS_AddElement
  <2> QED  BY <1>3, <2>1, <2>3 DEF Count
<1>6. ASSUME NEW i \in DOMAIN l PROVE Ordinal(m, i) = Ordinal(l, i)
  <2>1. m[i] = l[i] /\ ~(n <= i)
      BY <1>1
  <2>2. {j \in FanIns(m, l[i].child) : j <= i} = {j \in FanIns(l, l[i].child) : j <= i}
      BY <1>3, <2>1
  <2> QED  BY <2>1, <2>2 DEF Ordinal
<1>7. ASSUME r.kind # "fanin" PROVE Ordinal(m, n) = Count(l, r.child)
  <2>1. FanIns(m, r.child) = FanIns(l, r.child)
      BY <1>3, <1>7
  <2>2. {j \in FanIns(l, r.child) : j <= n} = FanIns(l, r.child)
      BY <1>2, <1>4
  <2> QED  BY <1>1, <2>1, <2>2 DEF Ordinal, Count
<1> QED  BY <1>5, <1>6, <1>7 DEF m

\* A log that gets at most one record, no notice without its fan-in.
LogTold == \/ log' = log
           \/ \E r \in Record : /\ log' = Append(log, r)
                                /\ r.kind = "notice" => Named(r.number, r.child)

LEMMA ToldInOrder ==
    ASSUME TypeOK, NoticeFollowsFanIn, LogTold
    PROVE  /\ NoticeFollowsFanIn'
           /\ \A c : Count(log, c) \in Nat /\ Count(log', c) \in Nat
                     /\ Count(log, c) <= Count(log', c)
<1>1. log \in Seq(Record)
    BY DEF TypeOK
<1>2. CASE log' = log
  <2>1. \A c : Count(log, c) \in Nat
      BY <1>1, CountType
  <2>2. \A c : Count(log', c) = Count(log, c)
      BY <1>2 DEF Count, FanIns
  <2>3. NoticeFollowsFanIn'
      BY <1>2 DEF NoticeFollowsFanIn, Ordinal, FanIns
  <2> QED  BY <2>1, <2>2, <2>3
<1>3. ASSUME NEW r \in Record, log' = Append(log, r),
             r.kind = "notice" => Named(r.number, r.child)
      PROVE  /\ NoticeFollowsFanIn'
             /\ \A c : Count(log, c) \in Nat /\ Count(log', c) \in Nat
                       /\ Count(log, c) <= Count(log', c)
  <2>1. /\ DOMAIN log' = 1..(Len(log) + 1) /\ DOMAIN log = 1..Len(log) /\ Len(log) \in Nat
        /\ log'[Len(log) + 1] = r /\ \A i \in 1..Len(log) : log'[i] = log[i]
      BY <1>1, <1>3, Appended
  <2>2. /\ \A c : /\ Count(log, c) \in Nat
                  /\ Count(log', c) = IF r.kind = "fanin" /\ r.child = c
                                      THEN Count(log, c) + 1 ELSE Count(log, c)
        /\ \A i \in DOMAIN log : Ordinal(log', i) = Ordinal(log, i)
        /\ r.kind # "fanin" => Ordinal(log', Len(log) + 1) = Count(log, r.child)
      BY <1>1, <1>3, CountAppended
  <2>3. ASSUME NEW i \in DOMAIN log', log'[i].kind = "notice"
        PROVE  log'[i].number \in 1..Ordinal(log', i)
    <3>1. CASE i \in DOMAIN log
        BY <2>1, <2>2, <2>3, <3>1 DEF NoticeFollowsFanIn
    <3>2. CASE i = Len(log) + 1
        BY <1>3, <2>1, <2>2, <2>3, <3>2 DEF Named
    <3> QED  BY <2>1, <3>1, <3>2
  <2>4. NoticeFollowsFanIn'
      BY <2>3 DEF NoticeFollowsFanIn
  <2> QED  BY <2>2, <2>4
<1> QED  BY <1>2, <1>3 DEF LogTold

\* Whatever is on its way in the next state was on its way already, or is named.
StillSays(z) ==
    \/ z.stage \in {"checking", "claiming", "closing"}
    \/ \E s \in settlers : /\ z.child = s.child /\ z.job = s.job
                           /\ z.stage = s.stage \/ (z.stage \in Telling /\ s.stage \in Telling)
    \/ /\ z.stage \in Telling
       /\ z.job \in 1..opened /\ jobs[z.job].ordinal \in 1..Count(log', z.child)
    \/ /\ z.stage = "appending"
       /\ z.job # 0 => z.job \in 1..opened /\ NamedNext(jobs[z.job].ordinal, z.child)

StillWillSay(c) ==
    epochs'[c].expected =>
        \/ epochs[c].expected /\ epochs'[c].number = epochs[c].number
        \/ epochs'[c].number \in 1..opened' /\ NamedNext(jobs'[epochs'[c].number].ordinal, c)

LEMMA NoticesKept ==
    ASSUME TypeOK, TypeOK', NoticeInv, LogTold,
           \A i \in DOMAIN parentInbox' :
                \/ \E j \in DOMAIN parentInbox : parentInbox'[i] = parentInbox[j]
                \/ Named(parentInbox'[i].number, parentInbox'[i].child),
           \A p \in replaying' : p \in replaying \/ Named(p[2], p[1]),
           opened <= opened', \A e \in 1..opened : jobs'[e].ordinal = jobs[e].ordinal,
           \A z \in settlers' : StillSays(z),
           \A c \in Children : StillWillSay(c)
    PROVE  NoticeInv'
<1>1. /\ NoticeFollowsFanIn'
      /\ \A c : Count(log, c) \in Nat /\ Count(log', c) \in Nat
                /\ Count(log, c) <= Count(log', c)
    BY ToldInOrder DEF NoticeInv
<1>2. /\ \A n, c : n \in 1..Count(log, c) => n \in 1..Count(log', c)
      /\ \A n, c : n \in 1..(Count(log, c) + 1) => n \in 1..(Count(log', c) + 1)
    BY <1>1
<1>3. opened \in Nat /\ opened' \in Nat /\ \A e \in 1..opened : e \in 1..opened'
    BY DEF TypeOK, Numbers
<1>4. \A i \in DOMAIN parentInbox' : parentInbox'[i].number \in 1..Count(log', parentInbox'[i].child)
    BY <1>2 DEF NoticeInv, Named
<1>5. \A p \in replaying' : p[2] \in 1..Count(log', p[1])
    BY <1>2 DEF NoticeInv, Named
<1>6. ASSUME NEW z \in settlers'
      PROVE  /\ z.stage \in Telling =>
                  z.job \in 1..opened' /\ jobs'[z.job].ordinal \in 1..Count(log', z.child)
             /\ z.stage = "appending" /\ z.job # 0 =>
                  z.job \in 1..opened' /\ jobs'[z.job].ordinal \in 1..(Count(log', z.child) + 1)
  <2>1. CASE \E s \in settlers : /\ z.child = s.child /\ z.job = s.job
                                 /\ z.stage = s.stage \/ (z.stage \in Telling /\ s.stage \in Telling)
    <3>1. PICK s \in settlers :
            /\ z.child = s.child /\ z.job = s.job
            /\ z.stage = s.stage \/ (z.stage \in Telling /\ s.stage \in Telling)
        BY <2>1
    <3>2. /\ s.stage \in Telling =>
               s.job \in 1..opened /\ jobs[s.job].ordinal \in 1..Count(log, s.child)
          /\ s.stage = "appending" /\ s.job # 0 =>
               s.job \in 1..opened /\ jobs[s.job].ordinal \in 1..(Count(log, s.child) + 1)
        BY DEF NoticeInv, Says, Named, NamedNext
    <3> QED  BY <1>2, <1>3, <3>1, <3>2 DEF Telling
  <2>2. CASE /\ z.stage \in Telling
             /\ z.job \in 1..opened /\ jobs[z.job].ordinal \in 1..Count(log', z.child)
      BY <1>3, <2>2 DEF Telling
  <2>3. CASE /\ z.stage = "appending"
             /\ z.job # 0 => z.job \in 1..opened /\ NamedNext(jobs[z.job].ordinal, z.child)
      BY <1>2, <1>3, <2>3 DEF Telling, NamedNext
  <2> QED  BY <2>1, <2>2, <2>3 DEF StillSays, Telling
<1>7. ASSUME NEW c \in Children, epochs'[c].expected
      PROVE  /\ epochs'[c].number \in 1..opened'
             /\ jobs'[epochs'[c].number].ordinal \in 1..(Count(log', c) + 1)
  <2>1. CASE epochs[c].expected /\ epochs'[c].number = epochs[c].number
    <3>1. /\ epochs[c].number \in 1..opened
          /\ jobs[epochs[c].number].ordinal \in 1..(Count(log, c) + 1)
        BY <2>1 DEF NoticeInv, WillSay, NamedNext
    <3> QED  BY <1>2, <1>3, <2>1, <3>1
  <2>2. CASE epochs'[c].number \in 1..opened' /\ NamedNext(jobs'[epochs'[c].number].ordinal, c)
      BY <1>2, <2>2 DEF NamedNext
  <2> QED  BY <1>7, <2>1, <2>2 DEF StillWillSay
<1> QED
    BY <1>1, <1>4, <1>5, <1>6, <1>7 DEF NoticeInv, Named, NamedNext, Says, WillSay

\* Steps in which nothing that names a fan-in is new.
Unsaid == /\ LogTold /\ opened' = opened
          /\ \A e \in 1..opened : jobs'[e].ordinal = jobs[e].ordinal
          /\ \A z \in settlers' : StillSays(z)
          /\ \A c \in Children : /\ epochs'[c].expected = epochs[c].expected
                                 /\ epochs'[c].number = epochs[c].number

LEMMA UnsaidKept ==
    ASSUME TypeOK, TypeOK', NoticeInv, Unsaid, UNCHANGED <<parentInbox, replaying>>
    PROVE  NoticeInv'
<1>1. opened <= opened'
    BY DEF TypeOK, Numbers, Unsaid
<1>2. \A c \in Children : StillWillSay(c)
    BY DEF Unsaid, StillWillSay
<1> QED  BY <1>1, <1>2, NoticesKept DEF Unsaid

LEMMA SameSaid == ASSUME UNCHANGED settlers PROVE \A z \in settlers' : StillSays(z)
    BY DEF StillSays

LEMMA NoticeParent ==
    ASSUME TypeOK, TypeOK', NoticeInv,
           \/ Prompt \/ Woken \/ FoldNotice \/ EndParentTurn \/ Resume \/ Replay \/ Restart
           \/ UNCHANGED vars
    PROVE  NoticeInv'
<1>1. /\ UNCHANGED <<settlers, epochs, opened, jobs>>
      /\ opened \in Nat /\ log \in Seq(Record)
    BY DEF TypeOK, Numbers, Prompt, Woken, FoldNotice, TakeNotice, EndParentTurn, Resume, Replay,
           Restart, vars, service, threads
<1>2. /\ \A z \in settlers' : StillSays(z)
      /\ \A c \in Children : StillWillSay(c)
      /\ opened <= opened'
    BY <1>1, SameSaid DEF StillWillSay
<1>3. ASSUME LogTold,
             \A i \in DOMAIN parentInbox' :
                \E j \in DOMAIN parentInbox : parentInbox'[i] = parentInbox[j],
             \A p \in replaying' : p \in replaying \/ Named(p[2], p[1])
      PROVE  NoticeInv'
    BY <1>1, <1>2, <1>3, NoticesKept
<1>4. CASE Prompt \/ EndParentTurn \/ UNCHANGED vars
    BY <1>3, <1>4 DEF Prompt, EndParentTurn, vars, parent, LogTold
<1>5. CASE Woken \/ FoldNotice
  <2>1. parentInbox # <<>> /\ TakeNotice /\ UNCHANGED replaying
      BY <1>5, WokenHasNotice DEF Woken, FoldNotice, TakeNotice
  <2> DEFINE n == Notice(Head(parentInbox).child, Head(parentInbox).number)
  <2>2. n \in Record /\ log' = Append(log, n)
      BY <2>1, TakenType DEF TakeNotice
  <2>3. /\ 1 \in DOMAIN parentInbox /\ Head(parentInbox) = parentInbox[1]
        /\ \A i \in DOMAIN parentInbox' : i + 1 \in DOMAIN parentInbox
                                          /\ parentInbox'[i] = parentInbox[i + 1]
      BY <2>1 DEF TakeNotice, TypeOK
  <2>4. n.number = parentInbox[1].number /\ n.child = parentInbox[1].child
      BY <2>3 DEF Notice
  <2>5. Named(n.number, n.child)
      BY <2>3, <2>4 DEF NoticeInv
  <2> HIDE DEF n
  <2>6. LogTold
      BY <2>2, <2>5 DEF LogTold
  <2> QED  BY <1>3, <2>1, <2>3, <2>6
<1>6. CASE Replay
  <2>1. PICK p \in replaying : log' = Append(log, Notice(p[1], p[2])) /\ replaying' = replaying \ {p}
      BY <1>6 DEF Replay
  <2>2. UNCHANGED parentInbox
      BY <1>6 DEF Replay, parent
  <2>3. p \in Children \X Nat /\ Named(p[2], p[1])
      BY DEF TypeOK, NoticeInv
  <2>4. /\ Notice(p[1], p[2]) \in Record
        /\ Notice(p[1], p[2]).number = p[2] /\ Notice(p[1], p[2]).child = p[1]
      BY <2>3 DEF Notice, Record
  <2>5. LogTold
      BY <2>1, <2>3, <2>4 DEF LogTold
  <2> QED  BY <1>3, <2>1, <2>2, <2>5
<1>7. CASE Resume \/ Restart
  <2>1. replaying' = Unreported(log) /\ UNCHANGED <<log, parentInbox>>
      BY <1>7 DEF Resume, Restart, parent
  <2>2. ASSUME NEW p \in Unreported(log) PROVE Named(p[2], p[1])
    <3>1. PICK i \in Background(log) : p = <<log[i].child, Ordinal(log, i)>>
        BY DEF Unreported
    <3> DEFINE F == FanIns(log, log[i].child)
               G == {j \in F : j <= i}
    <3>2. i \in DOMAIN log /\ i \in F /\ DOMAIN log = 1..Len(log) /\ Len(log) \in Nat
        BY <1>1, <3>1 DEF Background, FanIns
    <3>3. F \subseteq 1..Len(log) /\ IsFiniteSet(1..Len(log))
        BY <3>2, FS_Interval DEF FanIns
    <3>4. IsFiniteSet(F)
        BY <3>3, FS_Subset
    <3>5. G \subseteq F /\ i \in G
        BY <3>2
    <3> HIDE DEF F, G
    <3>6. IsFiniteSet(G) /\ Cardinality(G) <= Cardinality(F)
          /\ Cardinality(G) \in Nat /\ Cardinality(F) \in Nat
        BY <3>4, <3>5, FS_Subset, FS_CardinalityType
    <3>7. Cardinality(G) # 0
        BY <3>5, <3>6, FS_EmptySet
    <3>8. Cardinality(G) \in 1..Cardinality(F)
        BY <3>6, <3>7
    <3> QED  BY <3>1, <3>8 DEF F, G, Named, Count, Ordinal
  <2> QED  BY <1>3, <2>1, <2>2 DEF LogTold
<1> QED  BY <1>4, <1>5, <1>6, <1>7

LEMMA NoticeOthers ==
    ASSUME TypeOK, TypeOK', NoticeInv, NEW c \in Children,
           \/ WorkerLooks(c) \/ WorkerSends(c) \/ Child(c) \/ Told(c) \/ TimesOut(c)
           \/ Interrupt(c) \/ Delete(c) \/ (\E t \in Senders : Send(t, c))
           \/ \E t \in Senders : LookUp(t) \/ ReadEpoch(t) \/ Watch(t) \/ Deliver(t)
    PROVE  NoticeInv'
<1>1. UNCHANGED <<log, epochs, opened, jobs, parentInbox, replaying>>
    BY DEF WorkerLooks, WorkerSends, Child, BeginTurn, FoldSteer, EndTurn, Flush, Told, TimesOut,
           StopWaiting, Interrupt, Delete, Send, LookUp, ReadEpoch, Watch, Deliver, service,
           parent
<1>3. \A z \in settlers' : StillSays(z)
  <2>1. CASE settlers' = settlers
      BY <2>1, SameSaid
  <2>2. CASE WorkerLooks(c) \/ Flush(c) \/ Told(c) \/ TimesOut(c)
    <3>1. ASSUME NEW z \in settlers' PROVE z \in settlers \/ z.stage \in {"checking", "claiming"}
        BY <2>2 DEF WorkerLooks, Flush, Told, TimesOut, StopWaiting
    <3> QED  BY <3>1 DEF StillSays
  <2>3. CASE Delete(c)
    <3>1. \A s \in settlers : LET u == [s EXCEPT !.live = FALSE] IN
            u.stage = s.stage /\ u.child = s.child /\ u.job = s.job
        BY DEF TypeOK, Settler
    <3>2. settlers' = SettlersWithout(c, settlers)
        BY <2>3 DEF Delete
    <3>3. \A z \in settlers' : \E s \in settlers :
            z.stage = s.stage /\ z.child = s.child /\ z.job = s.job
        BY <3>1, <3>2 DEF SettlersWithout
    <3> QED  BY <3>3 DEF StillSays
  <2> QED
      BY <2>1, <2>2, <2>3 DEF WorkerSends, Child, BeginTurn, FoldSteer, EndTurn, Interrupt,
            Send, LookUp, ReadEpoch, Watch, Deliver, threads
<1>4. Unsaid
    BY <1>1, <1>3 DEF Unsaid, LogTold
<1> QED  BY <1>1, <1>4, UnsaidKept

LEMMA NoticeKilled ==
    ASSUME TypeOK, TypeOK', NoticeInv, NEW e \in 1..MaxEpochs, Kill(e) PROVE NoticeInv'
<1>1. UNCHANGED <<log, settlers, epochs, opened, parentInbox, replaying>>
    BY DEF Kill, sessions, parent, threads
<1>2. /\ jobs' = [jobs EXCEPT ![e].state = "settled"] /\ jobs \in [1..MaxEpochs -> Job]
      /\ \A f \in 1..opened : f \in 1..MaxEpochs
  <2>1. opened \in 0..MaxEpochs /\ jobs \in [1..MaxEpochs -> Job]
      BY DEF TypeOK, Numbers
  <2> QED  BY <2>1 DEF Kill
<1>3. \A f \in 1..opened : jobs'[f].ordinal = jobs[f].ordinal
    BY <1>2 DEF Job
<1>4. Unsaid
    BY <1>1, <1>3, SameSaid DEF Unsaid, LogTold
<1> QED  BY <1>1, <1>4, UnsaidKept

\* A new entry's job has the ordinal of the next fan-in.
LEMMA NoticeOpened ==
    ASSUME TypeOK, TypeOK', NoticeInv, NEW c \in Children,
           \/ \E k \in BOOLEAN : StartBackground(c, k) \/ StartForeground(c, k)
           \/ \E t \in Senders : Open(t) /\ sender[t].child = c
    PROVE  NoticeInv'
<1>1. UNCHANGED <<log, settlers, parentInbox, replaying>>
    BY DEF StartBackground, StartForeground, Open, parent
<1>2. LogTold /\ \A z \in settlers' : StillSays(z)
    BY <1>1, SameSaid DEF LogTold
<1>3. CASE UNCHANGED <<epochs, opened, jobs>>
  <2>1. Unsaid
      BY <1>2, <1>3 DEF Unsaid
  <2> QED  BY <1>1, <2>1, UnsaidKept
<1>4. ASSUME NEW x \in BOOLEAN, OpenEpoch(c, x) PROVE NoticeInv'
  <2>1. /\ opened \in Nat /\ opened' = opened + 1 /\ opened + 1 \in 1..MaxEpochs
        /\ epochs \in [Children -> Epoch] /\ jobs \in [1..MaxEpochs -> Job]
        /\ epochs' = [epochs EXCEPT ![c] = [number |-> opened + 1, open |-> TRUE, expected |-> x]]
      BY <1>4 DEF OpenEpoch, TypeOK, Numbers
  <2>2. \A e \in 1..opened : jobs'[e].ordinal = jobs[e].ordinal
    <3>1. \A e \in 1..opened : e \in 1..MaxEpochs /\ e # opened + 1
        BY <2>1
    <3> QED  BY <1>4, <2>1, <3>1 DEF OpenEpoch
  <2>3. x => jobs'[opened + 1].ordinal = Count(log, c) + 1
      BY <1>4, <2>1 DEF OpenEpoch
  <2>4. Count(log, c) \in Nat
      BY CountType DEF TypeOK
  <2>5. ASSUME NEW d \in Children PROVE StillWillSay(d)
    <3>1. CASE d = c
      <4>1. epochs'[d].expected = x /\ epochs'[d].number = opened + 1
          BY <2>1, <3>1
      <4>2. opened + 1 \in 1..opened' /\ Count(log, c) + 1 \in 1..(Count(log, c) + 1)
          BY <2>1, <2>4
      <4> QED  BY <2>3, <3>1, <4>1, <4>2 DEF StillWillSay, NamedNext
    <3>2. CASE d # c
        BY <2>1, <3>2 DEF StillWillSay
    <3> QED  BY <3>1, <3>2
  <2>6. opened <= opened'
      BY <2>1
  <2> QED  BY <1>1, <1>2, <2>2, <2>5, <2>6, NoticesKept
<1> QED
    BY <1>3, <1>4 DEF StartBackground, StartForeground, Open, service

LEMMA NoticeSettlement ==
    ASSUME TypeOK, TypeOK', NoticeInv, NEW s \in settlers, Settlement(s)
    PROVE  NoticeInv'
<1>0. /\ s \in Settler /\ s.child \in Children /\ Says(s)
      /\ opened \in Nat /\ opened <= MaxEpochs /\ log \in Seq(Record)
      /\ jobs \in [1..MaxEpochs -> Job] /\ epochs \in [Children -> Epoch]
    BY DEF TypeOK, Numbers, Settler, NoticeInv
<1>1. ASSUME NEW u, Move(s, u), StillSays(u)
      PROVE  \A z \in settlers' : StillSays(z)
    BY <1>1 DEF Move, StillSays
<1>2. ASSUME settlers' \subseteq settlers PROVE \A z \in settlers' : StillSays(z)
    BY <1>2 DEF StillSays
<1>3. CASE Check(s) \/ Close(s)
  <2>1. UNCHANGED <<log, epochs, opened, jobs, parentInbox, replaying>>
      BY <1>3 DEF Check, Close, service, parent
  <2>2. \A z \in settlers' : StillSays(z)
    <3>1. CASE settlers' = settlers \ {s}
        BY <1>2, <3>1
    <3>2. CASE Move(s, [s EXCEPT !.stage = "claiming", !.live = agent[s.child] = "live"])
      <4>1. StillSays([s EXCEPT !.stage = "claiming", !.live = agent[s.child] = "live"])
          BY <1>0 DEF StillSays, Settler
      <4> QED  BY <1>1, <3>2, <4>1
    <3>3. CASE settlers' = SettlersWithout(s.child, settlers \ {s})
      <4>1. \A v \in settlers : LET u == [v EXCEPT !.live = FALSE] IN
              u.stage = v.stage /\ u.child = v.child /\ u.job = v.job
          BY DEF TypeOK, Settler
      <4>2. \A z \in settlers' : \E v \in settlers :
              z.stage = v.stage /\ z.child = v.child /\ z.job = v.job
          BY <3>3, <4>1 DEF SettlersWithout
      <4> QED  BY <4>2 DEF StillSays
    <3> QED  BY <1>3, <3>1, <3>2, <3>3 DEF Check, Close
  <2>3. Unsaid
      BY <2>1, <2>2 DEF Unsaid, LogTold
  <2> QED  BY <2>1, <2>3, UnsaidKept
<1>4. CASE Claim(s)
  <2>1. UNCHANGED <<log, opened, jobs, parentInbox, replaying>>
      BY <1>4 DEF Claim, parent
  <2> DEFINE e == epochs[s.child]
             u == [s EXCEPT !.stage = "appending", !.epoch = e.number,
                            !.job = IF e.expected THEN e.number ELSE 0]
  <2>2. e \in Epoch /\ WillSay(s.child)
      BY <1>0 DEF NoticeInv
  <2>3. StillSays([s EXCEPT !.stage = "closing"])
      BY <1>0 DEF StillSays, Settler
  <2>4. StillSays(u)
    <3>1. u.stage = "appending" /\ u.child = s.child
          /\ u.job = IF e.expected THEN e.number ELSE 0
        BY <1>0 DEF Settler
    <3>2. u.job # 0 => u.job \in 1..opened /\ NamedNext(jobs[u.job].ordinal, s.child)
        BY <2>2, <3>1 DEF WillSay
    <3> HIDE DEF u
    <3> QED  BY <3>1, <3>2 DEF StillSays
  <2>5. /\ Move(s, [s EXCEPT !.stage = "closing"]) \/ Move(s, u)
        /\ epochs' = epochs \/ epochs' = [epochs EXCEPT ![s.child].open = FALSE]
      BY <1>4 DEF Claim
  <2> HIDE DEF u
  <2>6. \A z \in settlers' : StillSays(z)
      BY <1>1, <2>3, <2>4, <2>5
  <2>7. \A c \in Children : /\ epochs'[c].expected = epochs[c].expected
                            /\ epochs'[c].number = epochs[c].number
      BY <1>0, <2>5 DEF Epoch
  <2>8. Unsaid
      BY <2>1, <2>6, <2>7 DEF Unsaid, LogTold
  <2> QED  BY <2>1, <2>8, UnsaidKept
<1>5. CASE AppendFanIn(s)
  <2>1. /\ UNCHANGED <<epochs, opened, jobs, parentInbox, replaying>>
        /\ s.stage = "appending" /\ log' = Append(log, FanIn(s.child, s.epoch, s.expected))
      BY <1>5 DEF AppendFanIn, service, parent
  <2> DEFINE r == FanIn(s.child, s.epoch, s.expected)
             u == [s EXCEPT !.stage = IF s.job = 0 THEN "closing" ELSE "reporting"]
  <2>2. r \in Record /\ r.kind = "fanin" /\ r.child = s.child /\ log' = Append(log, r)
      BY <1>0, <2>1 DEF FanIn, Record, Settler, Numbers
  <2>3. u.stage = (IF s.job = 0 THEN "closing" ELSE "reporting")
        /\ u.child = s.child /\ u.job = s.job /\ Move(s, u)
      BY <1>0, <1>5 DEF Settler, AppendFanIn
  <2> HIDE DEF r, u
  <2>4. LogTold
      BY <2>2 DEF LogTold
  <2>5. Count(log', s.child) = Count(log, s.child) + 1
      BY <1>0, <2>2, CountAppended
  <2>6. StillSays(u)
    <3>1. CASE s.job = 0
        BY <2>3, <3>1 DEF StillSays
    <3>2. CASE s.job # 0
      <4>1. s.job \in 1..opened /\ jobs[s.job].ordinal \in 1..Count(log', s.child)
          BY <1>0, <2>1, <2>5, <3>2 DEF Says, NamedNext
      <4> QED  BY <2>3, <3>2, <4>1 DEF StillSays, Telling
    <3> QED  BY <3>1, <3>2
  <2>7. Unsaid
      BY <1>1, <2>1, <2>3, <2>4, <2>6 DEF Unsaid
  <2> QED  BY <2>1, <2>7, UnsaidKept
<1>6. CASE Report(s)
  <2>1. /\ UNCHANGED <<log, epochs, opened, parentInbox, replaying>>
        /\ s.stage = "reporting" /\ jobs' = [jobs EXCEPT ![s.job].state = "settled"]
      BY <1>6 DEF Report, parent
  <2>2. PICK g \in {"closing", "injecting", "waking"} :
          Move(s, [s EXCEPT !.stage = g, !.seen = wakes])
      BY <1>6 DEF Report
  <2>3. StillSays([s EXCEPT !.stage = g, !.seen = wakes])
      BY <1>0, <2>1 DEF StillSays, Settler, Telling
  <2>4. \A e \in 1..opened : jobs'[e].ordinal = jobs[e].ordinal
      BY <1>0, <2>1 DEF Job
  <2>5. Unsaid
      BY <1>1, <2>1, <2>2, <2>3, <2>4 DEF Unsaid, LogTold
  <2> QED  BY <2>1, <2>5, UnsaidKept
<1>7. CASE Announce(s)
  <2>1. /\ UNCHANGED <<log, epochs, opened, jobs, replaying>>
        /\ s.stage \in {"injecting", "waking"} /\ Move(s, [s EXCEPT !.stage = "closing"])
      BY <1>7 DEF Announce, service
  <2>2. StillSays([s EXCEPT !.stage = "closing"])
      BY <1>0 DEF StillSays, Settler
  <2> DEFINE i == [child |-> s.child, number |-> jobs[s.job].ordinal,
                   wakes |-> s.stage = "waking"]
  <2>3. UNCHANGED parentInbox \/ parentInbox' = Append(parentInbox, i)
      BY <1>7 DEF Announce
  <2>4. Named(i.number, i.child) /\ parentInbox \in Seq(Item)
      BY <1>0, <2>1 DEF Says, Telling, TypeOK
  <2> HIDE DEF i
  <2>5. \A j \in DOMAIN parentInbox' :
          \/ \E k \in DOMAIN parentInbox : parentInbox'[j] = parentInbox[k]
          \/ Named(parentInbox'[j].number, parentInbox'[j].child)
    <3>1. CASE UNCHANGED parentInbox
        BY <3>1
    <3>2. CASE parentInbox' = Append(parentInbox, i)
      <4>1. \A j \in DOMAIN parentInbox' :
              \/ j \in DOMAIN parentInbox /\ parentInbox'[j] = parentInbox[j]
              \/ parentInbox'[j] = i
          BY <2>4, <3>2
      <4> QED  BY <2>4, <4>1
    <3> QED  BY <2>3, <3>1, <3>2
  <2>6. \A c \in Children : StillWillSay(c)
      BY <2>1 DEF StillWillSay
  <2>7. LogTold /\ opened <= opened' /\ \A z \in settlers' : StillSays(z)
      BY <1>0, <1>1, <2>1, <2>2 DEF LogTold
  <2> QED  BY <2>1, <2>5, <2>6, <2>7, NoticesKept
<1> QED  BY <1>3, <1>4, <1>5, <1>6, <1>7 DEF Settlement

LEMMA NoticeFailure ==
    ASSUME TypeOK, TypeOK', NoticeInv, NEW s \in settlers, AppendFails(s)
    PROVE  NoticeInv'
<1>1. /\ settlers' \subseteq settlers
      /\ UNCHANGED <<log, epochs, opened, jobs, parentInbox, replaying>>
    BY DEF AppendFails, service, parent
<1>2. Unsaid
    BY <1>1 DEF Unsaid, LogTold, StillSays
<1> QED  BY <1>1, <1>2, UnsaidKept

LEMMA NoticeCrash == ASSUME NoticeInv, Crash PROVE NoticeInv'
<1>1. /\ parentInbox' = <<>> /\ replaying' = {} /\ settlers' = {} /\ log' = log
      /\ \A c \in Children : ~epochs'[c].expected
    BY DEF Crash, NoEpoch
<1>2. NoticeFollowsFanIn'
    BY <1>1 DEF NoticeInv, NoticeFollowsFanIn, Ordinal, FanIns
<1> QED  BY <1>1, <1>2 DEF NoticeInv, WillSay

(***************************************************************************)
(* A notice comes after the fan-in it names, whether a live notice or the  *)
(* replay brought it, across crashes, overlapping epochs and killed jobs:  *)
(* the ordinal an epoch's job takes when it is opened is at most one ahead *)
(* of the log, and the settlement of that job speaks only when the fan-in  *)
(* it appended is there.                                                   *)
(***************************************************************************)
THEOREM Notice_Follows_FanIn == Spec => []NoticeFollowsFanIn
<1>1. Init => NoticeInv
    BY DEF Init, NoticeInv, NoticeFollowsFanIn, WillSay, NoEpoch
<1>2. ASSUME TypeOK, TypeOK', Targets, NoticeInv, [Next]_vars PROVE NoticeInv'
  <2>1. ASSUME NEW t \in Senders, SendMessage(t) PROVE NoticeInv'
    <3>1. sender[t].child \in Children
        BY <1>2, <2>1 DEF Targets, SendMessage, LookUp, ReadEpoch, Open, Watch, Deliver
    <3>2. CASE Open(t)
        BY <1>2, <3>1, <3>2, NoticeOpened
    <3> QED  BY <1>2, <2>1, <3>1, <3>2, NoticeOthers DEF SendMessage
  <2> QED
      BY <1>2, <2>1, NoticeParent, NoticeOthers, NoticeKilled, NoticeOpened, NoticeSettlement,
         NoticeFailure, NoticeCrash DEF Next
<1>3. NoticeInv => NoticeFollowsFanIn
    BY DEF NoticeInv
<1> QED  BY <1>1, <1>2, <1>3, TypesHold, PTL DEF Spec
=============================================================================
