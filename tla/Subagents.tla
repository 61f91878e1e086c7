----------------------------- MODULE Subagents -----------------------------
(***************************************************************************)
(* Subagents: the children one parent delegates to, and how it learns that *)
(* they have stopped. A background run, or a message to a child, opens an  *)
(* epoch with a job; the end of the child's work closes it with a fan-in   *)
(* in the parent's log and settles the job, whose listener puts a notice   *)
(* into the parent's inbox. Fan-ins and notices in the log are durable,    *)
(* everything else ends with the daemon; a replay at its start and at each *)
(* resume of the parent's session appends the notices the log lacks.       *)
(*                                                                         *)
(* Processes: the tools of the parent's turn, which run in parallel        *)
(* (foreground starts and send_message), the detached worker of each       *)
(* background start, each child's driver, the settlements its callbacks    *)
(* make, the parent's driver, and the clients. An action is one critical   *)
(* section of the service, of an agent or of the session, or one use of    *)
(* the job registry, which has no lock.                                    *)
(***************************************************************************)
EXTENDS Naturals, Sequences, FiniteSets

CONSTANTS Children,     \* the sessions the parent may create
          Senders,      \* the send_message calls it may make, each once
          MaxSlots,     \* ResourceCaps::max_live_subagents
          MaxInbox,     \* AgentConfig::max_inbox
          MaxWakes,     \* JobWakeupConfig::max_consecutive_wakes
          MaxEpochs,    \* bound: epochs opened
          MaxCrashes,   \* bound: crashes of the daemon
          Kills,        \* bound: whether jobs are killed
          Resumes,      \* bound: whether the parent's session is resumed
          None          \* no child

ASSUME LimitAssumption == /\ MaxSlots \in Nat /\ MaxInbox \in Nat /\ MaxWakes \in Nat
                          /\ MaxEpochs \in Nat /\ MaxCrashes \in Nat
ASSUME SwitchAssumption == Kills \in BOOLEAN /\ Resumes \in BOOLEAN
ASSUME NoneAssumption  == None \notin Children

VARIABLES
    up, crashes,    \* whether the daemon runs, and how often it has crashed
    created, gone,  \* the children's sessions created, and those deleted
    log,            \* the parent's log: fan-ins and notices
    parentInbox,    \* the notices in the parent's inbox_
    parentBusy,     \* the parent is in a turn
    resident,       \* the parent's agent exists
    wakes,          \* wakes_ of the parent
    replaying,      \* the notices a replay still has to append
    slots,          \* live_subagent_count_
    agent,          \* each child's agent: "none" or "live"
    inbox,          \* items in its inbox_
    busy,           \* it is in a turn
    interrupted,    \* the turn's token is cancelled
    watchers,       \* its settle_callbacks_
    epochs,         \* epochs, by child; the number 0 stands for no entry
    opened,         \* how many epochs have been opened
    jobs,           \* the job of each epoch
    worker,         \* the detached thread of a background start
    waiter,         \* the foreground start that waits for the child
    sender,         \* each send_message
    settlers,       \* the settlements being made
    lost            \* history: the epochs that have lost what would close them,
                    \* until one is claimed or another of the child opened

daemon   == <<up, crashes>>
sessions == <<created, gone, slots>>
parent   == <<parentInbox, parentBusy, resident, wakes>>
loops    == <<agent, inbox, busy, interrupted, watchers>>
service  == <<epochs, opened, jobs>>
threads  == <<worker, waiter, sender, settlers>>
vars     == <<daemon, sessions, log, parent, replaying, loops, service, threads, lost>>

Numbers == 0..MaxEpochs
Epoch == [number : Numbers, open : BOOLEAN, expected : BOOLEAN]
NoEpoch == [number |-> 0, open |-> FALSE, expected |-> FALSE]
NoJob == [state |-> "none", child |-> None, ordinal |-> 0]
Finished == [at |-> "done", child |-> None, holds |-> FALSE]
NoWaiter == [at |-> "none", continuable |-> FALSE]

Job     == [state : {"none", "running", "settled"}, child : Children \cup {None},
            ordinal : Nat]
Waiter  == [at : {"none", "waiting", "told"}, continuable : BOOLEAN]
Sending == [at : {"new", "looking", "reading", "opening", "watching", "sending", "done"},
            child : Children \cup {None}, holds : BOOLEAN]

\* A callback registered with onSettled; due once a terminal event has come.
Watcher == [epoch : Numbers, expected : BOOLEAN, continuable : BOOLEAN,
            waits : BOOLEAN, due : BOOLEAN]

\* A settlement: by whom, for which epoch, and how far it has got.
Stages  == {"checking", "claiming", "appending", "reporting", "injecting",
            "waking", "closing"}
Settler == [child : Children, by : {"callback", "worker", "waiter"}, epoch : Numbers,
            expected : BOOLEAN, continuable : BOOLEAN, live : BOOLEAN,
            stage : Stages, job : Numbers, seen : Nat]

\* The number of a fan-in is its epoch, that of a notice its correlation's ordinal.
Record == [kind : {"fanin", "notice"}, child : Children, number : Nat, expected : BOOLEAN]
FanIn(c, e, x) == [kind |-> "fanin", child |-> c, number |-> e, expected |-> x]
Notice(c, n)   == [kind |-> "notice", child |-> c, number |-> n, expected |-> FALSE]
Item           == [child : Children, number : Nat, wakes : BOOLEAN]

TypeOK ==
    /\ up \in BOOLEAN /\ crashes \in 0..MaxCrashes
    /\ created \in SUBSET Children /\ gone \in SUBSET Children
    /\ log \in Seq(Record)
    /\ parentInbox \in Seq(Item) /\ parentBusy \in BOOLEAN /\ resident \in BOOLEAN
    /\ wakes \in Nat
    /\ replaying \in SUBSET (Children \X Nat)
    /\ slots \in Nat
    /\ agent \in [Children -> {"none", "live"}] /\ inbox \in [Children -> Nat]
    /\ busy \in [Children -> BOOLEAN] /\ interrupted \in [Children -> BOOLEAN]
    /\ watchers \in [Children -> SUBSET Watcher]
    /\ epochs \in [Children -> Epoch] /\ opened \in Numbers
    /\ jobs \in [1..MaxEpochs -> Job]
    /\ worker \in [Children -> {"none", "starting", "found", "stale"}]
    /\ waiter \in [Children -> Waiter]
    /\ sender \in [Senders -> Sending]
    /\ settlers \in SUBSET Settler
    /\ lost \in SUBSET (Children \X Numbers)

-----------------------------------------------------------------------------
(* Helpers *)

\* The fan-ins of a child in a log, and the ordinal of one: count_fanin counts
\* them, and so does the replay.
FanIns(l, c)  == {i \in DOMAIN l : l[i].kind = "fanin" /\ l[i].child = c}
Count(l, c)   == Cardinality(FanIns(l, c))
Ordinal(l, i) == Cardinality({j \in FanIns(l, l[i].child) : j <= i})

FannedIn(l, c, e) == \E i \in DOMAIN l : /\ l[i].kind = "fanin"
                                         /\ l[i].child = c /\ l[i].number = e

Noticed(l)    == {<<l[i].child, l[i].number>> : i \in {j \in DOMAIN l : l[j].kind = "notice"}}
Background(l) == {i \in DOMAIN l : l[i].kind = "fanin" /\ l[i].expected}

\* The background fan-ins that the log holds no notice of, by their ordinals.
Unreported(l) == {<<l[i].child, Ordinal(l, i)>> : i \in Background(l)} \ Noticed(l)

hasPendingWork(c) == busy[c] \/ inbox[c] > 0

\* No tool of the parent's turn is running.
ToolsIdle == /\ \A c \in Children : waiter[c].at = "none"
             /\ \A s \in settlers : s.by # "waiter"
             /\ \A t \in Senders : sender[t].at \in {"new", "done"}

\* busy(owner), of the parent.
ParentIsBusy == parentBusy \/ \E i \in DOMAIN parentInbox : parentInbox[i].wakes

\* A child's epoch, if it is open.
Current(c) == IF epochs[c].open THEN {<<c, epochs[c].number>>} ELSE {}

\* An item in a child's inbox. One that comes when the driver has looked for the
\* last time and not yet said that it stops is left there for the next call.
Accept(c) ==
    /\ inbox[c] < MaxInbox /\ inbox' = [inbox EXCEPT ![c] = @ + 1]
    /\ \/ UNCHANGED lost
       \/ ~hasPendingWork(c) /\ lost' = lost \cup Current(c)

\* A disposed agent and a full inbox refuse it; nothing else may bring a turn.
Refuse(c) ==
    /\ UNCHANGED inbox
    /\ lost' = IF hasPendingWork(c) THEN lost ELSE lost \cup Current(c)

Move(s, t) == settlers' = (settlers \ {s}) \cup {t}
Go(t, where) == sender' = [sender EXCEPT ![t].at = where]
Finish(t)    == sender' = [sender EXCEPT ![t] = Finished]

\* What those who hold a child's agent are left with when it is disposed.
SendersWithout(c)  == [t \in Senders |-> IF sender[t].child = c
                                           THEN [sender[t] EXCEPT !.holds = FALSE]
                                           ELSE sender[t]]
SettlersWithout(c, S) == {IF s.child = c THEN [s EXCEPT !.live = FALSE] ELSE s : s \in S}

\* AgentRegistry::dispose: the agent goes, with its inbox and its callbacks.
DisposeAgent(c) ==
    /\ agent' = [agent EXCEPT ![c] = "none"]
    /\ inbox' = [inbox EXCEPT ![c] = 0]
    /\ busy' = [busy EXCEPT ![c] = FALSE]
    /\ interrupted' = [interrupted EXCEPT ![c] = FALSE]
    /\ watchers' = [watchers EXCEPT ![c] = {}]
    /\ worker' = [worker EXCEPT ![c] = IF @ = "found" THEN "stale" ELSE @]
    /\ sender' = SendersWithout(c)

Init ==
    /\ up = TRUE /\ crashes = 0
    /\ created = {} /\ gone = {} /\ slots = 0
    /\ log = <<>>
    /\ parentInbox = <<>> /\ parentBusy = FALSE /\ resident = TRUE /\ wakes = 0
    /\ replaying = {}
    /\ agent = [c \in Children |-> "none"] /\ inbox = [c \in Children |-> 0]
    /\ busy = [c \in Children |-> FALSE] /\ interrupted = [c \in Children |-> FALSE]
    /\ watchers = [c \in Children |-> {}]
    /\ epochs = [c \in Children |-> NoEpoch] /\ opened = 0
    /\ jobs = [e \in 1..MaxEpochs |-> NoJob]
    /\ worker = [c \in Children |-> "none"] /\ waiter = [c \in Children |-> NoWaiter]
    /\ sender = [t \in Senders |->
                   [at |-> "new", child |-> None, holds |-> FALSE]]
    /\ settlers = {}
    /\ lost = {}

-----------------------------------------------------------------------------
(* The parent's driver *)

\* The turn of a user's message, which may have come before a queued notice; it
\* also takes back the count of wakes.
Prompt ==
    /\ up /\ resident /\ ~parentBusy
    /\ parentBusy' = TRUE /\ wakes' = 0
    /\ UNCHANGED <<daemon, sessions, log, parentInbox, resident, replaying, loops,
                   service, threads, lost>>

\* The inbox is worked off in its order: what starts no turn is folded into the
\* next one, before its trigger or at the start of a step.
TakeNotice ==
    /\ log' = Append(log, Notice(Head(parentInbox).child, Head(parentInbox).number))
    /\ parentInbox' = Tail(parentInbox)
    /\ UNCHANGED <<daemon, sessions, resident, wakes, replaying, loops, service,
                   threads, lost>>

Woken == /\ up /\ ~parentBusy /\ ParentIsBusy
         /\ TakeNotice
         /\ parentBusy' = Head(parentInbox).wakes

FoldNotice == /\ up /\ parentBusy /\ ToolsIdle
              /\ parentInbox # <<>> /\ ~Head(parentInbox).wakes
              /\ TakeNotice
              /\ UNCHANGED parentBusy

EndParentTurn ==
    /\ up /\ parentBusy /\ ToolsIdle
    /\ parentBusy' = FALSE
    /\ UNCHANGED <<daemon, sessions, log, parentInbox, resident, wakes, replaying,
                   loops, service, threads, lost>>

-----------------------------------------------------------------------------
(* Starting a child *)

\* createChild: a slot, a session and an agent, or a refusal.
CreateChild(c) ==
    /\ up /\ parentBusy /\ c \notin created /\ slots < MaxSlots
    /\ created' = created \cup {c} /\ slots' = slots + 1
    /\ agent' = [agent EXCEPT ![c] = "live"]

\* open_epoch's job and entry.
OpenEpoch(c, x) ==
    /\ opened < MaxEpochs /\ opened' = opened + 1
    /\ epochs' = [epochs EXCEPT ![c] = [number |-> opened + 1, open |-> TRUE,
                                        expected |-> x]]
    /\ jobs' = IF x THEN [jobs EXCEPT ![opened + 1] =
                            [state |-> "running", child |-> c,
                             ordinal |-> Count(log, c) + 1]]
                    ELSE jobs

Watched(c, w) == [watchers EXCEPT ![c] = @ \cup {w}]
NewWatcher(e, k) == [epoch |-> e, expected |-> TRUE, continuable |-> k,
                     waits |-> FALSE, due |-> FALSE]
WaitingWatcher(k) == [epoch |-> 0, expected |-> FALSE, continuable |-> k,
                      waits |-> TRUE, due |-> FALSE]

\* startOneShot and startContinuable in the background: no other thread knows
\* the child before its worker is detached.
StartBackground(c, k) ==
    /\ CreateChild(c) /\ OpenEpoch(c, TRUE)
    /\ watchers' = Watched(c, NewWatcher(opened + 1, k))
    /\ worker' = [worker EXCEPT ![c] = "starting"]
    /\ UNCHANGED <<daemon, gone, log, parent, replaying, inbox, busy, interrupted,
                   waiter, sender, settlers, lost>>

\* The same in the foreground: wait_for_settlement registers, sends and waits.
StartForeground(c, k) ==
    /\ CreateChild(c)
    /\ IF k THEN OpenEpoch(c, FALSE) ELSE UNCHANGED service
    /\ watchers' = Watched(c, WaitingWatcher(k))
    /\ inbox' = [inbox EXCEPT ![c] = 1]
    /\ waiter' = [waiter EXCEPT ![c] = [at |-> "waiting", continuable |-> k]]
    /\ UNCHANGED <<daemon, gone, log, parent, replaying, busy, interrupted,
                   worker, sender, settlers, lost>>

\* runBackgroundActivation: the prompt is taken and the agent looked up; when
\* there is none, settle_abandoned_activation looks at the epoch.
WorkerLooks(c) ==
    /\ up /\ worker[c] = "starting"
    /\ worker' = [worker EXCEPT ![c] = IF agent[c] = "live" THEN "found" ELSE "none"]
    /\ settlers' = IF agent[c] = "live" \/ ~epochs[c].open THEN settlers
                   ELSE settlers \cup
                     {[child |-> c, by |-> "worker", epoch |-> epochs[c].number,
                       expected |-> epochs[c].expected, continuable |-> TRUE,
                       live |-> FALSE, stage |-> "claiming", job |-> 0, seen |-> 0]}
    /\ UNCHANGED <<daemon, sessions, log, parent, replaying, loops, service, waiter,
                   sender, lost>>

\* Its send, whose result nobody reads.
WorkerSends(c) ==
    /\ up /\ worker[c] \in {"found", "stale"}
    /\ worker' = [worker EXCEPT ![c] = "none"]
    /\ IF worker[c] = "found" /\ inbox[c] < MaxInbox THEN Accept(c) ELSE Refuse(c)
    /\ UNCHANGED <<daemon, sessions, log, parent, replaying, agent, busy, interrupted,
                   watchers, service, waiter, sender, settlers>>

-----------------------------------------------------------------------------
(* The child's driver *)

BeginTurn(c) ==
    /\ up /\ agent[c] = "live" /\ ~busy[c] /\ inbox[c] > 0
    /\ inbox' = [inbox EXCEPT ![c] = @ - 1]
    /\ busy' = [busy EXCEPT ![c] = TRUE]
    /\ UNCHANGED <<daemon, sessions, log, parent, replaying, agent, interrupted,
                   watchers, service, threads, lost>>

\* A steer is folded into the turn that runs.
FoldSteer(c) ==
    /\ up /\ busy[c] /\ inbox[c] > 0
    /\ inbox' = [inbox EXCEPT ![c] = @ - 1]
    /\ UNCHANGED <<daemon, sessions, log, parent, replaying, agent, busy, interrupted,
                   watchers, service, threads, lost>>

\* noteTerminal. A turn whose tools were cancelled ends without it.
EndTurn(c) ==
    /\ up /\ busy[c]
    /\ busy' = [busy EXCEPT ![c] = FALSE]
    /\ interrupted' = [interrupted EXCEPT ![c] = FALSE]
    /\ \/ /\ watchers' = [watchers EXCEPT ![c] = {[w EXCEPT !.due = TRUE] : w \in @}]
          /\ UNCHANGED lost
       \/ /\ interrupted[c] /\ UNCHANGED watchers
          /\ lost' = IF inbox[c] > 0 THEN lost ELSE lost \cup Current(c)
    /\ UNCHANGED <<daemon, sessions, log, parent, replaying, agent, inbox, service,
                   threads>>

\* flushSettleCallbacks
Flush(c) ==
    LET due == {w \in watchers[c] : w.due} IN
    /\ up /\ agent[c] = "live" /\ ~hasPendingWork(c) /\ due # {}
    /\ watchers' = [watchers EXCEPT ![c] = @ \ due]
    /\ settlers' = settlers \cup
         {[child |-> c, by |-> "callback", epoch |-> w.epoch, expected |-> w.expected,
           continuable |-> w.continuable, live |-> FALSE, stage |-> "checking",
           job |-> 0, seen |-> 0] : w \in {v \in due : ~v.waits}}
    /\ waiter' = [waiter EXCEPT ![c].at =
                    IF @ = "waiting" /\ \E w \in due : w.waits THEN "told" ELSE @]
    /\ UNCHANGED <<daemon, sessions, log, parent, replaying, agent, inbox, busy,
                   interrupted, service, worker, sender, lost>>

-----------------------------------------------------------------------------
(* The parent's tools: send_message, interrupt_agent, job_kill *)

Send(t, c) ==
    /\ up /\ parentBusy /\ sender[t].at = "new" /\ c \in created
    /\ sender' = [sender EXCEPT ![t] = [at |-> "looking", child |-> c, holds |-> FALSE]]
    /\ UNCHANGED <<daemon, sessions, log, parent, replaying, loops, service, worker,
                   waiter, settlers, lost>>

\* The target's agent, brought back when it is not resident.
LookUp(t) ==
    LET c == sender[t].child IN
    /\ up /\ sender[t].at = "looking"
    /\ IF agent[c] = "none" /\ c \in gone
         THEN Finish(t) /\ UNCHANGED agent
         ELSE /\ agent' = [agent EXCEPT ![c] = "live"]
              /\ sender' = [sender EXCEPT ![t].at = "reading", ![t].holds = TRUE]
    /\ UNCHANGED <<daemon, sessions, log, parent, replaying, inbox, busy, interrupted,
                   watchers, service, worker, waiter, settlers, lost>>

ReadEpoch(t) ==
    /\ up /\ sender[t].at = "reading"
    /\ Go(t, IF epochs[sender[t].child].open THEN "sending" ELSE "opening")
    /\ UNCHANGED <<daemon, sessions, log, parent, replaying, loops, service, worker,
                   waiter, settlers, lost>>

\* open_epoch, over whatever entry there is by now, an open one too.
Open(t) ==
    /\ up /\ sender[t].at = "opening"
    /\ OpenEpoch(sender[t].child, TRUE)
    /\ lost' = {p \in lost : p[1] # sender[t].child} \cup Current(sender[t].child)
    /\ Go(t, "watching")
    /\ UNCHANGED <<daemon, sessions, log, parent, replaying, loops, worker, waiter,
                   settlers>>

\* watch_settlement, which looks the agent up again.
Watch(t) ==
    LET c == sender[t].child IN
    /\ up /\ sender[t].at = "watching"
    /\ IF agent[c] = "live"
         THEN /\ watchers' = Watched(c, NewWatcher(epochs[c].number, TRUE))
              /\ UNCHANGED lost
         ELSE UNCHANGED watchers /\ lost' = lost \cup Current(c)
    /\ Go(t, "sending")
    /\ UNCHANGED <<daemon, sessions, log, parent, replaying, agent, inbox, busy,
                   interrupted, service, worker, waiter, settlers>>

\* The steer or followup; the epoch stays as it is when the message is refused.
Deliver(t) ==
    LET c == sender[t].child IN
    /\ up /\ sender[t].at = "sending"
    /\ IF sender[t].holds /\ inbox[c] < MaxInbox THEN Accept(c) ELSE Refuse(c)
    /\ Finish(t)
    /\ UNCHANGED <<daemon, sessions, log, parent, replaying, agent, busy, interrupted,
                   watchers, service, worker, waiter, settlers>>

\* cancel, by a tool or a client that watches the child.
Interrupt(c) ==
    /\ up /\ busy[c]
    /\ interrupted' = [interrupted EXCEPT ![c] = TRUE]
    /\ UNCHANGED <<daemon, sessions, log, parent, replaying, agent, inbox, busy,
                   watchers, service, threads, lost>>

\* JobRegistry::kill: cancel, and a settlement marked as reported, of which the
\* listener says nothing.
Kill(e) ==
    LET c == jobs[e].child IN
    /\ Kills /\ up /\ parentBusy /\ jobs[e].state = "running"
    /\ interrupted' = [interrupted EXCEPT ![c] = @ \/ busy[c]]
    /\ jobs' = [jobs EXCEPT ![e].state = "settled"]
    /\ UNCHANGED <<daemon, sessions, log, parent, replaying, agent, inbox, busy,
                   watchers, epochs, opened, threads, lost>>

-----------------------------------------------------------------------------
(* Settlements *)

\* The callback of watch_settlement, which forgets to register again.
CheckOnce(s) ==
    /\ up /\ s \in settlers /\ s.stage = "checking"
    /\ settlers' = IF agent[s.child] = "live" /\ hasPendingWork(s.child)
                     THEN settlers \ {s}
                     ELSE (settlers \ {s}) \cup
                            {[s EXCEPT !.stage = "claiming", !.live = agent[s.child] = "live"]}
    /\ UNCHANGED <<daemon, sessions, log, parent, replaying, loops, service, worker,
                   waiter, sender, lost>>

\* The callback of watch_settlement goes back to sleep when there is more to do.
Check(s) ==
    /\ up /\ s \in settlers /\ s.stage = "checking"
    /\ IF agent[s.child] = "live" /\ hasPendingWork(s.child)
         THEN /\ watchers' = Watched(s.child, NewWatcher(s.epoch, s.continuable))
              /\ settlers' = settlers \ {s}
         ELSE /\ Move(s, [s EXCEPT !.stage = "claiming", !.live = agent[s.child] = "live"])
              /\ UNCHANGED watchers
    /\ UNCHANGED <<daemon, sessions, log, parent, replaying, agent, inbox, busy,
                   interrupted, service, worker, waiter, sender, lost>>

\* A foreground start whose child has settled, or that has waited long enough:
\* settle_failed_await disposes the child whatever its mode.
StopWaiting(c, k) ==
    /\ waiter' = [waiter EXCEPT ![c] = NoWaiter]
    /\ settlers' = settlers \cup
         {[child |-> c, by |-> "waiter", epoch |-> 0, expected |-> FALSE,
           continuable |-> k, live |-> agent[c] = "live", stage |-> "claiming",
           job |-> 0, seen |-> 0]}
    /\ UNCHANGED <<daemon, sessions, log, parent, replaying, loops, service, worker,
                   sender, lost>>

Told(c)     == up /\ waiter[c].at = "told" /\ StopWaiting(c, waiter[c].continuable)
TimesOut(c) == up /\ waiter[c].at = "waiting" /\ StopWaiting(c, FALSE)

\* settle_epoch, were the entry closed only after the append.
ClaimOpenly(s) ==
    /\ up /\ s \in settlers /\ s.stage = "claiming"
    /\ LET e == epochs[s.child] IN
       IF e.number # 0 /\ ~e.open
         THEN Move(s, [s EXCEPT !.stage = "closing"])
         ELSE Move(s, [s EXCEPT !.stage = "appending", !.epoch = e.number,
                                !.job = IF e.expected THEN e.number ELSE 0])
    /\ UNCHANGED <<daemon, sessions, log, parent, replaying, loops, service,
                   worker, waiter, sender, lost>>

\* settle_epoch claims the entry, if there is one, and with it its job.
Claim(s) ==
    /\ up /\ s \in settlers /\ s.stage = "claiming"
    /\ LET e == epochs[s.child] IN
       \/ /\ e.number # 0 /\ ~e.open
          /\ Move(s, [s EXCEPT !.stage = "closing"]) /\ UNCHANGED <<epochs, lost>>
       \/ /\ e.number # 0 => e.open
          /\ epochs' = [epochs EXCEPT ![s.child].open = FALSE]
          /\ lost' = lost \ Current(s.child)
          /\ Move(s, [s EXCEPT !.stage = "appending", !.epoch = e.number,
                               !.job = IF e.expected THEN e.number ELSE 0])
    /\ UNCHANGED <<daemon, sessions, log, parent, replaying, loops, opened, jobs,
                   worker, waiter, sender>>

\* The append, were its failure swallowed as append_spawned's is.
AppendFanInQuietly(s) ==
    /\ up /\ s \in settlers /\ s.stage = "appending"
    /\ log' \in {log, Append(log, FanIn(s.child, s.epoch, s.expected))}
    /\ Move(s, [s EXCEPT !.stage = IF s.job = 0 THEN "closing" ELSE "reporting"])
    /\ UNCHANGED <<daemon, sessions, parent, replaying, loops, service, worker, waiter,
                   sender, lost>>

AppendFanIn(s) ==
    /\ up /\ s \in settlers /\ s.stage = "appending"
    /\ log' = Append(log, FanIn(s.child, s.epoch, s.expected))
    /\ Move(s, [s EXCEPT !.stage = IF s.job = 0 THEN "closing" ELSE "reporting"])
    /\ UNCHANGED <<daemon, sessions, parent, replaying, loops, service, worker, waiter,
                   sender, lost>>

\* The append throws: the claim is not taken back, the job not settled, and of a
\* flush the callbacks after this one are skipped. A tool of the parent catches it;
\* in any other thread it ends the daemon (Crash).
AppendFails(s) ==
    /\ up /\ s \in settlers /\ s.stage = "appending" /\ s.by # "worker"
    /\ \E skipped \in SUBSET {r \in settlers : /\ s.by = "callback" /\ r.by = "callback"
                                               /\ r.child = s.child /\ r.epoch <= s.epoch
                                               /\ r.stage = "checking"} :
         settlers' = settlers \ (skipped \cup {s})
    /\ lost' = lost \cup {<<s.child, s.epoch>>}
    /\ UNCHANGED <<daemon, sessions, log, parent, replaying, loops, service, worker, waiter,
                   sender>>

\* JobRegistry::settle, the first time, tells the wakeup policy, which looks at
\* the parent's agent and at the count of wakes.
Report(s) ==
    /\ up /\ s \in settlers /\ s.stage = "reporting"
    /\ jobs' = [jobs EXCEPT ![s.job].state = "settled"]
    /\ Move(s, [s EXCEPT !.stage = IF jobs[s.job].state = "settled" \/ ~resident THEN "closing"
                                   ELSE IF ParentIsBusy \/ wakes >= MaxWakes THEN "injecting"
                                   ELSE "waking",
                         !.seen = wakes])
    /\ UNCHANGED <<daemon, sessions, log, parent, replaying, loops, epochs, opened,
                   worker, waiter, sender, lost>>

\* The inject or the followup; a full inbox refuses both.
Announce(s) ==
    /\ up /\ s \in settlers /\ s.stage \in {"injecting", "waking"}
    /\ IF Len(parentInbox) < MaxInbox
         THEN /\ parentInbox' = Append(parentInbox,
                   [child |-> s.child, number |-> jobs[s.job].ordinal,
                    wakes |-> s.stage = "waking"])
              /\ wakes' = IF s.stage = "waking" THEN s.seen + 1 ELSE wakes
         ELSE UNCHANGED <<parentInbox, wakes>>
    /\ Move(s, [s EXCEPT !.stage = "closing"])
    /\ UNCHANGED <<daemon, sessions, log, parentBusy, resident, replaying, loops,
                   service, worker, waiter, sender, lost>>

\* A one-shot child is disposed, with whatever it was given meanwhile.
Close(s) ==
    LET c == s.child IN
    /\ up /\ s \in settlers /\ s.stage = "closing"
    /\ IF ~s.continuable /\ s.live
         THEN /\ DisposeAgent(c)
              /\ settlers' = SettlersWithout(c, settlers \ {s})
              /\ lost' = lost \cup Current(c)
         ELSE /\ settlers' = settlers \ {s}
              /\ UNCHANGED <<loops, worker, sender, lost>>
    /\ UNCHANGED <<daemon, sessions, log, parent, replaying, service, waiter>>

-----------------------------------------------------------------------------
(* Clients, crashes and the replay *)

\* deleteSession of a child's session, refused while its agent has work.
Delete(c) ==
    /\ up /\ c \in created \ gone /\ ~hasPendingWork(c)
    /\ gone' = gone \cup {c}
    /\ DisposeAgent(c)
    /\ settlers' = SettlersWithout(c, settlers)
    /\ lost' = lost \cup Current(c)
    /\ UNCHANGED <<daemon, created, slots, log, parent, replaying, service, waiter>>

\* A resume that replays only for a parent that was not resident.
ResumeResident ==
    /\ Resumes /\ up /\ replaying = {}
    /\ resident' = TRUE
    /\ replaying' = IF resident THEN {} ELSE Unreported(log)
    /\ UNCHANGED <<daemon, sessions, log, parentInbox, parentBusy, wakes, loops,
                   service, threads, lost>>

\* session.resume, or a prompt to a session that is not resident.
Resume ==
    /\ Resumes /\ up /\ replaying = {}
    /\ resident' = TRUE
    /\ replaying' = Unreported(log)
    /\ UNCHANGED <<daemon, sessions, log, parentInbox, parentBusy, wakes, loops,
                   service, threads, lost>>

\* One append of replayUnreportedSettlements, from the list made at its start.
Replay ==
    /\ up
    /\ \E p \in replaying : /\ log' = Append(log, Notice(p[1], p[2]))
                            /\ replaying' = replaying \ {p}
    /\ UNCHANGED <<daemon, sessions, parent, loops, service, threads, lost>>

Crash ==
    /\ up /\ crashes < MaxCrashes
    /\ up' = FALSE /\ crashes' = crashes + 1
    /\ slots' = 0
    /\ parentInbox' = <<>> /\ parentBusy' = FALSE /\ resident' = FALSE /\ wakes' = 0
    /\ replaying' = {}
    /\ agent' = [c \in Children |-> "none"] /\ inbox' = [c \in Children |-> 0]
    /\ busy' = [c \in Children |-> FALSE] /\ interrupted' = [c \in Children |-> FALSE]
    /\ watchers' = [c \in Children |-> {}]
    /\ epochs' = [c \in Children |-> NoEpoch]
    /\ jobs' = [e \in DOMAIN jobs |-> NoJob]
    /\ worker' = [c \in Children |-> "none"] /\ waiter' = [c \in Children |-> NoWaiter]
    /\ sender' = [t \in Senders |-> IF sender[t].at = "new" THEN sender[t]
                                    ELSE Finished]
    /\ settlers' = {}
    /\ lost' = {}
    /\ UNCHANGED <<created, gone, log, opened>>

\* The next daemon replays before it serves anybody.
Restart ==
    /\ ~up /\ up' = TRUE
    /\ replaying' = Unreported(log)
    /\ UNCHANGED <<crashes, sessions, log, parent, loops, service, threads, lost>>

-----------------------------------------------------------------------------
Settlement(s) == \/ Check(s) \/ Claim(s) \/ AppendFanIn(s) \/ Report(s)
                 \/ Announce(s) \/ Close(s)

SendMessage(t) == LookUp(t) \/ ReadEpoch(t) \/ Open(t) \/ Watch(t) \/ Deliver(t)

Child(c) == BeginTurn(c) \/ FoldSteer(c) \/ EndTurn(c) \/ Flush(c)

Next ==
    \/ Prompt \/ Woken \/ FoldNotice \/ EndParentTurn
    \/ \E c \in Children :
         \/ \E k \in BOOLEAN : StartBackground(c, k) \/ StartForeground(c, k)
         \/ WorkerLooks(c) \/ WorkerSends(c) \/ Child(c)
         \/ Told(c) \/ TimesOut(c)
         \/ Interrupt(c) \/ Delete(c)
         \/ \E t \in Senders : Send(t, c)
    \/ \E t \in Senders : SendMessage(t)
    \/ \E e \in 1..MaxEpochs : Kill(e)
    \/ \E s \in settlers : Settlement(s) \/ AppendFails(s)
    \/ Resume \/ Replay \/ Crash \/ Restart

Spec == Init /\ [][Next]_vars

\* What goes on by itself: threads run, turns end, waits end, a daemon is started
\* again and the parent's session resumed. A turn is counted on only for an epoch
\* that has not lost it: nobody works off a stranded item.
Threads ==
    \/ \E c \in Children :
         \/ WorkerLooks(c) \/ WorkerSends(c) \/ Told(c) \/ TimesOut(c)
         \/ Current(c) \ lost # {} /\ BeginTurn(c)
         \/ EndTurn(c) \/ Flush(c)
    \/ \E t \in Senders : SendMessage(t)
    \/ \E s \in settlers : Settlement(s)
    \/ Resume \/ Replay \/ Restart

FairSpec == Spec /\ WF_vars(Threads)

-----------------------------------------------------------------------------
(* Properties *)

(***************************************************************************)
(* "claim the epoch before appending, so a second settle cannot append a   *)
(* second terminal SubagentFanIn" (subagent_service.cpp:505-508): however  *)
(* callbacks, abandoned workers, foreground waits, overlapping epochs and  *)
(* crashes mix, the parent's log holds one fan-in per epoch of a child,    *)
(* and one for a foreground run that opened none (number 0).               *)
(***************************************************************************)
OneFanInPerEpoch ==
    \A i, j \in DOMAIN log :
        /\ log[i].kind = "fanin" /\ log[j].kind = "fanin"
        /\ log[i].child = log[j].child /\ log[i].number = log[j].number
        => i = j

(***************************************************************************)
(* A notice names the n-th fan-in of its child, and in the parent's log it *)
(* comes after that fan-in, whether a live notice or the replay brought it *)
(* (subagent_service.cpp:527 before :538): the replay counts on the order. *)
(***************************************************************************)
NoticeFollowsFanIn ==
    \A i \in DOMAIN log :
        log[i].kind = "notice" => log[i].number \in 1..Ordinal(log, i)

(***************************************************************************)
(* No notice is lost for good: a background fan-in in the parent's log     *)
(* gets its notice, though an inbox was full, a daemon crashed between the *)
(* two, a job was killed or a notice waited in an inbox nobody works off   *)
(* (workspace_runtime.hpp:228-239).                                        *)
(***************************************************************************)
Expected(c, n) == \E i \in Background(log) : log[i].child = c /\ Ordinal(log, i) = n

EveryFanInNoticed ==
    \A c \in Children, n \in 1..MaxEpochs :
        Expected(c, n) ~> (<<c, n>> \in Noticed(log))

=============================================================================
