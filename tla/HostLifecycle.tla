--------------------------- MODULE HostLifecycle ---------------------------
(***************************************************************************)
(* The life of a workspace's daemon, between the processes that start it   *)
(* and the files by which they find it: the sidecar lock `sessions.lock`,  *)
(* the claim in the registry's workspace row, the socket at `host.sock`.   *)
(* WorkspaceHost takes the lock, binds, claims, serves and gives them back *)
(* (workspace_host.cpp, transport_server.cpp); HostLifecycle in a          *)
(* supervisor attaches to the claimed daemon, or reaps a stale claim and   *)
(* spawns another (workspace_host.cpp, registry.cpp); the owner watchdog   *)
(* ends a daemon that nobody owns.                                         *)
(*                                                                         *)
(* One workspace. A daemon is named by its boot id; one that has exited    *)
(* and that nothing refers to any more may be used again for a later boot. *)
(***************************************************************************)
EXTENDS Integers, FiniteSets

CONSTANTS Daemons,       \* boots
          Supervisors,   \* supervisor processes
          ReusesInodes,  \* whether it may give a freed number to the next file
          Prober,        \* a scanner or doctor that probes the lock beside them
          NoOne,         \* nobody
          MaxFaults      \* faults a behaviour may hold (see Fault)

ASSUME ProcessesAssumption ==
    /\ NoOne \notin Daemons \cup Supervisors \cup {Prober}
    /\ Daemons \cap Supervisors = {} /\ Prober \notin Daemons \cup Supervisors
ASSUME FaultsAssumption == MaxFaults \in Nat /\ ReusesInodes \in BOOLEAN

VARIABLES
    pc,        \* where each daemon is
    busy,      \* daemons that exited with WorkspaceBusy
    inode,     \* own_socket_inode_ of each daemon
    term,      \* daemons with a SIGTERM queued in their signal_set
    armed,     \* escalation_armed_ of each daemon's watchdog
    stuck,     \* daemons whose coordinator hangs
    flock,     \* who holds sessions.lock
    claim,     \* host_boot_id of the workspace row
    reg,       \* who holds the registry's lock
    path,      \* whose socket file is at host.sock
    sup,       \* where each supervisor's ensureRunning is
    seen,      \* the claim it goes by
    child,     \* the daemon it spawned
    row,       \* owners: supervisors with a fresh row or a live connection
    alive,     \* supervisors that run
    faults     \* counter of the bound

daemonVars == <<pc, busy, inode, term, armed, stuck>>
fileVars   == <<flock, claim, reg, path>>
supVars    == <<sup, seen, child, row, alive>>
hostState == <<daemonVars, fileVars, supVars, faults>>

HostInit ==
    /\ pc = [d \in Daemons |-> "none"] /\ busy = {}
    /\ inode = [d \in Daemons |-> NoOne] /\ term = {} /\ armed = {} /\ stuck = {}
    /\ flock = NoOne /\ claim = NoOne /\ reg = NoOne /\ path = NoOne
    /\ sup = [s \in Supervisors |-> "idle"] /\ seen = [s \in Supervisors |-> NoOne]
    /\ child = [s \in Supervisors |-> NoOne]
    /\ row = Supervisors /\ alive = Supervisors /\ faults = 0

Fault == faults < MaxFaults /\ faults' = faults + 1

Move(d, from, to) == pc[d] = from /\ pc' = [pc EXCEPT ![d] = to]

-----------------------------------------------------------------------------
(* The daemon: startup.                                                    *)

\* WorkspaceRuntime::create opens the store, which takes the lock or fails.
TakeLock(d) ==
    /\ IF flock = NoOne
       THEN Move(d, "starting", "locked") /\ flock' = d /\ UNCHANGED busy
       ELSE Move(d, "starting", "exited") /\ busy' = busy \cup {d} /\ UNCHANGED flock
    /\ UNCHANGED <<inode, term, armed, stuck, claim, reg, path, supVars, faults>>

(***************************************************************************)
(* The signal_set is made; TransportServer::start unlinks what a dead      *)
(* daemon left at the path (a live one would hold the lock) and binds; the *)
(* new file's inode number is remembered. A file system that never gives a *)
(* number twice gives each daemon one of its own, here its name.           *)
(***************************************************************************)
Bind(d) ==
    /\ Move(d, "locked", "bound")
    /\ path' = d
    /\ \E n \in IF ReusesInodes THEN Daemons ELSE {d} : inode' = [inode EXCEPT ![d] = n]
    /\ UNCHANGED <<busy, term, armed, stuck, flock, claim, reg, supVars, faults>>

\* claimHost, under the registry's lock.
ClaimHost(d) ==
    /\ Move(d, "bound", "claimed")
    /\ reg = NoOne /\ claim' = d
    /\ UNCHANGED <<busy, inode, term, armed, stuck, flock, reg, path, supVars, faults>>

\* Signals, heartbeat and watchdog are armed; hello is answered from now on.
Serve(d) ==
    /\ Move(d, "claimed", "serving")
    /\ UNCHANGED <<busy, inode, term, armed, stuck, fileVars, supVars, faults>>

-----------------------------------------------------------------------------
(* The daemon: shutdown.                                                   *)

Drain(d) == Move(d, "serving", "draining")

\* The queued signal reaches its handler.
HandleSignal(d) ==
    /\ d \in term /\ Drain(d)
    /\ UNCHANGED <<busy, inode, term, armed, stuck, fileVars, supVars, faults>>

\* A watchdog that asks for the shutdown and arms no escalation.
WatchdogOnlyAsks(d) ==
    /\ row = {} /\ Drain(d)
    /\ UNCHANGED <<busy, inode, term, armed, stuck, fileVars, supVars, faults>>

(***************************************************************************)
(* One tick of the owner watchdog, which runs until the coordinator joins  *)
(* it: a fresh supervisor row disarms it; none for owner_grace asks for    *)
(* the shutdown and arms the escalation.                                   *)
(***************************************************************************)
WatchdogTick(d) ==
    /\ pc[d] \in {"serving", "draining"}
    /\ IF row # {}
       THEN d \in armed /\ armed' = armed \ {d} /\ UNCHANGED pc
       ELSE d \notin armed /\ armed' = armed \cup {d} /\ pc' = [pc EXCEPT ![d] = "draining"]
    /\ UNCHANGED <<busy, inode, term, stuck, fileVars, supVars, faults>>

\* A process is gone: the kernel drops its lock; the claim and the socket
\* file stay.
Dead(d) ==
    /\ pc' = [pc EXCEPT ![d] = "exited"]
    /\ flock' = IF flock = d THEN NoOne ELSE flock
    /\ term' = term \ {d} /\ armed' = armed \ {d} /\ stuck' = stuck \ {d}

\* The deadline after an armed escalation passes with the coordinator stuck.
Escalate(d) ==
    /\ pc[d] = "draining" /\ d \in stuck /\ d \in armed
    /\ Dead(d)
    /\ UNCHANGED <<busy, inode, claim, reg, path, supVars, faults>>

\* finalizeAll, denyAll, drain and shutdownChildren; the watchdog is joined.
Drained(d) ==
    /\ d \notin stuck /\ Move(d, "draining", "drained")
    /\ UNCHANGED <<busy, inode, term, armed, stuck, fileVars, supVars, faults>>

\* unlinkSocketIfOwned, and the same test in TransportServer::stop; and an
\* unlink that does not look whose file it is.
UnlinkAny(d)   == path' = NoOne
UnlinkOwned(d) == path' = IF /\ path # NoOne /\ inode[d] # NoOne
                             /\ inode[path] = inode[d]
                          THEN NoOne ELSE path

(***************************************************************************)
(* TransportServer::stop; after a failed startup this is the last unlink   *)
(* (cleanupStartupFailure).                                                *)
(***************************************************************************)
StopTransport(d) ==
    /\ \/ Move(d, "drained", "unbound") /\ UNCHANGED inode
       \/ Move(d, "failing", "unbound") /\ inode' = [inode EXCEPT ![d] = NoOne]
    /\ UnlinkOwned(d)
    /\ UNCHANGED <<busy, term, armed, stuck, flock, claim, reg, supVars, faults>>

\* SessionPersistence::close.
ClosePersistence(d) ==
    /\ Move(d, "unbound", "closed")
    /\ flock' = IF flock = d THEN NoOne ELSE flock
    /\ UNCHANGED <<busy, inode, term, armed, stuck, claim, reg, path, supVars, faults>>

\* releaseHost clears the claim of this boot only.
ReleaseHost(d) ==
    /\ Move(d, "closed", "released")
    /\ reg = NoOne /\ claim' = IF claim = d THEN NoOne ELSE claim
    /\ UNCHANGED <<busy, inode, term, armed, stuck, flock, reg, path, supVars, faults>>

\* The last unlinkSocketIfOwned, and the process ends.
Stopped(d) ==
    /\ pc[d] = "released" /\ UnlinkOwned(d) /\ Dead(d)
    /\ UNCHANGED <<busy, inode, claim, reg, supVars, faults>>

-----------------------------------------------------------------------------
(* What can go wrong with a daemon.                                        *)

\* host.shutdown, or a signal from outside.
Stop(d) ==
    /\ Fault /\ Drain(d)
    /\ UNCHANGED <<busy, inode, term, armed, stuck, fileVars, supVars>>

HostCrash(d) ==
    /\ Fault /\ pc[d] \notin {"none", "exited"} /\ Dead(d)
    /\ UNCHANGED <<busy, inode, claim, reg, path, supVars>>

\* A step of the startup fails.
StartupFails(d) ==
    /\ Fault
    /\ pc[d] \in {"starting", "locked", "bound", "claimed"}
    /\ pc' = [pc EXCEPT ![d] = "failing"]
    /\ UNCHANGED <<busy, inode, term, armed, stuck, fileVars, supVars>>

\* The coordinator hangs before it joins the watchdog.
Hang(d) ==
    /\ Fault /\ pc[d] = "draining" /\ stuck' = stuck \cup {d}
    /\ UNCHANGED <<pc, busy, inode, term, armed, fileVars, supVars>>

\* TurnExecutor::drain runs out of its grace: unlink and _Exit.
DrainTimesOut(d) ==
    /\ Fault /\ pc[d] = "draining" /\ d \notin stuck
    /\ UnlinkOwned(d) /\ Dead(d)
    /\ UNCHANGED <<busy, inode, claim, reg, supVars>>

-----------------------------------------------------------------------------
(* The supervisor: ensureRunning.                                          *)

Goes(s, from, to) == s \in alive /\ sup[s] = from /\ sup' = [sup EXCEPT ![s] = to]

\* hello is answered by the daemon whose file is at the path, if it serves.
Answers(d) == path = d /\ pc[d] = "serving"

\* The workspace row is read once.
EnsureRunning(s) ==
    /\ Goes(s, "idle", IF claim = NoOne THEN "spawning" ELSE "probing")
    /\ seen' = [seen EXCEPT ![s] = claim]
    /\ UNCHANGED <<daemonVars, fileVars, child, row, alive, faults>>

(***************************************************************************)
(* probeWorkspaceLock takes a lock that nobody holds, for a moment. It is  *)
(* called by probeLive, by probeLiveness in reapIfStale and, under the     *)
(* registry's lock, by reapHost.                                           *)
(***************************************************************************)
Probe(s, from, free, held) ==
    \/ flock = NoOne /\ flock' = s /\ Goes(s, from, free)
    \/ flock # NoOne /\ flock # s /\ Goes(s, from, held) /\ UNCHANGED flock

ProbeLive(s) ==
    /\ Probe(s, "probing", "stale", "connecting")
    /\ UNCHANGED <<daemonVars, claim, reg, path, seen, child, row, alive, faults>>

\* The lock is held: connect_checked against the claim that was read. Any
\* failure ends this attempt.
ConnectChecked(s) ==
    /\ Goes(s, "connecting", IF Answers(seen[s]) THEN "attached" ELSE "idle")
    /\ UNCHANGED <<daemonVars, fileVars, seen, child, row, alive, faults>>

\* The probe's LOCK_UN.
ReleaseProbe(s) ==
    /\ \/ Goes(s, "stale", "checking")
       \/ Goes(s, "checked", "reaping")
       \/ Goes(s, "clearing", "updating")
    /\ flock' = IF flock = s THEN NoOne ELSE flock
    /\ UNCHANGED <<daemonVars, claim, reg, path, seen, child, row, alive, faults>>

\* An ensureRunning that goes on without the reap.
ReapNothing(s) ==
    /\ Goes(s, "checking", "spawning")
    /\ UNCHANGED <<daemonVars, fileVars, seen, child, row, alive, faults>>

\* reapIfStale: probeLiveness of the row as it is now. Whatever the answer,
\* ensureRunning goes on to spawn.
ReapIfStale(s) ==
    /\ \/ claim = NoOne /\ Goes(s, "checking", "spawning") /\ UNCHANGED flock
       \/ claim # NoOne /\ Probe(s, "checking", "checked", "spawning")
    /\ UNCHANGED <<daemonVars, claim, reg, path, seen, child, row, alive, faults>>

\* reapHost, which trusts the probe made before it took the registry's lock.
ReapUnprobed(s) ==
    /\ reg = NoOne
    /\ Goes(s, "reaping", "spawning")
    /\ claim' = NoOne
    /\ UNCHANGED <<daemonVars, flock, reg, path, seen, child, row, alive, faults>>

\* reapHost: under the registry's lock the row is read and the lock probed again.
ReapHost(s) ==
    /\ reg = NoOne
    /\ \/ /\ claim = NoOne \/ flock # NoOne
          /\ Goes(s, "reaping", "spawning") /\ UNCHANGED <<flock, reg, seen>>
       \/ /\ claim # NoOne /\ flock = NoOne
          /\ Goes(s, "reaping", "clearing") /\ flock' = s /\ reg' = s
          /\ seen' = [seen EXCEPT ![s] = claim]
    /\ UNCHANGED <<daemonVars, claim, path, child, row, alive, faults>>

\* ... and the claim that was read is cleared.
ClearClaim(s) ==
    /\ Goes(s, "updating", "spawning")
    /\ claim' = IF claim = seen[s] THEN NoOne ELSE claim
    /\ reg' = NoOne
    /\ UNCHANGED <<daemonVars, flock, path, seen, child, row, alive, faults>>

\* A boot id nothing refers to, save a socket file left behind.
New(d) == \/ pc[d] = "none"
          \/ /\ pc[d] = "exited" /\ d # claim
             /\ \A s \in alive : d # child[s] /\ (d # seen[s] \/ sup[s] = "spawning")

Spawn(s) ==
    /\ Goes(s, "spawning", "awaiting")
    /\ \E d \in Daemons :
        /\ New(d)
        /\ pc' = [pc EXCEPT ![d] = "starting"] /\ busy' = busy \ {d}
        /\ inode' = [inode EXCEPT ![d] = NoOne]
        /\ child' = [child EXCEPT ![s] = d]
    /\ seen' = [seen EXCEPT ![s] = NoOne]
    /\ UNCHANGED <<term, armed, stuck, fileVars, row, alive, faults>>

Attach(s, from, d) ==
    /\ Goes(s, from, "attached") /\ Answers(d)
    /\ seen' = [seen EXCEPT ![s] = d] /\ child' = [child EXCEPT ![s] = NoOne]
    /\ UNCHANGED <<daemonVars, fileVars, row, alive, faults>>

\* spawnAndAttach: the claim is ours and the daemon answers.
AwaitReady(s) == claim = child[s] /\ Attach(s, "awaiting", child[s])

\* tryReap: only a WorkspaceBusy is taken for a lost race.
ChildExited(s) ==
    /\ sup[s] = "awaiting" /\ pc[child[s]] = "exited"
    /\ Goes(s, "awaiting", IF child[s] \in busy THEN "winner" ELSE "idle")
    /\ child' = [child EXCEPT ![s] = NoOne]
    /\ UNCHANGED <<daemonVars, fileVars, seen, row, alive, faults>>

\* SIGTERM: deadly until the signal_set exists, queued in it until it is
\* armed, and nothing to a daemon that already shuts down.
Terminate(d) ==
    \/ pc[d] \in {"starting", "locked"} /\ Dead(d)
    \/ /\ pc[d] \in {"locked", "bound", "claimed", "serving"} /\ term' = term \cup {d}
       /\ UNCHANGED <<pc, armed, stuck, flock>>
    \/ /\ pc[d] \notin {"starting", "locked", "bound", "claimed", "serving"}
       /\ UNCHANGED <<pc, term, armed, stuck, flock>>

\* The claim is another daemon's, or the readiness budget is spent: the child
\* is told to stop, and whoever holds the claim is waited for.
GiveUpChild(s) ==
    /\ Goes(s, "awaiting", "winner")
    /\ Terminate(child[s])
    /\ child' = [child EXCEPT ![s] = NoOne]
    /\ UNCHANGED <<busy, inode, claim, reg, path, seen, row, alive>>

OtherClaim(s)       == claim \notin {NoOne, child[s]} /\ GiveUpChild(s) /\ UNCHANGED faults
ReadinessTimeout(s) == Fault /\ GiveUpChild(s)

\* The winner answers, or its budget is spent. The budget is longer than what
\* daemons still have to do, unless a fault makes it too short.
Settled == \A d \in Daemons : pc[d] \in {"none", "serving", "exited"} \/ d \in stuck
WinnerAttach(s) == claim # NoOne /\ Attach(s, "winner", claim)
WinnerTimeout(s) ==
    /\ Goes(s, "winner", "idle")
    /\ \/ Settled /\ UNCHANGED faults
       \/ ~Settled /\ Fault
    /\ UNCHANGED <<daemonVars, fileVars, seen, child, row, alive>>

\* The scanner finds the claim gone, or its lock free.
LoseHost(s) ==
    /\ sup[s] = "attached" /\ pc[seen[s]] # "serving"
    /\ Goes(s, "attached", "idle")
    /\ seen' = [seen EXCEPT ![s] = NoOne]
    /\ UNCHANGED <<daemonVars, fileVars, child, row, alive, faults>>

-----------------------------------------------------------------------------
(* Presence, and the others.                                               *)

\* A supervisor quits or dies: its locks go at once, its row now or by its TTL.
Die(s) ==
    /\ s \in alive /\ alive' = alive \ {s}
    /\ sup' = [sup EXCEPT ![s] = "idle"] /\ seen' = [seen EXCEPT ![s] = NoOne]
    /\ child' = [child EXCEPT ![s] = NoOne]
    /\ flock' = IF flock = s THEN NoOne ELSE flock
    /\ reg' = IF reg = s THEN NoOne ELSE reg
    /\ UNCHANGED <<daemonVars, claim, path, row, faults>>

ExpireRow(s) ==
    /\ s \in row \ alive /\ row' = row \ {s}
    /\ UNCHANGED <<daemonVars, fileVars, sup, seen, child, alive, faults>>

\* A suspended supervisor misses its heartbeats, and makes up for them.
Lapse(s) ==
    /\ Fault /\ s \in alive \cap row /\ row' = row \ {s}
    /\ UNCHANGED <<daemonVars, fileVars, sup, seen, child, alive>>
Heartbeat(s) ==
    /\ s \in alive \ row /\ row' = row \cup {s}
    /\ UNCHANGED <<daemonVars, fileVars, sup, seen, child, alive, faults>>

\* A DaemonSetScanner or `ymh doctor` probes the lock of a claimed workspace.
OtherProbe ==
    /\ Fault /\ claim # NoOne /\ flock = NoOne /\ flock' = Prober
    /\ UNCHANGED <<daemonVars, claim, reg, path, supVars>>
OtherProbed ==
    /\ flock = Prober /\ flock' = NoOne
    /\ UNCHANGED <<daemonVars, claim, reg, path, supVars, faults>>

-----------------------------------------------------------------------------
Startup(d)  == TakeLock(d) \/ Bind(d) \/ ClaimHost(d) \/ Serve(d)
Shutdown(d) == HandleSignal(d) \/ WatchdogTick(d) \/ Escalate(d) \/ Drained(d)
               \/ StopTransport(d) \/ ClosePersistence(d) \/ ReleaseHost(d) \/ Stopped(d)
Trouble(d)  == Stop(d) \/ HostCrash(d) \/ StartupFails(d) \/ Hang(d) \/ DrainTimesOut(d)
Ensure(s)   == EnsureRunning(s) \/ ProbeLive(s) \/ ConnectChecked(s) \/ ReleaseProbe(s)
               \/ ReapIfStale(s) \/ ReapHost(s) \/ ClearClaim(s) \/ Spawn(s)
               \/ AwaitReady(s) \/ ChildExited(s) \/ OtherClaim(s)
               \/ WinnerAttach(s) \/ WinnerTimeout(s) \/ LoseHost(s)

HostNext ==
    \/ \E d \in Daemons : Startup(d) \/ Shutdown(d) \/ Trouble(d)
    \/ \E s \in Supervisors : Ensure(s) \/ ReadinessTimeout(s) \/ Die(s) \/ ExpireRow(s)
                              \/ Lapse(s) \/ Heartbeat(s)
    \/ OtherProbe \/ OtherProbed

HostSpec == HostInit /\ [][HostNext]_hostState

(***************************************************************************)
(* A daemon's threads run, its watchdog ticks, a probe ends, rows expire;  *)
(* a supervisor's attempt goes on, and its user tries again after one that *)
(* failed. Nothing is assumed of the faults and the deaths.                *)
(***************************************************************************)
FairHostSpec ==
    /\ HostSpec
    /\ \A d \in Daemons :
          /\ WF_hostState(Startup(d)) /\ WF_hostState(HandleSignal(d))
          /\ WF_hostState(WatchdogTick(d)) /\ WF_hostState(Escalate(d))
          /\ WF_hostState(Drained(d)) /\ WF_hostState(StopTransport(d))
          /\ WF_hostState(ClosePersistence(d)) /\ WF_hostState(ReleaseHost(d))
          /\ WF_hostState(Stopped(d))
    /\ \A s \in Supervisors :
          WF_hostState(Ensure(s)) /\ WF_hostState(ExpireRow(s)) /\ WF_hostState(Heartbeat(s))
    /\ WF_hostState(OtherProbed)

-----------------------------------------------------------------------------
(* Properties.                                                             *)

(***************************************************************************)
(* From claimHost until it stops its transport, a daemon's claim is in the *)
(* registry: no reap by a supervisor that probed the lock earlier, and no  *)
(* late releaseHost of a predecessor, clears it (registry.cpp:1107, 1187). *)
(***************************************************************************)
ClaimKept ==
    \A d \in Daemons :
        pc[d] \in {"claimed", "serving", "draining", "drained"} => claim = d

Listening == {"bound", "claimed", "serving", "draining", "drained"}

(***************************************************************************)
(* "a published claim implies the socket is bound"                         *)
(* (workspace_host.cpp:1628-1629), as far as it is true. Whatever numbers  *)
(* the file system gives, nobody binds over the socket of a daemon, and    *)
(* from its bind until it stops its transport the file is removed in one   *)
(* way only: by the last unlinkSocketIfOwned of a predecessor that has     *)
(* given back all else and whose remembered number was given to the file   *)
(* again (workspace_host.cpp:1335-1337).                                   *)
(***************************************************************************)
SocketGoesByReuse ==
    [][\A d \in Daemons :
          pc[d] \in Listening /\ pc'[d] \in Listening /\ path' # path =>
              /\ path = d /\ path' = NoOne
              /\ \E e \in Daemons \ {d} : pc[e] = "released" /\ inode[e] = inode[d]]_hostState

(***************************************************************************)
(* When the last supervisor is gone every daemon ends, whatever hung or    *)
(* crashed (the owner watchdog and its escalation).                        *)
(***************************************************************************)
OrphansStop ==
    (alive = {}) ~> (\A d \in Daemons : pc[d] \in {"none", "exited"})

(***************************************************************************)
(* A supervisor that keeps trying gets attached in the end, if from some   *)
(* time on nothing else goes wrong: nobody else tries or probes, no daemon *)
(* hangs, and none listens on a socket it has lost to a reused number. No  *)
(* claim, lock or socket left behind keeps it out.                         *)
(***************************************************************************)
Alone(s) == /\ s \in alive /\ stuck = {}
            /\ \A d \in Daemons : pc[d] \in Listening => path = d
            /\ \A t \in Supervisors \ {s} : t \notin alive \/ sup[t] = "attached"

Converges == \A s \in Supervisors : <>[]Alone(s) => <>[](sup[s] = "attached")
=============================================================================
