--------------------------- MODULE HostFeedProofs ---------------------------
(***************************************************************************)
(* Proofs about the daemon that serves a workspace and about the events it *)
(* serves: HostLifecycle for any number of daemons, supervisors and        *)
(* faults, EventFeed for any bounds. The second takes for granted what the *)
(* first shows (OneDaemonServes): there is one host at a time, so one log  *)
(* and one publisher.                                                      *)
(*                                                                         *)
(* ClaimKept is not inductive: that no reap clears the claim of a daemon   *)
(* that holds the lock needs the lock to be that daemon's (HoldersLock),   *)
(* and needs what reapHost saw of it to be still true when it clears the   *)
(* claim, the lock having been given back in between (ReapSeesNobody).     *)
(*                                                                         *)
(* CursorCovered and the order in which the UI applies the records are     *)
(* properties of the whole way of an event: the queues between the host    *)
(* and the adapter are gapless one behind the other (Gapless), because a   *)
(* record is posted after all before it (Forwarding), a subscription is    *)
(* made live only when it has been sent the whole log (Live, Replayed),    *)
(* and a replay begins behind a cursor the UI has caught up with           *)
(* (Positions).                                                            *)
(***************************************************************************)
EXTENDS HostLifecycle, EventFeed, SequenceTheorems, TLAPS

-----------------------------------------------------------------------------
(* The daemon: its lock, its claim and its socket.                         *)

Places == {"none", "starting", "locked", "bound", "claimed", "serving", "draining", "drained",
           "failing", "unbound", "closed", "released", "exited"}
Steps  == {"idle", "probing", "connecting", "stale", "checking", "checked", "reaping",
           "clearing", "updating", "spawning", "awaiting", "winner", "attached"}
Holding == {"locked", "bound", "claimed", "serving", "draining", "drained"}
Kept    == {"claimed", "serving", "draining", "drained"}

DaemonTypes ==
    /\ pc \in [Daemons -> Places]
    /\ inode \in [Daemons -> Daemons \cup {NoOne}]
    /\ flock \in Daemons \cup Supervisors \cup {Prober, NoOne}
    /\ claim \in Daemons \cup {NoOne}
    /\ reg \in Supervisors \cup {NoOne}
    /\ path \in Daemons \cup {NoOne}
    /\ sup \in [Supervisors -> Steps]
    /\ seen \in [Supervisors -> Daemons \cup {NoOne}]
    /\ child \in [Supervisors -> Daemons \cup {NoOne}]

HoldersLock    == \A d \in Daemons : pc[d] \in Holding => flock = d
ReapSeesNobody == \A s \in Supervisors :
                      sup[s] \in {"clearing", "updating"} =>
                          reg = s /\ \A d \in Daemons : claim = d => pc[d] \notin Kept
LockInv == DaemonTypes /\ HoldersLock /\ ReapSeesNobody /\ ClaimKept

USE ProcessesAssumption

\* The steps of a daemon and of the supervisors that write neither the claim,
\* the lock nor the registry's lock, and move no daemon to where it keeps them.
LEMMA StartupStep == ASSUME LockInv, NEW d \in Daemons, Startup(d) PROVE LockInv'
<1> USE DEF LockInv, DaemonTypes, HoldersLock, ReapSeesNobody, ClaimKept, Places, Holding,
            Kept, Move, fileVars, supVars
<1>1. CASE TakeLock(d)
    BY <1>1 DEF TakeLock
<1>2. CASE Bind(d)
    BY <1>2 DEF Bind
<1>3. CASE ClaimHost(d)
    BY <1>3 DEF ClaimHost
<1>4. CASE Serve(d)
    BY <1>4 DEF Serve
<1>5. QED
    BY <1>1, <1>2, <1>3, <1>4 DEF Startup

LEMMA ShutdownStep == ASSUME LockInv, NEW d \in Daemons, Shutdown(d) PROVE LockInv'
<1> USE DEF LockInv, DaemonTypes, HoldersLock, ReapSeesNobody, ClaimKept, Places, Holding,
            Kept, Move, Drain, Dead, UnlinkOwned, fileVars, supVars
<1>1. CASE HandleSignal(d)
    BY <1>1 DEF HandleSignal
<1>2. CASE WatchdogTick(d)
    BY <1>2 DEF WatchdogTick
<1>3. CASE Escalate(d)
    BY <1>3 DEF Escalate
<1>4. CASE Drained(d)
    BY <1>4 DEF Drained
<1>5. CASE StopTransport(d)
    BY <1>5 DEF StopTransport
<1>6. CASE ClosePersistence(d)
    BY <1>6 DEF ClosePersistence
<1>7. CASE ReleaseHost(d)
    BY <1>7 DEF ReleaseHost
<1>8. CASE Stopped(d)
    BY <1>8 DEF Stopped
<1>9. QED
    BY <1>1, <1>2, <1>3, <1>4, <1>5, <1>6, <1>7, <1>8 DEF Shutdown

LEMMA TroubleStep == ASSUME LockInv, NEW d \in Daemons, Trouble(d) PROVE LockInv'
<1> USE DEF LockInv, DaemonTypes, HoldersLock, ReapSeesNobody, ClaimKept, Places, Holding,
            Kept, Move, Drain, Dead, UnlinkOwned, fileVars, supVars
<1>1. CASE Stop(d)
    BY <1>1 DEF Stop
<1>2. CASE HostCrash(d)
    BY <1>2 DEF HostCrash
<1>3. CASE StartupFails(d)
    BY <1>3 DEF StartupFails
<1>4. CASE Hang(d)
    BY <1>4 DEF Hang
<1>5. CASE DrainTimesOut(d)
    BY <1>5 DEF DrainTimesOut
<1>6. QED
    BY <1>1, <1>2, <1>3, <1>4, <1>5 DEF Trouble

LEMMA EnsureStep == ASSUME LockInv, NEW s \in Supervisors, Ensure(s) PROVE LockInv'
<1> USE DEF LockInv, DaemonTypes, HoldersLock, ReapSeesNobody, ClaimKept, Places, Steps,
            Holding, Kept, Goes, daemonVars, fileVars
<1>1. CASE EnsureRunning(s)
    BY <1>1 DEF EnsureRunning
<1>2. CASE ProbeLive(s)
    BY <1>2 DEF ProbeLive, Probe
<1>3. CASE ConnectChecked(s)
    BY <1>3 DEF ConnectChecked
<1>4. CASE ReleaseProbe(s)
    BY <1>4 DEF ReleaseProbe
<1>5. CASE ReapIfStale(s)
    BY <1>5 DEF ReapIfStale, Probe
<1>6. CASE ReapHost(s)
    BY <1>6 DEF ReapHost
<1>7. CASE ClearClaim(s)
    BY <1>7 DEF ClearClaim
<1>8. CASE Spawn(s)
    BY <1>8 DEF Spawn, New
<1>9. CASE AwaitReady(s)
    BY <1>9 DEF AwaitReady, Attach
<1>10. CASE ChildExited(s)
    BY <1>10 DEF ChildExited
<1>11. CASE OtherClaim(s)
    BY <1>11 DEF OtherClaim, GiveUpChild, Terminate, Dead
<1>12. CASE WinnerAttach(s)
    BY <1>12 DEF WinnerAttach, Attach
<1>13. CASE WinnerTimeout(s)
    BY <1>13 DEF WinnerTimeout
<1>14. CASE LoseHost(s)
    BY <1>14 DEF LoseHost
<1>15. QED
    BY <1>1, <1>2, <1>3, <1>4, <1>5, <1>6, <1>7, <1>8, <1>9, <1>10, <1>11, <1>12, <1>13, <1>14
       DEF Ensure

LEMMA LockStep == LockInv /\ [HostNext]_hostState => LockInv'
<1> SUFFICES ASSUME LockInv, [HostNext]_hostState PROVE LockInv'
    OBVIOUS
<1>1. CASE \E d \in Daemons : Startup(d) \/ Shutdown(d) \/ Trouble(d)
    BY <1>1, StartupStep, ShutdownStep, TroubleStep
<1>2. ASSUME NEW s \in Supervisors, Ensure(s) PROVE LockInv'
    BY <1>2, EnsureStep
<1> USE DEF LockInv, DaemonTypes, HoldersLock, ReapSeesNobody, ClaimKept, Places, Steps,
            Holding, Kept, daemonVars, fileVars
<1>3. ASSUME NEW s \in Supervisors, ReadinessTimeout(s) PROVE LockInv'
    BY <1>3 DEF ReadinessTimeout, GiveUpChild, Terminate, Dead, Goes
<1>4. ASSUME NEW s \in Supervisors, Die(s) PROVE LockInv'
    BY <1>4 DEF Die
<1>5. ASSUME NEW s \in Supervisors, ExpireRow(s) \/ Lapse(s) \/ Heartbeat(s) PROVE LockInv'
    BY <1>5 DEF ExpireRow, Lapse, Heartbeat
<1>6. CASE OtherProbe \/ OtherProbed
    BY <1>6 DEF OtherProbe, OtherProbed, supVars
<1>7. CASE UNCHANGED hostState
    BY <1>7 DEF hostState, supVars
<1>8. QED
    BY <1>1, <1>2, <1>3, <1>4, <1>5, <1>6, <1>7 DEF HostNext

(***************************************************************************)
(* No daemon loses its claim between claimHost and the end of its          *)
(* transport, to reapHost, to the releaseHost of another boot or to the    *)
(* claim of another daemon.                                                *)
(***************************************************************************)
THEOREM ClaimIsKept == HostSpec => []ClaimKept
<1>1. HostInit => LockInv
    BY DEF HostInit, LockInv, DaemonTypes, HoldersLock, ReapSeesNobody, ClaimKept, Places,
           Steps, Holding
<1>2. LockInv => ClaimKept
    BY DEF LockInv
<1>3. QED
    BY <1>1, <1>2, LockStep, PTL DEF HostSpec

(***************************************************************************)
(* Two daemons never have the workspace at once: whoever is between        *)
(* claimHost and the end of its transport holds sessions.lock, and there   *)
(* is one lock, so a successor cannot publish its claim before the         *)
(* predecessor has stopped, whatever probes, reaps and kills come between. *)
(***************************************************************************)
THEOREM OneDaemonServes ==
    HostSpec => [](\A d, e \in Daemons : pc[d] \in Kept /\ pc[e] \in Kept => d = e)
<1>1. HostInit => LockInv
    BY DEF HostInit, LockInv, DaemonTypes, HoldersLock, ReapSeesNobody, ClaimKept, Places,
           Steps, Holding
<1>2. LockInv => \A d, e \in Daemons : pc[d] \in Kept /\ pc[e] \in Kept => d = e
    BY DEF LockInv, HoldersLock, Holding, Kept
<1>3. QED
    BY <1>1, <1>2, LockStep, PTL DEF HostSpec

-----------------------------------------------------------------------------
(* The socket, whatever inode numbers are given.                           *)

\* A file at the path is that of the daemon that listens; a startup that failed
\* has bound only with the lock, which it still holds.
PathIsOwned == \A d \in Daemons : pc[d] \in Listening => path \in {d, NoOne}
Unbound     == \A d \in Daemons : pc[d] \in {"starting", "locked"} => inode[d] = NoOne
FailedLock  == \A d \in Daemons : pc[d] = "failing" => (inode[d] = NoOne \/ flock = d)
SocketInv   == LockInv /\ PathIsOwned /\ Unbound /\ FailedLock

\* What a step of a daemon or of a supervisor may do to the socket.
SocketStays == /\ PathIsOwned' /\ Unbound' /\ FailedLock'
               /\ \A d \in Daemons :
                    pc[d] \in Listening /\ pc'[d] \in Listening /\ path' # path =>
                        /\ path = d /\ path' = NoOne
                        /\ \E e \in Daemons \ {d} : pc[e] = "released" /\ inode[e] = inode[d]

LEMMA SocketStep == ASSUME SocketInv, [HostNext]_hostState PROVE SocketStays
<1> USE DEF SocketInv, LockInv, DaemonTypes, HoldersLock, PathIsOwned, Unbound, FailedLock,
            SocketStays, Listening, Holding, Places, Move, UnlinkOwned, Drain, Dead, fileVars,
            supVars, daemonVars
<1>1. ASSUME NEW d \in Daemons, Startup(d) PROVE SocketStays
  <2>1. CASE Bind(d)
    <3>1. /\ path' = d /\ pc' = [pc EXCEPT ![d] = "bound"] /\ pc[d] = "locked" /\ flock = d
          /\ flock' = flock /\ \A e \in Daemons \ {d} : inode'[e] = inode[e]
        BY <2>1 DEF Bind
    <3>2. \A e \in Daemons \ {d} : pc[e] \notin Holding
        BY <3>1
    <3>3. QED
        BY <3>1, <3>2
  <2>2. CASE TakeLock(d)
      BY <2>2 DEF TakeLock
  <2>3. QED
      BY <1>1, <2>1, <2>2 DEF Startup, ClaimHost, Serve
<1>2. ASSUME NEW d \in Daemons, Shutdown(d) PROVE SocketStays
  <2>1. CASE StopTransport(d)
    <3>1. pc[d] \in {"drained", "failing"} /\ pc' = [pc EXCEPT ![d] = "unbound"] /\ flock' = flock
        BY <2>1 DEF StopTransport
    <3>2. ASSUME NEW e \in Daemons, pc[e] \in Listening, e # d PROVE path' = path
      <4>1. flock = e /\ inode[d] = NoOne
          BY <3>1, <3>2
      <4>2. QED
          BY <2>1, <4>1 DEF StopTransport
    <3>3. path' \in {path, NoOne} /\ \A e \in Daemons \ {d} : inode'[e] = inode[e]
        BY <2>1 DEF StopTransport
    <3>4. QED
        BY <3>1, <3>2, <3>3
  <2>2. CASE Stopped(d)
    <3>1. /\ pc[d] = "released" /\ pc' = [pc EXCEPT ![d] = "exited"] /\ inode' = inode
          /\ flock' = IF flock = d THEN NoOne ELSE flock
        BY <2>2 DEF Stopped
    <3>2. path' = path \/ (path # NoOne /\ path' = NoOne /\ inode[path] = inode[d])
        BY <2>2 DEF Stopped
    <3>3. ASSUME NEW e \in Daemons, pc[e] \in Listening, pc'[e] \in Listening, path' # path
          PROVE  /\ path = e /\ path' = NoOne
                 /\ \E f \in Daemons \ {e} : pc[f] = "released" /\ inode[f] = inode[e]
      <4>1. path = e /\ path' = NoOne /\ d # e /\ inode[d] = inode[e]
          BY <3>1, <3>2, <3>3
      <4>2. QED
          BY <3>1, <4>1
    <3>4. PathIsOwned' /\ Unbound' /\ FailedLock'
        BY <3>1, <3>2
    <3>5. QED
        BY <3>3, <3>4
  <2>3. QED
      BY <1>2, <2>1, <2>2
      DEF Shutdown, HandleSignal, WatchdogTick, Escalate, Drained, ClosePersistence, ReleaseHost
<1>3. ASSUME NEW d \in Daemons, Trouble(d) PROVE SocketStays
  <2>1. CASE DrainTimesOut(d)
      BY <2>1 DEF DrainTimesOut
  <2>2. CASE StartupFails(d)
      BY <2>2 DEF StartupFails
  <2>3. QED
      BY <1>3, <2>1, <2>2 DEF Trouble, Stop, HostCrash, Hang
<1>4. ASSUME NEW s \in Supervisors, Spawn(s) PROVE SocketStays
    BY <1>4 DEF Spawn, New
<1>5. ASSUME NEW s \in Supervisors, OtherClaim(s) \/ ReadinessTimeout(s) PROVE SocketStays
    BY <1>5 DEF OtherClaim, ReadinessTimeout, GiveUpChild, Terminate
<1>6. ASSUME UNCHANGED <<pc, inode, path>>, \A d \in Daemons : flock = d => flock' = d
      PROVE  SocketStays
    BY <1>6
<1>7. ASSUME NEW s \in Supervisors, Ensure(s), ~Spawn(s), ~OtherClaim(s)
      PROVE  SocketStays
  <2>1. UNCHANGED <<pc, inode, path>>
      BY <1>7 DEF Ensure, EnsureRunning, ProbeLive, ConnectChecked, ReleaseProbe, ReapIfStale,
                  ReapHost, ClearClaim, AwaitReady, ChildExited, WinnerAttach, WinnerTimeout,
                  LoseHost, Attach
  <2>2. s \notin Daemons /\ NoOne \notin Daemons
      BY ProcessesAssumption
  <2>3. \A d \in Daemons : flock = d => flock' = d
      BY <1>7, <2>2 DEF Ensure, EnsureRunning, ProbeLive, ConnectChecked, ReleaseProbe,
                  ReapIfStale, ReapHost, ClearClaim, AwaitReady, ChildExited, WinnerAttach,
                  WinnerTimeout, LoseHost, Attach, Probe
  <2>4. QED
      BY <1>6, <2>1, <2>3
<1>8. ASSUME NEW s \in Supervisors, Die(s) \/ ExpireRow(s) \/ Lapse(s) \/ Heartbeat(s)
      PROVE  SocketStays
    BY <1>6, <1>8, ProcessesAssumption DEF Die, ExpireRow, Lapse, Heartbeat
<1>9. ASSUME OtherProbe \/ OtherProbed \/ UNCHANGED hostState PROVE SocketStays
    BY <1>6, <1>9, ProcessesAssumption DEF OtherProbe, OtherProbed, hostState
<1>10. QED
    BY <1>1, <1>2, <1>3, <1>4, <1>5, <1>7, <1>8, <1>9 DEF HostNext

(***************************************************************************)
(* Nobody binds over a daemon's socket, and only a predecessor's last      *)
(* unlink, of a number given twice, removes it, for any number of daemons, *)
(* supervisors and faults and whatever numbers the file system gives.      *)
(***************************************************************************)
THEOREM Socket_Goes_By_Reuse == HostSpec => SocketGoesByReuse
<1> DEFINE SocketSafe == \A d \in Daemons :
              pc[d] \in Listening /\ pc'[d] \in Listening /\ path' # path =>
                  /\ path = d /\ path' = NoOne
                  /\ \E e \in Daemons \ {d} : pc[e] = "released" /\ inode[e] = inode[d]
<1>1. HostInit => SocketInv
    BY DEF HostInit, SocketInv, LockInv, DaemonTypes, HoldersLock, ReapSeesNobody, ClaimKept,
           Places, Steps, Holding, PathIsOwned, Listening, Unbound, FailedLock
<1>2. SocketInv /\ [HostNext]_hostState => SocketInv' /\ SocketSafe
    BY LockStep, SocketStep DEF SocketInv, SocketStays
<1>3. QED
    BY <1>1, <1>2, PTL DEF HostSpec, SocketGoesByReuse

-----------------------------------------------------------------------------
(* The feed: queues of frames.                                             *)

HIDE ProcessesAssumption

Frames == [k : {"event.stream"}, seq : Nat \ {0}, replay : BOOLEAN]
          \cup [k : {"ReplayComplete", "subscribed"}]
          \cup [k : {"resumed"}, status : {"Running", "Idle"}]

IsEvent(f) == f.k = "event.stream"

\* The records whose events a queue holds, and what a single frame holds of them.
Own(f)     == IF IsEvent(f) THEN {f.seq} ELSE {}
Carried(q) == UNION {Own(q[i]) : i \in DOMAIN q}

\* A queue behind which the records of H have gone already: no event in it is
\* ahead of one that comes before it in the log.
Follows(q, H) ==
    \A i \in DOMAIN q : IsEvent(q[i]) =>
        \A s \in 1..(q[i].seq - 1) :
            s \in H \/ \E j \in 1..(i - 1) : s \in Own(q[j])

LEMMA OwnFrame ==
    ASSUME NEW f \in Frames
    PROVE  /\ IsEvent(f) => Own(f) = {f.seq} /\ f.seq \in Nat \ {0}
           /\ ~IsEvent(f) => Own(f) = {}
BY DEF Own, IsEvent, Frames

LEMMA InCarried ==
    ASSUME NEW q \in Seq(Frames), NEW s
    PROVE  s \in Carried(q) <=> \E i \in 1..Len(q) : s \in Own(q[i])
BY DEF Carried

LEMMA EmptyQueue ==
    ASSUME NEW H
    PROVE  << >> \in Seq(Frames) /\ Carried(<< >>) = {} /\ Follows(<< >>, H)
BY DEF Carried, Follows

LEMMA ConcatQueue ==
    ASSUME NEW q \in Seq(Frames), NEW r \in Seq(Frames), NEW H,
           Follows(q, H), Follows(r, H \cup Carried(q))
    PROVE  /\ q \o r \in Seq(Frames)
           /\ Carried(q \o r) = Carried(q) \cup Carried(r)
           /\ Follows(q \o r, H)
<1> DEFINE c == q \o r
<1>1. c \in Seq(Frames) /\ Len(c) = Len(q) + Len(r)
    BY ConcatProperties
<1>2. \A i \in 1..Len(q) : c[i] = q[i]
    BY ConcatProperties
<1>3. \A i \in 1..Len(r) : c[Len(q) + i] = r[i]
    BY ConcatProperties
<1>4. \A i \in 1..Len(c) : i \in 1..Len(q) \/ (i - Len(q)) \in 1..Len(r)
    BY <1>1
<1> HIDE DEF c
<1>5. Carried(c) = Carried(q) \cup Carried(r)
  <2>1. ASSUME NEW s \in Carried(c) PROVE s \in Carried(q) \cup Carried(r)
    <3>1. PICK i \in 1..Len(c) : s \in Own(c[i])
        BY <1>1, <2>1, InCarried
    <3>2. CASE i \in 1..Len(q)
        BY <3>1, <3>2, <1>2, InCarried
    <3>3. CASE (i - Len(q)) \in 1..Len(r)
      <4>1. c[i] = r[i - Len(q)]
        BY <3>1, <3>3, <1>1, <1>3
      <4>2. QED
        BY <3>1, <3>3, <4>1, InCarried
    <3>4. QED
        BY <3>2, <3>3, <1>4
  <2>2. ASSUME NEW s \in Carried(q) PROVE s \in Carried(c)
    <3>1. PICK i \in 1..Len(q) : s \in Own(q[i])
        BY <2>2, InCarried
    <3>2. i \in 1..Len(c) /\ s \in Own(c[i])
        BY <3>1, <1>1, <1>2
    <3>3. QED
        BY <3>2, <1>1, InCarried
  <2>3. ASSUME NEW s \in Carried(r) PROVE s \in Carried(c)
    <3>1. PICK i \in 1..Len(r) : s \in Own(r[i])
        BY <2>3, InCarried
    <3>2. (Len(q) + i) \in 1..Len(c) /\ s \in Own(c[Len(q) + i])
        BY <3>1, <1>1, <1>3
    <3>3. QED
        BY <3>2, <1>1, InCarried
  <2>4. QED
    BY <2>1, <2>2, <2>3
<1>6. Follows(c, H)
  <2> SUFFICES ASSUME NEW i \in 1..Len(c), IsEvent(c[i]), NEW s \in 1..(c[i].seq - 1)
               PROVE  s \in H \/ \E j \in 1..(i - 1) : s \in Own(c[j])
    BY <1>1 DEF Follows
  <2>1. CASE i \in 1..Len(q)
    <3>1. s \in H \/ \E j \in 1..(i - 1) : s \in Own(q[j])
        BY <2>1, <1>2 DEF Follows
    <3>2. \A j \in 1..(i - 1) : c[j] = q[j]
        BY <2>1, <1>2
    <3>3. QED
        BY <3>1, <3>2
  <2>2. CASE (i - Len(q)) \in 1..Len(r)
    <3> DEFINE m == i - Len(q)
    <3>1. c[i] = r[m]
        BY <2>2, <1>1, <1>3
    <3>2. s \in H \/ s \in Carried(q) \/ \E j \in 1..(m - 1) : s \in Own(r[j])
        BY <2>2, <3>1 DEF Follows
    <3>3. CASE s \in Carried(q)
      <4>1. PICK j \in 1..Len(q) : s \in Own(q[j])
        BY <3>3, InCarried
      <4>2. j \in 1..(i - 1) /\ c[j] = q[j]
        BY <4>1, <2>2, <1>1, <1>2
      <4>3. QED
        BY <4>1, <4>2
    <3>4. CASE \E j \in 1..(m - 1) : s \in Own(r[j])
      <4>1. PICK j \in 1..(m - 1) : s \in Own(r[j])
        BY <3>4
      <4>2. j \in 1..Len(r) /\ (Len(q) + j) \in 1..(i - 1)
        BY <4>1, <2>2, <1>1
      <4>3. c[Len(q) + j] = r[j]
        BY <4>2, <1>3
      <4>4. QED
        BY <4>1, <4>2, <4>3
    <3>5. QED
        BY <3>2, <3>3, <3>4
  <2>3. QED
    BY <2>1, <2>2, <1>4
<1>7. QED
    BY <1>1, <1>5, <1>6 DEF c

LEMMA FollowsMore ==
    ASSUME NEW q, NEW H, NEW G, Follows(q, H), \A s \in Nat : s \in H => s \in G,
           q \in Seq(Frames)
    PROVE  Follows(q, G)
<1> SUFFICES ASSUME NEW i \in DOMAIN q, IsEvent(q[i]), NEW s \in 1..(q[i].seq - 1)
             PROVE  s \in G \/ \E j \in 1..(i - 1) : s \in Own(q[j])
    BY DEF Follows
<1>1. s \in Nat
    OBVIOUS
<1>2. QED
    BY <1>1 DEF Follows

LEMMA OneFrame ==
    ASSUME NEW f \in Frames, NEW H, IsEvent(f) => \A s \in 1..(f.seq - 1) : s \in H
    PROVE  /\ <<f>> \in Seq(Frames) /\ Carried(<<f>>) = Own(f)
           /\ Follows(<<f>>, H)
<1>1. <<f>> \in Seq(Frames) /\ Len(<<f>>) = 1 /\ <<f>>[1] = f
    OBVIOUS
<1>2. ASSUME NEW s PROVE s \in Carried(<<f>>) <=> s \in Own(f)
  <2>1. s \in Carried(<<f>>) <=> \E i \in 1..1 : s \in Own(<<f>>[i])
    BY <1>1, InCarried
  <2>2. QED
    BY <2>1, <1>1
<1>3. Carried(<<f>>) = Own(f)
    BY <1>2
<1>4. Follows(<<f>>, H)
    BY <1>1 DEF Follows
<1>5. QED
    BY <1>1, <1>3, <1>4

LEMMA AppendQueue ==
    ASSUME NEW q \in Seq(Frames), NEW f \in Frames, NEW H, Follows(q, H),
           IsEvent(f) => \A s \in 1..(f.seq - 1) : s \in H \cup Carried(q)
    PROVE  /\ Append(q, f) \in Seq(Frames)
           /\ Carried(Append(q, f)) = Carried(q) \cup Own(f)
           /\ Follows(Append(q, f), H)
<1>1. /\ <<f>> \in Seq(Frames) /\ Carried(<<f>>) = Own(f)
      /\ Follows(<<f>>, H \cup Carried(q))
    BY OneFrame
<1>2. Append(q, f) = q \o <<f>>
    BY AppendIsConcat
<1>3. /\ q \o <<f>> \in Seq(Frames)
      /\ Carried(q \o <<f>>) = Carried(q) \cup Carried(<<f>>)
      /\ Follows(q \o <<f>>, H)
    BY <1>1, ConcatQueue
<1>4. QED
    BY <1>1, <1>2, <1>3

LEMMA TailQueue ==
    ASSUME NEW q \in Seq(Frames), q # << >>, NEW H, Follows(q, H)
    PROVE  /\ Head(q) \in Frames /\ Tail(q) \in Seq(Frames)
           /\ Carried(q) = Own(Head(q)) \cup Carried(Tail(q))
           /\ Follows(Tail(q), H \cup Own(Head(q)))
           /\ IsEvent(Head(q)) => \A s \in 1..(Head(q).seq - 1) : s \in H
<1> DEFINE t == Tail(q)
<1>1. /\ Head(q) = q[1] /\ Head(q) \in Frames /\ t \in Seq(Frames)
      /\ Len(q) = Len(t) + 1 /\ Len(t) \in Nat /\ \A i \in 1..Len(t) : t[i] = q[i + 1]
    BY HeadTailProperties
<1> HIDE DEF t
<1>2. ASSUME NEW s PROVE s \in Carried(q) <=> s \in Own(Head(q)) \/ s \in Carried(t)
  <2>1. ASSUME NEW i \in 1..Len(q), s \in Own(q[i])
        PROVE  s \in Own(Head(q)) \/ s \in Carried(t)
    <3>1. CASE i = 1
        BY <2>1, <3>1, <1>1
    <3>2. CASE i # 1
      <4>1. (i - 1) \in 1..Len(t) /\ t[i - 1] = q[i]
        BY <3>2, <1>1
      <4>2. QED
        BY <4>1, <2>1, <1>1, InCarried
    <3>3. QED
        BY <3>1, <3>2
  <2>2. ASSUME s \in Own(Head(q)) PROVE s \in Carried(q)
    <3>1. 1 \in 1..Len(q) /\ s \in Own(q[1])
        BY <2>2, <1>1
    <3>2. QED
        BY <3>1, InCarried
  <2>3. ASSUME NEW i \in 1..Len(t), s \in Own(t[i]) PROVE s \in Carried(q)
    <3>1. (i + 1) \in 1..Len(q) /\ s \in Own(q[i + 1])
        BY <2>3, <1>1
    <3>2. QED
        BY <3>1, InCarried
  <2>4. QED
    BY <2>1, <2>2, <2>3, <1>1, InCarried
<1>3. Follows(t, H \cup Own(Head(q)))
  <2> SUFFICES ASSUME NEW i \in 1..Len(t), IsEvent(t[i]), NEW s \in 1..(t[i].seq - 1)
               PROVE  \/ s \in H \cup Own(Head(q))
                      \/ \E j \in 1..(i - 1) : s \in Own(t[j])
    BY <1>1 DEF Follows
  <2>1. (i + 1) \in DOMAIN q /\ t[i] = q[i + 1]
    BY <1>1
  <2>2. s \in H \/ \E j \in 1..((i + 1) - 1) : s \in Own(q[j])
    BY <2>1 DEF Follows
  <2>3. ASSUME NEW j \in 1..((i + 1) - 1), s \in Own(q[j])
        PROVE  s \in Own(Head(q)) \/ \E m \in 1..(i - 1) : s \in Own(t[m])
    <3>1. CASE j = 1
        BY <2>3, <3>1, <1>1
    <3>2. CASE j # 1
      <4>1. (j - 1) \in 1..(i - 1) /\ (j - 1) \in 1..Len(t)
        BY <3>2, <1>1
      <4>2. t[j - 1] = q[j]
        BY <4>1, <1>1
      <4>3. QED
        BY <4>1, <4>2, <2>3
    <3>3. QED
        BY <3>1, <3>2
  <2>4. QED
    BY <2>2, <2>3
<1>4. IsEvent(Head(q)) => \A s \in 1..(Head(q).seq - 1) : s \in H
  <2>1. 1 \in DOMAIN q /\ 1..(1 - 1) = {}
    BY <1>1
  <2>2. QED
    BY <2>1, <1>1 DEF Follows
<1>5. Carried(q) = Own(Head(q)) \cup Carried(t)
    BY <1>2
<1>6. QED
    BY <1>1, <1>3, <1>4, <1>5 DEF t

\* A frame that is no event may be taken out anywhere.
LEMMA RemoveFromQueue ==
    ASSUME NEW q \in Seq(Frames), NEW n \in DOMAIN q, ~IsEvent(q[n]), NEW H, Follows(q, H)
    PROVE  /\ RemoveAt(q, n) \in Seq(Frames)
           /\ Carried(RemoveAt(q, n)) = Carried(q)
           /\ Follows(RemoveAt(q, n), H)
<1> DEFINE r == RemoveAt(q, n)
<1>1. n \in 1..Len(q) /\ Len(q) \in Nat /\ Own(q[n]) = {}
    BY OwnFrame
<1>2. /\ r \in Seq(Frames) /\ Len(r) = Len(q) - 1
      /\ \A i \in 1..Len(r) : r[i] = q[IF i < n THEN i ELSE i + 1]
  <2> DEFINE a == SubSeq(q, 1, n - 1)
             b == SubSeq(q, n + 1, Len(q))
  <2>1. /\ a \in Seq(Frames) /\ Len(a) = n - 1
        /\ \A i \in 1..(n - 1) : a[i] = q[i]
    <3>1. \A i \in 1..(n - 1) : q[i] \in Frames
        BY <1>1
    <3>2. /\ a \in Seq(Frames) /\ Len(a) = IF 1 <= n - 1 THEN (n - 1) - 1 + 1 ELSE 0
          /\ \A i \in 1..((n - 1) - 1 + 1) : a[i] = q[1 + i - 1]
        BY <1>1, <3>1, SubSeqProperties
    <3> HIDE DEF a
    <3>3. QED
        BY <1>1, <3>2
  <2>2. /\ b \in Seq(Frames) /\ Len(b) = Len(q) - n
        /\ \A i \in 1..(Len(q) - n) : b[i] = q[n + i]
    <3>1. \A i \in (n + 1)..Len(q) : q[i] \in Frames
        BY <1>1
    <3>2. /\ b \in Seq(Frames)
          /\ Len(b) = IF n + 1 <= Len(q) THEN Len(q) - (n + 1) + 1 ELSE 0
          /\ \A i \in 1..(Len(q) - (n + 1) + 1) : b[i] = q[(n + 1) + i - 1]
        BY <1>1, <3>1, SubSeqProperties
    <3> HIDE DEF b
    <3>3. QED
        BY <1>1, <3>2
  <2>3. r = a \o b
    BY DEF RemoveAt
  <2> HIDE DEF a, b, r
  <2>4. /\ a \o b \in Seq(Frames) /\ Len(a \o b) = Len(a) + Len(b)
        /\ \A i \in 1..(Len(a) + Len(b)) :
              (a \o b)[i] = IF i <= Len(a) THEN a[i] ELSE b[i - Len(a)]
    BY <2>1, <2>2, ConcatProperties
  <2>5. Len(r) = Len(q) - 1
    BY <1>1, <2>1, <2>2, <2>3, <2>4
  <2>6. ASSUME NEW i \in 1..Len(r) PROVE r[i] = q[IF i < n THEN i ELSE i + 1]
    <3>1. r[i] = IF i <= n - 1 THEN a[i] ELSE b[i - (n - 1)]
        BY <1>1, <2>1, <2>2, <2>3, <2>4, <2>5
    <3>2. CASE i < n
        BY <3>1, <3>2, <1>1, <2>1
    <3>3. CASE ~(i < n)
      <4>1. (i - (n - 1)) \in 1..(Len(q) - n) /\ n + (i - (n - 1)) = i + 1
        BY <3>3, <1>1, <2>5
      <4>2. b[i - (n - 1)] = q[i + 1]
        BY <4>1, <2>2
      <4>3. QED
        BY <3>1, <3>3, <4>2, <1>1
    <3>4. QED
        BY <3>2, <3>3
  <2>7. QED
    BY <2>3, <2>4, <2>5, <2>6
<1> HIDE DEF r
<1>3. ASSUME NEW s PROVE s \in Carried(q) <=> s \in Carried(r)
  <2>1. ASSUME NEW i \in 1..Len(q), s \in Own(q[i]) PROVE s \in Carried(r)
    <3>1. i # n
        BY <1>1, <2>1
    <3>2. PICK j \in 1..Len(r) : r[j] = q[i]
      <4>1. CASE i < n
        BY <4>1, <1>1, <1>2
      <4>2. CASE i > n
        <5>1. (i - 1) \in 1..Len(r) /\ r[i - 1] = q[i]
            BY <4>2, <1>1, <1>2
        <5>2. QED
            BY <5>1
      <4>3. QED
        BY <3>1, <4>1, <4>2, <1>1
    <3>3. QED
        BY <2>1, <3>2, <1>2, InCarried
  <2>2. ASSUME NEW i \in 1..Len(r), s \in Own(r[i]) PROVE s \in Carried(q)
    <3>1. (IF i < n THEN i ELSE i + 1) \in 1..Len(q)
        BY <1>1, <1>2
    <3>2. QED
        BY <2>2, <3>1, <1>2, InCarried
  <2>3. QED
    BY <2>1, <2>2, <1>2, InCarried
<1>4. Follows(r, H)
  <2> SUFFICES ASSUME NEW i \in 1..Len(r), IsEvent(r[i]), NEW s \in 1..(r[i].seq - 1)
               PROVE  s \in H \/ \E j \in 1..(i - 1) : s \in Own(r[j])
    BY <1>2 DEF Follows
  <2> DEFINE m == IF i < n THEN i ELSE i + 1
  <2>1. m \in DOMAIN q /\ r[i] = q[m]
    BY <1>1, <1>2
  <2>2. s \in H \/ \E j \in 1..(m - 1) : s \in Own(q[j])
    BY <2>1 DEF Follows
  <2>3. ASSUME NEW j \in 1..(m - 1), s \in Own(q[j])
        PROVE  \E l \in 1..(i - 1) : s \in Own(r[l])
    <3>1. j # n
        BY <2>3, <1>1
    <3>2. CASE j < n
      <4>1. j \in 1..(i - 1) /\ j \in 1..Len(r)
        BY <3>2, <1>1, <1>2
      <4>2. r[j] = q[j]
        BY <4>1, <3>2, <1>1, <1>2
      <4>3. QED
        BY <4>1, <4>2, <2>3
    <3>3. CASE j > n
      <4>1. m = i + 1
        BY <3>3, <1>1
      <4>2. (j - 1) \in 1..(i - 1) /\ (j - 1) \in 1..Len(r) /\ ~(j - 1 < n)
        BY <4>1, <3>3, <1>1, <1>2
      <4>3. r[j - 1] = q[(j - 1) + 1] /\ (j - 1) + 1 = j
        BY <4>2, <1>2
      <4>4. QED
        BY <4>2, <4>3, <2>3
    <3>4. QED
        BY <3>1, <3>2, <3>3, <1>1
  <2>4. QED
    BY <2>2, <2>3
<1>5. Carried(r) = Carried(q)
    BY <1>3
<1>6. QED
    BY <1>2, <1>4, <1>5 DEF r

LEMMA UnansweredQueue ==
    ASSUME NEW q \in Seq(Frames), NEW H, Follows(q, H)
    PROVE  /\ Unanswered(q) \in Seq(Frames)
           /\ Carried(Unanswered(q)) = Carried(q)
           /\ Follows(Unanswered(q), H)
<1>1. CASE \E i \in DOMAIN q : q[i].k \in {"subscribed", "resumed"}
  <2> DEFINE n == CHOOSE i \in DOMAIN q : q[i].k \in {"subscribed", "resumed"}
  <2>1. n \in DOMAIN q /\ ~IsEvent(q[n])
    BY <1>1 DEF IsEvent
  <2>2. Unanswered(q) = RemoveAt(q, n)
    BY <1>1 DEF Unanswered
  <2> HIDE DEF n
  <2>3. QED
    BY <2>1, <2>2, RemoveFromQueue
<1>2. CASE ~\E i \in DOMAIN q : q[i].k \in {"subscribed", "resumed"}
    BY <1>2 DEF Unanswered
<1>3. QED
    BY <1>1, <1>2

\* One batch of a replay, behind the records before it.
LEMMA ReplayedBatch ==
    ASSUME NEW p \in Nat, NEW n \in Nat, p < n, NEW H, \A s \in 1..p : s \in H
    PROVE  LET batch == [i \in 1..(n - p) |-> Rec(p + i, TRUE)]
           IN  /\ batch \in Seq(Frames) /\ batch # << >>
               /\ Carried(batch) = (p + 1)..n /\ Follows(batch, H)
<1> DEFINE batch == [i \in 1..(n - p) |-> Rec(p + i, TRUE)]
<1>1. \A i \in 1..(n - p) : Rec(p + i, TRUE) \in Frames
    BY DEF Rec, Frames
<1>2. batch \in Seq(Frames) /\ Len(batch) = n - p /\ batch # << >>
  <2> DEFINE len == n - p
  <2>1. len \in Nat \ {0}
    OBVIOUS
  <2>2. batch \in [1..len -> Frames]
    BY <1>1, Zenon
  <2>3. DOMAIN batch = 1..len
    OBVIOUS
  <2> HIDE DEF batch, len
  <2>4. batch \in Seq(Frames)
    BY <2>1, <2>2, SeqDef
  <2>5. DOMAIN batch = 1..Len(batch) /\ Len(batch) \in Nat
    BY <2>4, LenProperties
  <2>6. Len(batch) = len
    BY <2>1, <2>3, <2>5
  <2>7. QED
    BY <2>1, <2>4, <2>6 DEF len
<1>3. \A i \in 1..Len(batch) : /\ IsEvent(batch[i]) /\ batch[i].seq = p + i
                               /\ Own(batch[i]) = {p + i}
    BY <1>2 DEF Rec, IsEvent, Own
<1> HIDE DEF batch
<1>4. ASSUME NEW s PROVE s \in Carried(batch) <=> s \in (p + 1)..n
  <2>1. s \in Carried(batch) <=> \E i \in 1..(n - p) : s \in Own(batch[i])
    BY <1>2, InCarried
  <2>2. ASSUME s \in (p + 1)..n PROVE \E i \in 1..(n - p) : s = p + i
    <3>1. (s - p) \in 1..(n - p) /\ s = p + (s - p)
        BY <2>2
    <3>2. QED
        BY <3>1
  <2>3. \A i \in 1..(n - p) : Own(batch[i]) = {p + i}
    BY <1>2, <1>3
  <2>4. \A i \in 1..(n - p) : p + i \in (p + 1)..n
    OBVIOUS
  <2>5. QED
    BY <2>1, <2>2, <2>3, <2>4
<1>5. Follows(batch, H)
  <2> SUFFICES ASSUME NEW i \in 1..(n - p), NEW s \in 1..((p + i) - 1)
               PROVE  s \in H \/ \E j \in 1..(i - 1) : s \in Own(batch[j])
    <3>1. ASSUME NEW i \in DOMAIN batch
          PROVE  i \in 1..(n - p) /\ batch[i].seq - 1 = (p + i) - 1
        BY <1>2, <1>3
    <3>2. QED
        BY <3>1 DEF Follows
  <2>1. CASE s \in 1..p
    BY <2>1
  <2>2. CASE s > p
    <3>1. (s - p) \in 1..(i - 1) /\ (s - p) \in 1..(n - p) /\ s = p + (s - p)
        BY <2>2
    <3>2. s \in Own(batch[s - p])
        BY <3>1, <1>2, <1>3
    <3>3. QED
        BY <3>1, <3>2
  <2>3. QED
    BY <2>1, <2>2
<1>6. Carried(batch) = (p + 1)..n
    BY <1>4
<1>7. QED
    BY <1>2, <1>5, <1>6 DEF batch

\* The copies of one live record, one for each subscription.
LEMMA LiveCopies ==
    ASSUME NEW s \in Nat \ {0}, NEW n \in Nat \ {0}, NEW H, \A t \in 1..(s - 1) : t \in H
    PROVE  LET copies == [i \in 1..n |-> Rec(s, FALSE)]
           IN  /\ copies \in Seq(Frames) /\ copies # << >>
               /\ Carried(copies) = {s} /\ Follows(copies, H)
<1> DEFINE copies == [i \in 1..n |-> Rec(s, FALSE)]
<1>1. copies \in Seq(Frames) /\ Len(copies) = n /\ copies # << >>
    BY DEF Rec, Frames
<1>2. \A i \in 1..Len(copies) : /\ IsEvent(copies[i]) /\ copies[i].seq = s
                                /\ Own(copies[i]) = {s}
    BY <1>1 DEF Rec, IsEvent, Own
<1> HIDE DEF copies
<1>3. ASSUME NEW t PROVE t \in Carried(copies) <=> t = s
  <2>1. t \in Carried(copies) <=> \E i \in 1..n : t = s
    BY <1>1, <1>2, InCarried
  <2>2. 1 \in 1..n
    OBVIOUS
  <2>3. QED
    BY <2>1, <2>2
<1>4. Follows(copies, H)
    BY <1>1, <1>2 DEF Follows
<1>5. Carried(copies) = {s}
    BY <1>3
<1>6. QED
    BY <1>1, <1>4, <1>5 DEF copies

-----------------------------------------------------------------------------
(* The inductive invariant.                                                *)

\* The records shown, handed to the UI thread, and sent.
Shown  == 1..Len(applied)
Handed == Shown \cup Carried(uiq)
Out    == Handed \cup Carried(wire)
Sent   == Out \cup Carried(out)

\* The records that the bus has had: all but the one under appendMutex_.
Published == IF committing = {} THEN Len(log) ELSE Len(log) - 1

\* Of the types, what the proofs need.
TypeOK ==
    /\ log \in Seq(Kinds) /\ conn \in BOOLEAN
    /\ committing \in {{}, {Len(log)}} /\ (committing # {} => log # << >>)
    /\ lastForwarded \in Nat /\ posted \in Seq(Nat)
    /\ subs \in Nat /\ replaying \in Nat \cup {Idle}
    /\ uiq \in Seq(Frames) /\ wire \in Seq(Frames) /\ out \in Seq(Frames)
    /\ cursor \in Nat /\ through \in Nat /\ applied \in Seq(Nat)

\* The adapter applies what the log holds, in its order.
InOrder == /\ Len(applied) <= Len(log)
           /\ \A i \in 1..Len(applied) : applied[i] = i

\* The queues between the host and the adapter leave no gap.
Gapless == /\ Follows(uiq, Shown) /\ Follows(wire, Handed) /\ Follows(out, Out)
           /\ \A s \in Sent : s \in 1..Len(log)

\* What positions stand for.
Positions == /\ through <= Len(applied)
             /\ \A s \in 1..cursor : s \in Handed

\* The server has nothing for a connection that is gone, and only the host of
\* the pinned boot id has one.
Closed == /\ ~conn => subs = 0 /\ replaying = Idle /\ out = << >>
          /\ conn => pinned

\* The posted records are the last of the published ones.
Forwarding == /\ lastForwarded <= Published /\ Len(posted) <= Published
              /\ \A i \in 1..Len(posted) : posted[i] = (Published - Len(posted)) + i

\* A live subscription has been sent all that is published and not posted, and a
\* replay all up to its position.
Live     == subs > 0 => \A s \in 1..(Published - Len(posted)) : s \in Sent
Replayed == replaying # Idle => replaying <= Len(log) /\ \A s \in 1..replaying : s \in Sent

IInv == TypeOK /\ InOrder /\ Gapless /\ Positions /\ Closed /\ Forwarding /\ Live /\ Replayed

\* What IInv speaks about, and a step that changes none of it.
hostPart == <<log, committing, lastForwarded, posted>>
feedVars == <<hostPart, conn, pinned, subs, replaying, out, wire, uiq, cursor, through,
            applied>>

LEMMA Unchanged == ASSUME IInv, UNCHANGED feedVars PROVE IInv'
<1> USE DEF IInv, feedVars, hostPart
<1>1. Shown' = Shown /\ Handed' = Handed /\ Out' = Out /\ Sent' = Sent /\ Published' = Published
    BY DEF Shown, Handed, Out, Sent, Published
<1>2. TypeOK'
    BY DEF TypeOK
<1>3. InOrder' /\ Positions' /\ Closed' /\ Forwarding' /\ Live' /\ Replayed'
    BY <1>1 DEF InOrder, Positions, Closed, Forwarding, Live, Replayed
<1>4. Gapless'
    BY <1>1 DEF Gapless
<1>5. QED
    BY <1>2, <1>3, <1>4

LEMMA InitOK == Init => IInv
<1> SUFFICES ASSUME Init PROVE IInv
    OBVIOUS
<1> USE DEF Init
<1>1. TypeOK
  <2>1. << >> \in Seq(Frames) /\ << >> \in Seq(Nat) /\ << >> \in Seq(Kinds)
    BY EmptySeq
  <2>2. QED
    BY <2>1 DEF TypeOK
<1>2. Carried(<< >>) = {}
    BY EmptyQueue
<1>3. Sent = {} /\ Len(applied) = 0 /\ Len(log) = 0
    BY <1>2 DEF Sent, Out, Handed, Shown
<1>4. Gapless
    BY <1>3, EmptyQueue DEF Gapless
<1>5. InOrder /\ Positions /\ Closed /\ Forwarding /\ Live /\ Replayed
    BY <1>3 DEF InOrder, Positions, Closed, Forwarding, Live, Replayed, Published
<1>6. QED
    BY <1>1, <1>4, <1>5 DEF IInv

\* The link is gone, or new: nothing is on its way and nobody is subscribed.
LEMMA FreshLink ==
    ASSUME IInv, UNCHANGED <<hostPart, uiq, applied>>,
           conn' \in BOOLEAN, conn' => pinned',
           subs' = 0, replaying' = Idle, out' = << >>, wire' = << >>,
           cursor' \in {0, cursor}, through' \in {0, through}
    PROVE  IInv'
<1> USE DEF hostPart
<1>1. TypeOK'
    BY EmptyQueue DEF IInv, TypeOK
<1>2. Carried(<< >>) = {}
    BY EmptyQueue
<1>3. Handed' = Handed /\ Shown' = Shown /\ Out' = Handed /\ Sent' = Handed
    BY <1>2 DEF Sent, Out, Handed, Shown
<1>4. Gapless'
  <2>1. \A s \in Handed : s \in 1..Len(log)
    BY DEF IInv, Gapless, Sent, Out
  <2>2. QED
    BY <1>3, <2>1, EmptyQueue DEF IInv, Gapless
<1>5. Positions'
    BY <1>3 DEF IInv, TypeOK, Positions
<1>6. InOrder' /\ Closed' /\ Live' /\ Replayed'
    BY DEF IInv, InOrder, Closed, Live, Replayed
<1>7. Forwarding'
    BY DEF IInv, Forwarding, Published
<1>8. QED
    BY <1>1, <1>4, <1>5, <1>6, <1>7 DEF IInv

-----------------------------------------------------------------------------
(* The host.                                                               *)

LEMMA AppendEventStep == ASSUME IInv, NEW kind \in Kinds, AppendEvent(kind) PROVE IInv'
<1> USE DEF IInv, AppendEvent, serverVars, pumpVars, uiVars
<1>1. log \in Seq(Kinds) /\ log' \in Seq(Kinds) /\ Len(log') = Len(log) + 1 /\ Len(log) \in Nat
    BY DEF TypeOK
<1>2. TypeOK'
  <2>1. committing' = {Len(log')} /\ log' # << >>
    BY <1>1
  <2>2. QED
    BY <1>1, <2>1 DEF TypeOK
<1>3. Published' = Published
    BY <1>1 DEF Published
<1>4. Shown' = Shown /\ Handed' = Handed /\ Out' = Out /\ Sent' = Sent
    BY DEF Shown, Handed, Out, Sent
<1>5. InOrder' /\ Positions' /\ Closed'
    BY <1>1, <1>4 DEF TypeOK, InOrder, Positions, Closed
<1>6. Gapless'
    BY <1>1, <1>4 DEF Gapless
<1>7. Forwarding' /\ Live' /\ Replayed'
    BY <1>1, <1>3, <1>4 DEF TypeOK, Forwarding, Live, Replayed, Idle
<1>8. QED
    BY <1>2, <1>5, <1>6, <1>7

LEMMA PublishStep == ASSUME IInv, PublishCommitted PROVE IInv'
<1> USE DEF IInv, serverVars, pumpVars, uiVars
<1>1. PICK s \in committing : PublishCommitted!(s)
    BY DEF PublishCommitted
<1>2. /\ s = Len(log) /\ Len(log) \in Nat \ {0} /\ committing' = {} /\ Published = s - 1

                 /\ Published' = s /\ s > lastForwarded /\ lastForwarded' = s /\ posted' = Append(posted, s)
  <2>1. s = Len(log) /\ committing = {s} /\ log # << >> /\ log \in Seq(Kinds)
    BY <1>1 DEF TypeOK
  <2>2. Len(log) \in Nat \ {0} /\ committing' = {} /\ Published = s - 1 /\ Published' = s
    BY <1>1, <2>1 DEF Published
  <2>3. s > lastForwarded
    BY <2>1, <2>2 DEF TypeOK, Forwarding
  <2>4. QED
    BY <1>1, <2>1, <2>2, <2>3
<1>3. /\ posted \in Seq(Nat) /\ posted' \in Seq(Nat) /\ Len(posted) \in Nat
      /\ Len(posted') = Len(posted) + 1
      /\ \A i \in 1..Len(posted') : posted'[i] = IF i <= Len(posted) THEN posted[i] ELSE s
    BY <1>2 DEF TypeOK
<1>4. Shown' = Shown /\ Handed' = Handed /\ Out' = Out /\ Sent' = Sent
    BY <1>1 DEF Shown, Handed, Out, Sent
<1>5. TypeOK'
    BY <1>1, <1>2, <1>3 DEF TypeOK
<1>6. InOrder' /\ Positions' /\ Closed' /\ Replayed'
    BY <1>1, <1>4 DEF InOrder, Positions, Closed, Replayed
<1>7. Gapless'
    BY <1>1, <1>4 DEF Gapless
<1>8. Forwarding'
  <2>1. /\ Len(posted) <= s - 1
        /\ \A i \in 1..Len(posted) : posted[i] = ((s - 1) - Len(posted)) + i
    BY <1>2 DEF Forwarding
  <2>2. s \in Nat /\ Len(posted) \in Nat /\ Len(posted') = Len(posted) + 1
    BY <1>2, <1>3
  <2>3. \A i \in 1..Len(posted') : posted'[i] = (s - Len(posted')) + i
    BY <1>3, <2>1, <2>2
  <2>4. QED
    BY <1>2, <2>1, <2>2, <2>3 DEF Forwarding
<1>9. Live'
    BY <1>1, <1>2, <1>3, <1>4 DEF TypeOK, Live
<1>10. QED
    BY <1>5, <1>6, <1>7, <1>8, <1>9

LEMMA CrashStep == ASSUME IInv, Crash PROVE IInv'
<1> USE DEF IInv, Crash, uiVars
<1>1. TypeOK'
  <2>1. << >> \in Seq(Frames) /\ << >> \in Seq(Nat)
    BY EmptySeq
  <2>2. QED
    BY <2>1 DEF TypeOK
<1>2. Carried(<< >>) = {}
    BY EmptyQueue
<1>3. Shown' = Shown /\ Handed' = Handed /\ Out' = Out /\ Sent' = Out
    BY <1>2 DEF Shown, Handed, Out, Sent
<1>4. Gapless'
  <2>1. \A s \in Out : s \in 1..Len(log)
    BY DEF Gapless, Sent
  <2>2. QED
    BY <1>3, <2>1, EmptyQueue DEF Gapless
<1>5. InOrder' /\ Positions' /\ Closed' /\ Live' /\ Replayed'
    BY <1>3 DEF InOrder, Positions, Closed, Live, Replayed
<1>6. Forwarding'
    BY DEF TypeOK, Forwarding, Published
<1>7. QED
    BY <1>1, <1>4, <1>5, <1>6

-----------------------------------------------------------------------------
(* The io thread.                                                          *)

\* What a handler sends has no event ahead of what was sent before it.
Sendable(frames) == /\ frames \in Seq(Frames) /\ frames # << >> /\ Follows(frames, Sent)
                    /\ \A s \in Carried(frames) : s \in 1..Len(log)

LEMMA SendStep ==
    ASSUME IInv, NEW frames, Sendable(frames), Send(frames), UNCHANGED <<log, uiq, applied>>
    PROVE  /\ out' \in Seq(Frames) /\ Handed' = Handed /\ Shown' = Shown
           /\ Sent' = Sent \cup Carried(frames) /\ Gapless'
<1> USE DEF IInv, Sendable
<1>1. out' = out \o frames /\ UNCHANGED <<conn, wire>>
    BY DEF Send
<1>2. /\ out' \in Seq(Frames) /\ Carried(out') = Carried(out) \cup Carried(frames)
      /\ Follows(out', Out)
    BY <1>1, ConcatQueue DEF TypeOK, Gapless, Sent
<1>3. Shown' = Shown /\ Handed' = Handed /\ Out' = Out
    BY <1>1 DEF Shown, Handed, Out
<1>4. Sent' = Sent \cup Carried(frames)
    BY <1>2, <1>3 DEF Sent
<1>5. Gapless'
    BY <1>1, <1>2, <1>3, <1>4 DEF Gapless
<1>6. QED
    BY <1>2, <1>3, <1>4, <1>5

\* A client that is dropped may still read one frame more.
LEMMA DropStep ==
    ASSUME IInv, NEW frames, Sendable(frames), DropClient(frames),
           UNCHANGED <<log, committing, pinned, uiq, cursor, through, applied>>,
           lastForwarded' = lastForwarded,
           posted' \in Seq(Nat), Forwarding'
    PROVE  IInv'
<1> USE DEF IInv, Sendable
<1>1. conn' = FALSE /\ subs' = 0 /\ replaying' = Idle /\ out' = << >>
    BY DEF DropClient
<1> DEFINE new == out \o frames
<1>2. /\ new \in Seq(Frames) /\ Carried(new) = Carried(out) \cup Carried(frames)
      /\ Follows(new, Out)
    BY ConcatQueue DEF TypeOK, Gapless, Sent
<1>3. new # << >>
    BY ConcatEqualIffEmpty DEF TypeOK
<1>4. wire' \in {wire, Append(wire, Head(new))}
    BY DEF DropClient
<1>5. Shown' = Shown /\ Handed' = Handed
    BY DEF Shown, Handed
<1> HIDE DEF new
<1>6. /\ Head(new) \in Frames
      /\ IsEvent(Head(new)) => \A s \in 1..(Head(new).seq - 1) : s \in Out
      /\ \A s \in Own(Head(new)) : s \in 1..Len(log)
  <2>1. /\ Head(new) \in Frames /\ Carried(new) = Own(Head(new)) \cup Carried(Tail(new))
        /\ IsEvent(Head(new)) => \A s \in 1..(Head(new).seq - 1) : s \in Out
    BY <1>2, <1>3, TailQueue
  <2>2. \A s \in Carried(out) : s \in 1..Len(log)
    BY DEF Gapless, Sent
  <2>3. QED
    BY <1>2, <2>1, <2>2
<1>7. /\ wire' \in Seq(Frames) /\ Follows(wire', Handed)
      /\ \A s \in Carried(wire') : s \in 1..Len(log)
  <2>1. CASE wire' = wire
    BY <2>1 DEF TypeOK, Gapless, Sent, Out
  <2>2. CASE wire' = Append(wire, Head(new))
    <3>1. /\ wire' \in Seq(Frames) /\ Carried(wire') = Carried(wire) \cup Own(Head(new))
          /\ Follows(wire', Handed)
        BY <2>2, <1>6, AppendQueue DEF TypeOK, Gapless, Out
    <3>2. \A s \in Carried(wire) : s \in 1..Len(log)
        BY DEF Gapless, Sent, Out
    <3>3. QED
        BY <3>1, <3>2, <1>6
  <2>3. QED
    BY <1>4, <2>1, <2>2
<1>8. TypeOK'
    BY <1>1, <1>7, EmptyQueue DEF TypeOK
<1>9. Gapless'
  <2>1. Carried(<< >>) = {} /\ \A H : Follows(<< >>, H)
    BY EmptyQueue
  <2>2. Out' = Handed \cup Carried(wire') /\ Sent' = Out'
    BY <1>1, <1>5, <2>1 DEF Out, Sent
  <2>3. \A s \in Handed : s \in 1..Len(log)
    BY DEF Gapless, Sent, Out
  <2>4. QED
    BY <1>1, <1>5, <1>7, <2>1, <2>2, <2>3 DEF Gapless
<1>10. InOrder' /\ Positions' /\ Closed' /\ Live' /\ Replayed'
    BY <1>1, <1>5 DEF InOrder, Positions, Closed, Live, Replayed
<1>11. QED
    BY <1>8, <1>9, <1>10

\* A reply or a notice, and what a handler may have changed with it.
LEMMA NoticeSendable ==
    ASSUME IInv, NEW f \in Frames, ~IsEvent(f)
    PROVE  Sendable(<<f>>) /\ Carried(<<f>>) = {}
<1>1. /\ <<f>> \in Seq(Frames) /\ Carried(<<f>>) = Own(f) /\ Follows(<<f>>, Sent)
    BY OneFrame
<1>2. Own(f) = {}
    BY OwnFrame
<1>3. QED
    BY <1>1, <1>2 DEF Sendable

LEMMA BeginSubscribeStep == ASSUME IInv, BeginSubscribe PROVE IInv'
<1> USE DEF BeginSubscribe, hostVars, uiVars
<1>1. Sendable(<<Accepted>>) /\ Carried(<<Accepted>>) = {}
  <2>1. Accepted \in Frames /\ ~IsEvent(Accepted)
    BY DEF Accepted, Frames, IsEvent
  <2>2. QED
    BY <2>1, NoticeSendable
<1>2. Forwarding'
    BY DEF IInv, Forwarding, Published
<1>3. CASE Send(<<Accepted>>) /\ replaying' = Position(cursor, Len(log)) /\ UNCHANGED subs

             <2>1. /\ out' \in Seq(Frames) /\ Handed' = Handed /\ Shown' = Shown /\ Sent' = Sent /\ Gapless'
    BY <1>1, <1>3, SendStep
  <2>2. conn' = conn /\ wire' = wire /\ conn
    BY <1>3 DEF Send, IoIdle
  <2>3. replaying' \in Nat /\ replaying' <= Len(log) /\ replaying' <= cursor
    BY <1>3 DEF IInv, TypeOK, Position
  <2>4. \A s \in 1..replaying' : s \in Sent
    BY <2>3 DEF IInv, TypeOK, Positions, Sent, Out
  <2>5. TypeOK'
    BY <2>1, <2>2, <2>3, <1>3 DEF IInv, TypeOK
  <2>6. Replayed'
    BY <2>1, <2>3, <2>4 DEF Replayed
  <2>7. InOrder' /\ Positions' /\ Closed' /\ Live'
    BY <1>3, <2>1, <2>2 DEF IInv, InOrder, Positions, Closed, Live, Published
  <2>8. QED
    BY <1>2, <2>1, <2>5, <2>6, <2>7 DEF IInv
<1>4. CASE DropClient(<<Accepted>>)
    BY <1>1, <1>2, <1>4, DropStep DEF IInv, TypeOK
<1>5. QED
    BY <1>3, <1>4

LEMMA ReplayBatchStep == ASSUME IInv, ReplayBatch PROVE IInv'
<1> USE DEF ReplayBatch, hostVars, pumpVars, uiVars
<1> DEFINE batch == [i \in 1..(Len(log) - replaying) |-> Rec(replaying + i, TRUE)]
<1>1. /\ replaying \in Nat /\ Len(log) \in Nat /\ replaying < Len(log)
      /\ \A s \in 1..replaying : s \in Sent
    BY DEF IInv, TypeOK, Replayed
<1>2. Sendable(batch) /\ Carried(batch) = (replaying + 1)..Len(log)
  <2>1. /\ batch \in Seq(Frames) /\ batch # << >>
        /\ Carried(batch) = (replaying + 1)..Len(log) /\ Follows(batch, Sent)
    BY <1>1, ReplayedBatch
  <2> HIDE DEF batch
  <2>2. \A s \in (replaying + 1)..Len(log) : s \in 1..Len(log)
    BY <1>1
  <2>3. QED
    BY <2>1, <2>2 DEF Sendable
<1>3. \/ Send(batch) /\ replaying' = Len(log) /\ UNCHANGED subs
      \/ DropClient(batch)
    OBVIOUS
<1> HIDE DEF batch
<1>4. Forwarding'
    BY DEF IInv, Forwarding, Published
<1>5. CASE Send(batch) /\ replaying' = Len(log) /\ UNCHANGED subs
  <2>1. /\ out' \in Seq(Frames) /\ Handed' = Handed /\ Shown' = Shown
        /\ Sent' = Sent \cup Carried(batch) /\ Gapless'
    BY <1>2, <1>5, SendStep
  <2>2. conn' = conn /\ wire' = wire /\ conn
    BY <1>5, <1>1 DEF Send, IInv, TypeOK, Closed, Idle
  <2>3. \A s \in 1..replaying' : s \in Sent'
    <3>1. \A s \in 1..Len(log) : s \in 1..replaying \/ s \in (replaying + 1)..Len(log)
        BY <1>1
    <3>2. QED
        BY <3>1, <1>1, <1>2, <1>5, <2>1
  <2>4. TypeOK'
    BY <2>1, <2>2, <1>1, <1>5 DEF IInv, TypeOK
  <2>5. Replayed'
    BY <1>1, <1>5, <2>3 DEF Replayed
  <2>6. InOrder' /\ Positions' /\ Closed' /\ Live'
    BY <1>5, <2>1, <2>2 DEF IInv, InOrder, Positions, Closed, Live, Published
  <2>7. QED
    BY <1>4, <2>1, <2>4, <2>5, <2>6 DEF IInv
<1>6. CASE DropClient(batch)
    BY <1>2, <1>4, <1>6, DropStep DEF IInv, TypeOK
<1>7. QED
    BY <1>3, <1>5, <1>6

LEMMA FinishSubscribeStep == ASSUME IInv, FinishSubscribe PROVE IInv'
<1> USE DEF FinishSubscribe, hostVars, pumpVars, uiVars
<1>1. Sendable(<<Complete>>) /\ Carried(<<Complete>>) = {}
  <2>1. Complete \in Frames /\ ~IsEvent(Complete)
    BY DEF Complete, Frames, IsEvent
  <2>2. QED
    BY <2>1, NoticeSendable
<1>2. Forwarding'
    BY DEF IInv, Forwarding, Published
<1>3. CASE Send(<<Complete>>) /\ subs' = subs + 1 /\ replaying' = Idle

             <2>1. /\ out' \in Seq(Frames) /\ Handed' = Handed /\ Shown' = Shown /\ Sent' = Sent /\ Gapless'
    BY <1>1, <1>3, SendStep
  <2>2. conn' = conn /\ wire' = wire /\ conn
    BY <1>3 DEF Send, IInv, TypeOK, Closed
  <2>3. Live'
    <3>1. \A s \in 1..Len(log) : s \in Sent
        BY DEF IInv, Replayed
    <3>2. Published' - Len(posted') <= Len(log) /\ Published' - Len(posted') \in Int
        BY DEF IInv, TypeOK, Published
    <3>3. QED
        BY <2>1, <3>1, <3>2 DEF IInv, TypeOK, Live
  <2>4. TypeOK'
    BY <2>1, <2>2, <1>3 DEF IInv, TypeOK
  <2>5. InOrder' /\ Positions' /\ Closed' /\ Replayed'
    BY <1>3, <2>1, <2>2 DEF IInv, InOrder, Positions, Closed, Replayed
  <2>6. QED
    BY <1>2, <2>1, <2>3, <2>4, <2>5 DEF IInv
<1>4. CASE DropClient(<<Complete>>)
    BY <1>1, <1>2, <1>4, DropStep DEF IInv, TypeOK
<1>5. QED
    BY <1>3, <1>4

LEMMA HandleResumeStep == ASSUME IInv, HandleResume PROVE IInv'
<1> USE DEF HandleResume, hostVars, uiVars
<1> DEFINE f     == Resumed(IF running THEN "Running" ELSE "Idle")
           reply == <<f>>
<1>1. Sendable(reply) /\ Carried(reply) = {}
  <2>1. f \in Frames /\ ~IsEvent(f)
    BY DEF Resumed, Frames, IsEvent
  <2> HIDE DEF f
  <2>2. QED
    BY <2>1, NoticeSendable
<1>2. (Send(reply) /\ UNCHANGED <<subs, replaying>>) \/ DropClient(reply)
    OBVIOUS
<1> HIDE DEF f, reply
<1>3. Forwarding'
    BY DEF IInv, Forwarding, Published
<1>4. CASE Send(reply) /\ UNCHANGED <<subs, replaying>>

             <2>1. /\ out' \in Seq(Frames) /\ Handed' = Handed /\ Shown' = Shown /\ Sent' = Sent /\ Gapless'
    BY <1>1, <1>4, SendStep
  <2>2. conn' = conn /\ wire' = wire /\ conn
    BY <1>4 DEF Send, IoIdle
  <2>3. TypeOK'
    BY <2>1, <2>2, <1>4 DEF IInv, TypeOK
  <2>4. InOrder' /\ Positions' /\ Closed' /\ Live' /\ Replayed'
    BY <1>4, <2>1, <2>2 DEF IInv, InOrder, Positions, Closed, Live, Replayed, Published
  <2>5. QED
    BY <1>3, <2>1, <2>3, <2>4 DEF IInv
<1>5. CASE DropClient(reply)
    BY <1>1, <1>3, <1>5, DropStep DEF IInv, TypeOK
<1>6. QED
    BY <1>2, <1>4, <1>5

\* A record is posted after all before it, so its event may be sent: what is
\* published and no longer posted has been sent to a live subscription.
LEMMA OnEventCommittedStep == ASSUME IInv, OnEventCommitted PROVE IInv'
<1> USE DEF OnEventCommitted, pumpVars, uiVars, serverVars
<1> DEFINE s      == Head(posted)
           copies == [i \in 1..subs |-> Rec(s, FALSE)]
<1>1. /\ posted \in Seq(Nat) /\ posted' \in Seq(Nat) /\ Len(posted') = Len(posted) - 1
      /\ Len(posted) \in Nat \ {0} /\ s = posted[1]
      /\ \A i \in 1..Len(posted') : posted'[i] = posted[i + 1]
    BY HeadTailProperties DEF IInv, TypeOK
<1>2. Published' = Published /\ Published \in Int /\ Published <= Len(log) /\ Len(log) \in Nat
    BY DEF IInv, TypeOK, Published
<1>3. s = (Published - Len(posted)) + 1 /\ s \in Nat \ {0} /\ s <= Len(log)
  <2>1. s = (Published - Len(posted)) + 1
    BY <1>1 DEF IInv, Forwarding
  <2>2. Len(posted) <= Published
    BY DEF IInv, Forwarding
  <2>3. Len(posted) \in Nat \ {0}
    BY <1>1
  <2> HIDE DEF s, OnEventCommitted
  <2>4. QED
    BY <1>2, <2>1, <2>2, <2>3
<1>4. Forwarding'
    BY <1>1, <1>2 DEF IInv, TypeOK, Forwarding
<1>5. ASSUME conn, subs > 0 PROVE Sendable(copies) /\ Carried(copies) = {s}
  <2>1. \A t \in 1..(s - 1) : t \in Sent
    BY <1>2, <1>3, <1>5 DEF IInv, Live
  <2>2. subs \in Nat \ {0}
    BY <1>5 DEF IInv, TypeOK
  <2> HIDE DEF s
  <2>3. /\ copies \in Seq(Frames) /\ copies # << >>
        /\ Carried(copies) = {s} /\ Follows(copies, Sent)
    BY <1>3, <2>1, <2>2, LiveCopies
  <2> HIDE DEF copies
  <2>4. QED
    BY <1>2, <1>3, <2>3 DEF Sendable
<1>6. CASE conn /\ subs > 0 /\ Send(copies) /\ UNCHANGED <<subs, replaying>>
  <2> HIDE DEF s, copies
  <2>1. /\ out' \in Seq(Frames) /\ Handed' = Handed /\ Shown' = Shown
        /\ Sent' = Sent \cup {s} /\ Gapless'
    BY <1>5, <1>6, SendStep
  <2>2. conn' = conn /\ wire' = wire
    BY <1>6 DEF Send
  <2>3. TypeOK'
    BY <1>1, <1>6, <2>1, <2>2 DEF IInv, TypeOK
  <2>4. Live'
    <3>1. Published' - Len(posted') = s
      <4>1. Len(posted') = Len(posted) - 1 /\ Len(posted) \in Nat
        BY <1>1
      <4> HIDE DEF OnEventCommitted
      <4>2. QED
        BY <4>1, <1>2, <1>3
    <3>2. \A t \in 1..(s - 1) : t \in Sent
        BY <1>2, <1>3, <1>6 DEF IInv, Live
    <3>3. \A t \in 1..s : t \in 1..(s - 1) \/ t = s
        BY <1>3
    <3>4. QED
        BY <3>1, <3>2, <3>3, <2>1 DEF Live
  <2>5. InOrder' /\ Positions' /\ Closed' /\ Replayed'
    BY <1>6, <2>1, <2>2 DEF IInv, InOrder, Positions, Closed, Replayed
  <2>6. QED
    BY <1>4, <2>1, <2>3, <2>4, <2>5 DEF IInv
<1>7. CASE conn /\ subs > 0 /\ DropClient(copies)
  <2> HIDE DEF s, copies
  <2>1. QED
    BY <1>1, <1>4, <1>5, <1>7, DropStep
<1>8. CASE (~conn \/ subs = 0) /\ UNCHANGED <<serverVars, wire>>
  <2>1. Shown' = Shown /\ Handed' = Handed /\ Out' = Out /\ Sent' = Sent
    BY <1>8 DEF Shown, Handed, Out, Sent
  <2>2. TypeOK'
    BY <1>1, <1>8 DEF IInv, TypeOK
  <2>3. Gapless'
    BY <1>8, <2>1 DEF IInv, Gapless
  <2>4. Live'
    BY <1>8 DEF IInv, TypeOK, Closed, Live
  <2>5. InOrder' /\ Positions' /\ Closed' /\ Replayed'
    BY <1>8, <2>1 DEF IInv, InOrder, Positions, Closed, Replayed
  <2>6. QED
    BY <1>4, <2>2, <2>3, <2>4, <2>5 DEF IInv
<1>9. QED
    BY <1>6, <1>7, <1>8

LEMMA WriteFrameStep == ASSUME IInv, WriteFrame PROVE IInv'
<1> USE DEF IInv, WriteFrame, hostVars, pumpVars, uiVars
<1>1. /\ Head(out) \in Frames /\ out' \in Seq(Frames)
      /\ Carried(out) = Own(Head(out)) \cup Carried(out')
      /\ Follows(out', Out \cup Own(Head(out)))
      /\ IsEvent(Head(out)) => \A s \in 1..(Head(out).seq - 1) : s \in Out
    BY TailQueue DEF TypeOK, Gapless
<1>2. /\ wire' \in Seq(Frames) /\ Carried(wire') = Carried(wire) \cup Own(Head(out))
      /\ Follows(wire', Handed)
    BY <1>1, AppendQueue DEF TypeOK, Gapless, Out
<1>3. Shown' = Shown /\ Handed' = Handed
    BY DEF Shown, Handed
<1>4. Out' = Out \cup Own(Head(out))
    BY <1>2, <1>3 DEF Out
<1>5. Sent' = Sent
    BY <1>1, <1>4 DEF Sent
<1>6. TypeOK'
    BY <1>1, <1>2 DEF TypeOK
<1>7. Gapless'
    BY <1>1, <1>2, <1>3, <1>4, <1>5 DEF Gapless
<1>8. InOrder' /\ Positions' /\ Closed' /\ Forwarding' /\ Live' /\ Replayed'
    BY <1>3, <1>5 DEF InOrder, Positions, Closed, Forwarding, Live, Replayed, Published, IoIdle
<1>9. QED
    BY <1>6, <1>7, <1>8

-----------------------------------------------------------------------------
(* The pump.                                                               *)

LEMMA ConnectStep == ASSUME IInv, Connect PROVE IInv'
BY FreshLink DEF Connect, hostVars, hostPart, uiVars, IInv, TypeOK

LEMMA NoticeLossStep == ASSUME IInv, NoticeLoss PROVE IInv'
BY FreshLink
   DEF NoticeLoss, Disconnect, hostVars, serverVars, hostPart, uiVars, IInv, TypeOK, Closed

LEMMA LoseLinkStep == ASSUME IInv, LoseLink PROVE IInv'
BY FreshLink DEF LoseLink, Disconnect, hostVars, hostPart, uiVars, IInv, TypeOK

\* What the pump takes out of the wire is no event, or its first.
LEMMA ReceiveReplyStep == ASSUME IInv, ReceiveReply PROVE IInv'
<1> USE DEF IInv, hostVars, serverVars, uiVars
<1>1. PICK i \in DOMAIN wire :
           /\ wire[i].k \in {"subscribed", "resumed"}
           /\ wire' = RemoveAt(wire, i)
           /\ uiq' = Append(uiq, wire[i]) \/ uiq' = uiq
    BY DEF ReceiveReply
<1>2. UNCHANGED <<log, hostVars, serverVars, pinned, cursor, uiVars>>
    BY DEF ReceiveReply
<1>3. wire[i] \in Frames /\ ~IsEvent(wire[i]) /\ Own(wire[i]) = {}
    BY <1>1, OwnFrame DEF TypeOK, IsEvent
<1>4. /\ wire' \in Seq(Frames) /\ Carried(wire') = Carried(wire) /\ Follows(wire', Handed)
    BY <1>1, <1>3, RemoveFromQueue DEF TypeOK, Gapless
<1>5. /\ uiq' \in Seq(Frames) /\ Carried(uiq') = Carried(uiq) /\ Follows(uiq', Shown)
  <2>1. uiq \in Seq(Frames) /\ Follows(uiq, Shown)
    BY DEF TypeOK, Gapless
  <2>2. CASE uiq' = uiq
    BY <2>1, <2>2
  <2>3. CASE uiq' = Append(uiq, wire[i])
    <3>1. /\ Append(uiq, wire[i]) \in Seq(Frames)
          /\ Carried(Append(uiq, wire[i])) = Carried(uiq) \cup Own(wire[i])
          /\ Follows(Append(uiq, wire[i]), Shown)
        BY <2>1, <1>3, AppendQueue
    <3>2. QED
        BY <2>3, <3>1, <1>3
  <2>4. QED
    BY <1>1, <2>2, <2>3
<1>6. Shown' = Shown /\ Handed' = Handed /\ Out' = Out /\ Sent' = Sent
    BY <1>2, <1>4, <1>5 DEF Shown, Handed, Out, Sent
<1>7. TypeOK'
    BY <1>2, <1>4, <1>5 DEF TypeOK
<1>8. Gapless'
    BY <1>2, <1>4, <1>5, <1>6 DEF Gapless
<1>9. InOrder' /\ Positions' /\ Closed' /\ Forwarding' /\ Live' /\ Replayed'
    BY <1>2, <1>6 DEF InOrder, Positions, Closed, Forwarding, Live, Replayed, Published
<1>10. QED
    BY <1>7, <1>8, <1>9

LEMMA RequestTimesOutStep == ASSUME IInv, RequestTimesOut PROVE IInv'
<1> USE DEF IInv, RequestTimesOut, hostVars, uiVars
<1>1. /\ wire' \in Seq(Frames) /\ Carried(wire') = Carried(wire) /\ Follows(wire', Handed)
    BY UnansweredQueue DEF TypeOK, Gapless
<1>2. /\ out' \in Seq(Frames) /\ Carried(out') = Carried(out) /\ Follows(out', Out)
    BY UnansweredQueue DEF TypeOK, Gapless
<1>3. Shown' = Shown /\ Handed' = Handed /\ Out' = Out /\ Sent' = Sent
    BY <1>1, <1>2 DEF Shown, Handed, Out, Sent
<1>4. TypeOK'
    BY <1>1, <1>2 DEF TypeOK
<1>5. Gapless'
    BY <1>1, <1>2, <1>3 DEF Gapless
<1>6. ~conn => out' = << >>
    BY DEF Closed, Unanswered
<1>7. InOrder' /\ Positions' /\ Closed' /\ Forwarding' /\ Live' /\ Replayed'
    BY <1>3, <1>6 DEF InOrder, Positions, Closed, Forwarding, Live, Replayed, Published
<1>8. QED
    BY <1>4, <1>5, <1>7

\* The cursor moves to an event all of whose predecessors the UI thread has.
LEMMA DispatchStep == ASSUME IInv, Dispatch PROVE IInv'
<1> USE DEF IInv, Dispatch, hostVars, serverVars, uiVars
<1> DEFINE f == Head(wire)
<1>1. /\ f \in Frames /\ wire' \in Seq(Frames) /\ Carried(wire) = Own(f) \cup Carried(wire')
      /\ Follows(wire', Handed \cup Own(f))
      /\ IsEvent(f) => \A s \in 1..(f.seq - 1) : s \in Handed
    BY TailQueue DEF TypeOK, Gapless
<1>2. /\ uiq' \in Seq(Frames) /\ Carried(uiq') = Carried(uiq) \cup Own(f)
      /\ Follows(uiq', Shown)
    BY <1>1, AppendQueue DEF TypeOK, Gapless, Handed
<1>3. Shown' = Shown /\ Handed' = Handed \cup Own(f)
    BY <1>2 DEF Shown, Handed
<1>4. Out' = Out
    BY <1>1, <1>3 DEF Out
<1>5. Sent' = Sent
    BY <1>4 DEF Sent
<1>6. cursor' \in Nat /\ \A s \in 1..cursor' : s \in Handed'
  <2>1. CASE IsEvent(f)
    <3>1. cursor' = f.seq /\ f.seq \in Nat \ {0} /\ Own(f) = {f.seq}
        BY <2>1, <1>1, OwnFrame DEF IsEvent
    <3>2. \A s \in 1..f.seq : s \in 1..(f.seq - 1) \/ s = f.seq
        BY <3>1
    <3>3. QED
        BY <2>1, <3>1, <3>2, <1>1, <1>3
  <2>2. CASE ~IsEvent(f)
    BY <2>2, <1>3 DEF IsEvent, TypeOK, Positions
  <2>3. QED
    BY <2>1, <2>2
<1>7. TypeOK'
    BY <1>1, <1>2, <1>6 DEF TypeOK
<1>8. Gapless'
    BY <1>1, <1>2, <1>3, <1>4, <1>5 DEF Gapless
<1>9. Positions'
    BY <1>6 DEF Positions
<1>10. InOrder' /\ Closed' /\ Forwarding' /\ Live' /\ Replayed'
    BY <1>3, <1>5 DEF InOrder, Closed, Forwarding, Live, Replayed, Published
<1>11. QED
    BY <1>7, <1>8, <1>9, <1>10

-----------------------------------------------------------------------------
(* The UI thread, the scanner and the user.                                *)

\* The adapter has applied the events it has applied: an event is fresh exactly
\* if it is the next one.
LEMMA HeadIsNext ==
    ASSUME IInv, uiq # << >>, IsEvent(Head(uiq))
    PROVE  LET e == Head(uiq) IN
           /\ e.seq \in 1..Len(log) /\ Own(e) = {e.seq} /\ Len(applied) \in Nat
           /\ IF e.seq \notin ToSet(applied) THEN e.seq = Len(applied) + 1
                                              ELSE e.seq \in 1..Len(applied)
<1> DEFINE e == Head(uiq)
<1>1. /\ e \in Frames /\ Own(e) = {e.seq} /\ e.seq \in Nat \ {0}
      /\ Carried(uiq) = Own(e) \cup Carried(Tail(uiq))
      /\ \A s \in 1..(e.seq - 1) : s \in Shown
  <2>1. /\ e \in Frames /\ Carried(uiq) = Own(e) \cup Carried(Tail(uiq))
        /\ IsEvent(e) => \A s \in 1..(e.seq - 1) : s \in Shown
    BY TailQueue DEF IInv, TypeOK, Gapless
  <2>2. QED
    BY <2>1, OwnFrame
<1> HIDE DEF e
<1>2. e.seq \in 1..Len(log)
    BY <1>1 DEF IInv, Gapless, Sent, Out, Handed
<1>3. Len(applied) \in Nat /\ e.seq - 1 <= Len(applied)
  <2>1. Len(applied) \in Nat
    BY DEF IInv, TypeOK
  <2>2. CASE e.seq = 1
    BY <2>1, <2>2
  <2>3. CASE e.seq # 1
    <3>1. (e.seq - 1) \in 1..(e.seq - 1)
        BY <1>1, <2>3
    <3>2. QED
        BY <3>1, <2>1, <1>1 DEF Shown
  <2>4. QED
    BY <2>2, <2>3
<1>4. ToSet(applied) = 1..Len(applied)
  <2>1. DOMAIN applied = 1..Len(applied) /\ \A i \in 1..Len(applied) : applied[i] = i
    BY LenProperties DEF IInv, TypeOK, InOrder
  <2>2. \A s : s \in ToSet(applied) <=> s \in 1..Len(applied)
    BY <2>1 DEF ToSet
  <2>3. QED
    BY <2>2
<1>5. QED
    BY <1>1, <1>2, <1>3, <1>4 DEF e

LEMMA ApplyEventStep == ASSUME IInv, ApplyEvent PROVE IInv'
<1> USE DEF IInv, hostVars, serverVars, pumpVars
<1> DEFINE e == Head(uiq)
           fresh == e.seq \notin ToSet(applied)
<1>1. /\ uiq # << >> /\ IsEvent(e) /\ uiq' = Tail(uiq)
      /\ through' \in {through, e.seq}
      /\ applied' = IF fresh THEN Append(applied, e.seq) ELSE applied
      /\ UNCHANGED <<log, hostVars, serverVars, wire, pumpVars>>
    BY DEF ApplyEvent, IsEvent
<1>2. /\ e.seq \in 1..Len(log) /\ Own(e) = {e.seq} /\ Len(applied) \in Nat
      /\ IF fresh THEN e.seq = Len(applied) + 1 ELSE e.seq \in 1..Len(applied)
    BY <1>1, HeadIsNext
<1>3. /\ uiq' \in Seq(Frames) /\ Carried(uiq) = Own(e) \cup Carried(uiq')
      /\ Follows(uiq', Shown \cup Own(e))
    BY <1>1, TailQueue DEF TypeOK, Gapless
<1> HIDE DEF e, fresh
<1>4. /\ applied' \in Seq(Nat) /\ Len(applied') \in Nat /\ InOrder'
      /\ Len(applied) <= Len(applied') /\ e.seq <= Len(applied')
  <2>1. Len(log) \in Nat /\ e.seq \in Nat /\ applied \in Seq(Nat)
    BY <1>2 DEF TypeOK
  <2>2. CASE fresh
    <3>1. applied' = Append(applied, e.seq) /\ e.seq = Len(applied) + 1
        BY <1>1, <1>2, <2>2
    <3>2. /\ applied' \in Seq(Nat) /\ Len(applied') = Len(applied) + 1
          /\ \A i \in 1..Len(applied') :
                applied'[i] = IF i <= Len(applied) THEN applied[i] ELSE e.seq
        BY <3>1, <2>1, AppendProperties
    <3>3. InOrder'
        BY <3>1, <3>2, <2>1, <1>1, <1>2 DEF InOrder
    <3>4. QED
        BY <3>1, <3>2, <3>3, <1>2
  <2>3. CASE ~fresh
    BY <1>1, <1>2, <2>1, <2>3 DEF InOrder
  <2>4. QED
    BY <2>2, <2>3
<1>5. Shown' = Shown \cup Own(e)
  <2>1. CASE fresh
    <3>1. applied' = Append(applied, e.seq) /\ e.seq = Len(applied) + 1
        BY <1>1, <1>2, <2>1
    <3>2. Len(applied') = Len(applied) + 1
        BY <3>1 DEF TypeOK
    <3>3. QED
        BY <3>1, <3>2, <1>2 DEF Shown
  <2>2. CASE ~fresh
    BY <1>1, <1>2, <2>2 DEF Shown
  <2>3. QED
    BY <2>1, <2>2
<1>6. Handed' = Handed
    BY <1>3, <1>5 DEF Handed
<1>7. Out' = Out /\ Sent' = Sent
    BY <1>1, <1>6 DEF Out, Sent
<1>8. TypeOK'
    BY <1>1, <1>2, <1>3, <1>4 DEF TypeOK
<1>9. Gapless'
    BY <1>1, <1>3, <1>5, <1>6, <1>7 DEF Gapless
<1>10. Positions'
    BY <1>1, <1>2, <1>4, <1>6 DEF TypeOK, Positions
<1>11. Closed' /\ Forwarding' /\ Live' /\ Replayed'
    BY <1>1, <1>7 DEF Closed, Forwarding, Live, Replayed, Published
<1>12. QED
    BY <1>4, <1>8, <1>9, <1>10, <1>11

\* A closure that is no event leaves the UI thread's queue as it came.
LEMMA NoticeTaken ==
    ASSUME IInv, uiq # << >>, ~IsEvent(Head(uiq)), uiq' = Tail(uiq),
           UNCHANGED <<applied, wire, out>>
    PROVE  /\ uiq' \in Seq(Frames) /\ Follows(uiq', Shown)
           /\ Shown' = Shown /\ Handed' = Handed /\ Out' = Out /\ Sent' = Sent
<1>1. /\ uiq' \in Seq(Frames) /\ Carried(uiq) = Own(Head(uiq)) \cup Carried(uiq')
      /\ Follows(uiq', Shown \cup Own(Head(uiq))) /\ Head(uiq) \in Frames
    BY TailQueue DEF IInv, TypeOK, Gapless
<1>2. Own(Head(uiq)) = {}
    BY <1>1, OwnFrame
<1>3. Carried(uiq') = Carried(uiq) /\ Follows(uiq', Shown)
    BY <1>1, <1>2
<1>4. QED
    BY <1>1, <1>3 DEF Shown, Handed, Out, Sent

LEMMA ApplyResumedStep == ASSUME IInv, ApplyResumed PROVE IInv'
<1> USE DEF IInv, ApplyResumed, hostVars, serverVars
<1>1. /\ uiq' \in Seq(Frames) /\ Follows(uiq', Shown)
      /\ Shown' = Shown /\ Handed' = Handed /\ Out' = Out /\ Sent' = Sent
    BY NoticeTaken DEF IsEvent
<1>2. cursor' \in Nat /\ \A s \in 1..cursor' : s \in Handed
    BY DEF TypeOK, Positions, Handed, Shown
<1>3. TypeOK'
    BY <1>1, <1>2 DEF TypeOK
<1>4. Gapless'
    BY <1>1 DEF Gapless
<1>5. InOrder' /\ Positions' /\ Closed' /\ Forwarding' /\ Live' /\ Replayed'
    BY <1>1, <1>2 DEF InOrder, Positions, Closed, Forwarding, Live, Replayed, Published
<1>6. QED
    BY <1>3, <1>4, <1>5

LEMMA ApplyNoticeStep == ASSUME IInv, ApplyNotice PROVE IInv'
<1> USE DEF IInv, ApplyNotice, hostVars, serverVars, pumpVars
<1>1. /\ uiq' \in Seq(Frames) /\ Follows(uiq', Shown)
      /\ Shown' = Shown /\ Handed' = Handed /\ Out' = Out /\ Sent' = Sent
    BY NoticeTaken DEF IsEvent
<1>2. TypeOK'
    BY <1>1 DEF TypeOK
<1>3. Gapless'
    BY <1>1 DEF Gapless
<1>4. InOrder' /\ Positions' /\ Closed' /\ Forwarding' /\ Live' /\ Replayed'
    BY <1>1 DEF InOrder, Positions, Closed, Forwarding, Live, Replayed, Published
<1>5. QED
    BY <1>2, <1>3, <1>4

LEMMA RescanStep == ASSUME IInv, Rescan PROVE IInv'
<1>1. conn = FALSE /\ subs = 0 /\ replaying = Idle /\ out = << >>
    BY DEF Rescan, IInv, TypeOK, Closed
<1>2. QED
    BY <1>1, FreshLink DEF Rescan, hostVars, serverVars, hostPart

LEMMA StutterSteps ==
    ASSUME IInv, Boot \/ SubscribeTracked \/ OpenSession \/ TrackLive \/ UNCHANGED vars
    PROVE  IInv'
BY Unchanged
   DEF Boot, SubscribeTracked, OpenSession, TrackLive, vars, hostVars, serverVars, pumpVars,
            uiVars,
       feedVars, hostPart

LEMMA NextStep == ASSUME IInv, [Next]_vars PROVE IInv'
<1>1. ASSUME NEW k \in Kinds, AppendEvent(k) PROVE IInv'
    BY <1>1, AppendEventStep
<1>2. CASE PublishCommitted
    BY <1>2, PublishStep
<1>3. CASE Io
    BY <1>3, BeginSubscribeStep, ReplayBatchStep, FinishSubscribeStep, OnEventCommittedStep,
       HandleResumeStep, WriteFrameStep DEF Io
<1>4. CASE Pump
    BY <1>4, ConnectStep, StutterSteps, ReceiveReplyStep, DispatchStep, NoticeLossStep DEF Pump
<1>5. CASE Ui
    BY <1>5, ApplyResumedStep, ApplyEventStep, ApplyNoticeStep DEF Ui
<1>6. CASE Rescan
    BY <1>6, RescanStep
<1>7. CASE Env
    BY <1>7, <1>1, CrashStep, StutterSteps, RequestTimesOutStep, LoseLinkStep DEF Env
<1>8. CASE UNCHANGED vars
    BY <1>8, StutterSteps
<1>9. QED
    BY <1>2, <1>3, <1>4, <1>5, <1>6, <1>7, <1>8 DEF Next

\* Types, order, gapless queues and the positions of the host, the server and
\* the pump hold together at every moment.
THEOREM Invariance == Spec => []IInv
<1>1. Init => IInv
    BY InitOK
<1>2. IInv /\ [Next]_vars => IInv'
    BY NextStep
<1>3. QED
    BY <1>1, <1>2, PTL DEF Spec

(***************************************************************************)
(* The resume cursor never passes a record that the UI has neither applied *)
(* nor been handed (dispatch in supervisor_connection.cpp): whatever the   *)
(* crashes, losses, replays and bounds, a resubscription leaves no gap.    *)
(***************************************************************************)
THEOREM CursorStaysCovered == Spec => []CursorCovered
<1>1. ASSUME IInv PROVE CursorCovered
  <2> SUFFICES ASSUME NEW s \in 1..cursor, s \notin ToSet(applied)
               PROVE  \E i \in DOMAIN uiq : uiq[i].k = "event.stream" /\ uiq[i].seq = s
    BY DEF CursorCovered
  <2>1. s \in Shown \/ s \in Carried(uiq)
    BY <1>1 DEF IInv, Positions, Handed
  <2>2. s \notin Shown
    BY <1>1, LenProperties DEF IInv, TypeOK, InOrder, Shown, ToSet
  <2>3. PICK i \in DOMAIN uiq : s \in Own(uiq[i])
    BY <2>1, <2>2 DEF Carried
  <2>4. QED
    BY <2>3 DEF Own, IsEvent
<1>2. IInv => CursorCovered
    BY <1>1
<1>3. QED
    BY <1>2, Invariance, PTL

-----------------------------------------------------------------------------
(* The refinement: what an action does to the log and to what is applied.  *)

\* Every action but two leaves both as they are.
LEMMA OthersStutter ==
    ASSUME [Next]_vars, ~ApplyEvent, \A k \in Kinds : ~AppendEvent(k)
    PROVE  UNCHANGED <<log, applied>>
<1> USE DEF vars, hostVars, serverVars, pumpVars, uiVars
<1>1. CASE PublishCommitted
    BY <1>1 DEF PublishCommitted
<1>2. CASE Io
    BY <1>2 DEF Io, BeginSubscribe, ReplayBatch, FinishSubscribe, OnEventCommitted,
                HandleResume, WriteFrame
<1>3. CASE Pump
    BY <1>3 DEF Pump, Connect, SubscribeTracked, ReceiveReply, Dispatch, NoticeLoss
<1>4. CASE Ui
    BY <1>4 DEF Ui, ApplyResumed, ApplyNotice
<1>5. CASE Rescan
    BY <1>5 DEF Rescan
<1>6. CASE Env
    BY <1>6 DEF Env, Crash, Boot, RequestTimesOut, LoseLink, OpenSession, TrackLive
<1>7. CASE UNCHANGED vars
    BY <1>7
<1>8. QED
    BY <1>1, <1>2, <1>3, <1>4, <1>5, <1>6, <1>7 DEF Next

\* The event the adapter applies is the next of the log, or one it has applied.
LEMMA ApplyShows == ASSUME IInv, ApplyEvent PROVE Feed!Show \/ UNCHANGED <<log, applied>>
<1> DEFINE e == Head(uiq)
           fresh == e.seq \notin ToSet(applied)
<1>1. /\ uiq # << >> /\ IsEvent(e) /\ UNCHANGED log
      /\ applied' = IF fresh THEN Append(applied, e.seq) ELSE applied
    BY DEF ApplyEvent, IsEvent
<1>2. /\ e.seq \in 1..Len(log) /\ Len(applied) \in Nat /\ Len(log) \in Nat
      /\ fresh => e.seq = Len(applied) + 1
    BY <1>1, HeadIsNext DEF IInv, TypeOK
<1> HIDE DEF e, fresh
<1>3. CASE fresh
    BY <1>1, <1>2, <1>3 DEF Feed!Show
<1>4. CASE ~fresh
    BY <1>1, <1>4
<1>5. QED
    BY <1>3, <1>4

(***************************************************************************)
(* The UI shows the records of the one log one at a time, in its order,    *)
(* each exactly once (SessionFeed), whatever is replayed, sent twice, lost *)
(* with a link or a host: the commits of Session::appendEvent and the      *)
(* fresh events of onSessionEnvelope are its steps. The adapter of the     *)
(* model keeps all ids it has applied; that of the code keeps 8192         *)
(* (ui_event_adapter.cpp:315), so for the code MaxLog is at most that.     *)
(***************************************************************************)
THEOREM RefinesSessionFeed == Spec => ImplementsFeed
<1>1. Init => Feed!Init
    BY DEF Init, Feed!Init
<1>2. ASSUME IInv, [Next]_vars PROVE [Feed!Next]_<<log, applied>>
  <2>1. ASSUME NEW k \in Kinds, AppendEvent(k) PROVE Feed!Commit
    BY <2>1 DEF AppendEvent, uiVars, Feed!Commit
  <2>2. CASE ApplyEvent
    BY <1>2, <2>2, ApplyShows DEF Feed!Next
  <2>3. CASE ~ApplyEvent /\ \A k \in Kinds : ~AppendEvent(k)
    BY <1>2, <2>3, OthersStutter
  <2>4. QED
    BY <2>1, <2>2, <2>3 DEF Feed!Next
<1>3. IInv /\ [Next]_vars => [Feed!Next]_<<log, applied>>
    BY <1>2
<1>4. QED
    BY <1>1, <1>3, Invariance, PTL DEF Spec, ImplementsFeed, Feed!Spec
=============================================================================
