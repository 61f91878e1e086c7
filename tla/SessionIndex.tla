--------------------------- MODULE SessionIndex ---------------------------
(***************************************************************************)
(* The ordered index of a workspace's sessions (registry.cpp: the table    *)
(* workspace_sessions, the crash marker pending_mutation and the flock of  *)
(* the registry) beside the sessions themselves (session_persistence.cpp). *)
(* Two databases, changed one after the other by several processes: the    *)
(* host of the workspace creates and deletes sessions (host_runtime.cpp)   *)
(* and sweeps when it starts (workspace_host.cpp); other processes import, *)
(* prune a stopped workspace (session_cli.cpp) and drop the rows of one    *)
(* (supervisor.cpp).                                                       *)
(*                                                                         *)
(* A mutation of the index is two transactions under the flock: the first  *)
(* commits the marker, the second the change and the end of the marker. A  *)
(* process may die between them, or fail the second and go on. Whoever     *)
(* opens the registry next redoes or undoes what the marker says.          *)
(***************************************************************************)
EXTENDS Integers, FiniteSets, Functions

CONSTANTS Sessions,     \* ids the host may generate
          Host,         \* the host process of the workspace
          Tools,        \* other processes that open the registry
          Targets,      \* ordinals a reorder may name
          MaxOrdinal,   \* bound of the ordinals an insertion may reach
          Nobody        \* no process

ASSUME IndexAssumption ==
    /\ IsFiniteSet(Sessions)
    /\ Host \notin Tools /\ Nobody \notin Tools \cup {Host}
    /\ Targets \subseteq Int /\ MaxOrdinal \in Nat

VARIABLES
    rows,        \* workspace_sessions: session -> ordinal
    marker,      \* the row of pending_mutation, or NoMarker
    store,       \* rows of `sessions` in sessions.db
    used,        \* ids generated so far
    lock,        \* holder of the registry's flock while a mutation is under way
    storeLock,   \* holder of the flock of sessions.db
    open,        \* processes with an open registry handle
    phase,       \* of the host: "down", "starting", "serving"
    task,        \* what each process is in the middle of
    left,        \* rows a sweep has still to look at
    acked        \* sessions whose creation was acknowledged, till someone asks for their removal

vars == <<rows, marker, store, used, lock, storeLock, open, phase, task, left, acked>>

Procs    == Tools \cup {Host}
NoMarker == [type |-> "none"]
NoTask   == [k |-> "none"]
Create(s, n, prev)  == [type |-> "create", s |-> s, to |-> n, prev |-> prev]
Delete(s)           == [type |-> "delete", s |-> s]
Reorder(s, from, n) == [type |-> "reorder", s |-> s, from |-> from, to |-> n]

Init ==
    /\ rows = [s \in {} |-> 0] /\ marker = NoMarker
    /\ store = {} /\ used = {}
    /\ lock = Nobody /\ storeLock = Nobody
    /\ open = {} /\ phase = "down"
    /\ task = [p \in Procs |-> NoTask]
    /\ left = [p \in Procs |-> {}]
    /\ acked = {}

-----------------------------------------------------------------------------
(* What the transactions do to the rows.                                   *)

Without(r, s) == Restrict(r, DOMAIN r \ {s})
With(r, f)    == [t \in DOMAIN r \cup DOMAIN f |-> IF t \in DOMAIN f THEN f[t] ELSE r[t]]

\* SELECT COALESCE(MAX(ordinal) + 1, 0)
IsNext(n, r) == \/ DOMAIN r = {} /\ n = 0
                \/ \E s \in DOMAIN r : n = r[s] + 1 /\ \A t \in DOMAIN r : r[t] <= r[s]
NextCandidates(r) == {0} \cup {r[s] + 1 : s \in DOMAIN r}

\* A shift that forgets the row which stands at the target ordinal itself.
ShiftShort(r, s, from, to) ==
    [t \in DOMAIN r |->
        CASE t = s -> to
          [] t # s /\ from < to /\ r[t] > from /\ r[t] < to -> r[t] - 1
          [] t # s /\ from > to /\ r[t] >= to /\ r[t] < from -> r[t] + 1
          [] OTHER -> r[t]]

\* apply_reorder: the rows between the two ordinals close up, the session moves.
ApplyReorder(r, s, from, to) ==
    [t \in DOMAIN r |->
        CASE t = s -> to
          [] t # s /\ from < to /\ r[t] > from /\ r[t] <= to -> r[t] - 1
          [] t # s /\ from > to /\ r[t] >= to /\ r[t] < from -> r[t] + 1
          [] OTHER -> r[t]]

\* The second transaction of addSession, removeSession and reorderSession.
Applied(r, m) == CASE m.type = "create"  -> With(r, [t \in {m.s} |-> m.to])
                   [] m.type = "delete"  -> Without(r, m.s)
                   [] m.type = "reorder" -> ApplyReorder(r, m.s, m.from, m.to)
                   [] OTHER -> r

\* restore_prev_ordinals
Restored(r, prev) == [t \in DOMAIN r |-> IF t \in DOMAIN prev THEN prev[t] ELSE r[t]]

\* resolvePendingMutations: a creation is undone, the others are redone.
Resolved(r, m) == IF m.type = "create" THEN Restored(Without(r, m.s), m.prev) ELSE Applied(r, m)

-----------------------------------------------------------------------------
(* Steps of a mutation.                                                    *)

\* LockGuard: the flock is free and the handle is open for writing.
CanLock(p) == p \in open /\ lock = Nobody

\* The first transaction: the marker.
InsertMarker(p, m) ==
    /\ marker = NoMarker
    /\ marker' = m /\ lock' = p
    /\ UNCHANGED <<rows, store, used, storeLock, open, phase, left>>

Finish(p) == task' = [task EXCEPT ![p] = NoTask]

\* MutationInProgress, or LockUnavailable after the retry budget: the call
\* throws and what it was for is given up.
Refused(p) ==
    /\ task[p].k \in {"add", "delete", "drop"} /\ p \in open /\ lock # p
    /\ lock # Nobody \/ marker # NoMarker
    /\ Finish(p)
    /\ UNCHANGED <<rows, marker, store, used, lock, storeLock, open, phase, left, acked>>

\* addSession
AddSession(p) ==
    /\ task[p].k = "add" /\ CanLock(p) /\ marker = NoMarker
    /\ LET s == task[p].s IN
        \/ /\ s \in DOMAIN rows
           /\ Finish(p) /\ acked' = acked \cup {s}
           /\ UNCHANGED <<rows, marker, store, used, lock, storeLock, open, phase, left>>
        \/ /\ s \notin DOMAIN rows
           /\ \E n \in NextCandidates(rows) :
                IsNext(n, rows) /\ n <= MaxOrdinal /\ InsertMarker(p, Create(s, n, rows))
           /\ UNCHANGED <<task, acked>>

\* removeSession: a row that is not there is removed as well.
RemoveSession(p) ==
    /\ task[p].k \in {"delete", "drop"} /\ CanLock(p)
    /\ InsertMarker(p, Delete(task[p].s))
    /\ UNCHANGED <<task, acked>>

\* reorderSession
ReorderSession(p) ==
    /\ task[p] = NoTask /\ CanLock(p)
    /\ \E s \in DOMAIN rows, n \in Targets : InsertMarker(p, Reorder(s, rows[s], n))
    /\ UNCHANGED <<task, acked>>

\* A second transaction that leaves the marker to a third, which never comes.
CommitLeavingMarker(p) ==
    /\ lock = p /\ lock' = Nobody
    /\ rows' = Applied(rows, marker)
    /\ task' = [task EXCEPT ![p] = IF @.k = "delete" THEN [@ EXCEPT !.k = "erase"] ELSE NoTask]
    /\ acked' = IF task[p].k = "add" THEN acked \cup {task[p].s} ELSE acked
    /\ UNCHANGED <<marker, store, used, storeLock, open, phase, left>>

\* The second transaction, and what the caller does when the call returns.
Commit(p) ==
    /\ lock = p /\ lock' = Nobody
    /\ rows' = Applied(rows, marker) /\ marker' = NoMarker
    /\ task' = [task EXCEPT ![p] = IF @.k = "delete" THEN [@ EXCEPT !.k = "erase"] ELSE NoTask]
    /\ acked' = IF task[p].k = "add" THEN acked \cup {task[p].s} ELSE acked
    /\ UNCHANGED <<store, used, storeLock, open, phase, left>>

\* The second transaction fails (disk full, busy): it is rolled back, the
\* marker stays, the process goes on.
CommitFails(p) ==
    /\ lock = p /\ lock' = Nobody
    /\ Finish(p)
    /\ UNCHANGED <<rows, marker, store, used, storeLock, open, phase, left, acked>>

\* WorkspaceRegistry::open: the pending mutation is resolved under the lock.
OpenRegistry(p) ==
    /\ p \notin open /\ lock = Nobody
    /\ open' = open \cup {p}
    /\ rows' = Resolved(rows, marker) /\ marker' = NoMarker
    /\ UNCHANGED <<store, used, lock, storeLock, phase, task, left, acked>>

\* The process ends or dies, wherever it is: its locks go with it.
Exit(p) ==
    /\ p \in open
    /\ open' = open \ {p}
    /\ lock' = IF lock = p THEN Nobody ELSE lock
    /\ storeLock' = IF storeLock = p THEN Nobody ELSE storeLock
    /\ phase' = IF p = Host THEN "down" ELSE phase
    /\ Finish(p) /\ left' = [left EXCEPT ![p] = {}]
    /\ UNCHANGED <<rows, marker, store, used, acked>>

-----------------------------------------------------------------------------
(* The host.                                                               *)

Free(p) == task[p] = NoTask /\ lock # p

\* startup: the store's flock, then the rows to sweep.
StartHost ==
    /\ Host \in open /\ phase = "down" /\ storeLock = Nobody
    /\ storeLock' = Host /\ phase' = "starting"
    /\ left' = [left EXCEPT ![Host] = DOMAIN rows]
    /\ UNCHANGED <<rows, marker, store, used, lock, open, task, acked>>

ServeHost ==
    /\ phase = "starting" /\ Free(Host) /\ left[Host] = {}
    /\ phase' = "serving"
    /\ UNCHANGED <<rows, marker, store, used, lock, storeLock, open, task, left, acked>>

\* createSession, forkSession: the session is created in the store first.
CreateSession ==
    /\ phase = "serving" /\ Free(Host)
    /\ \E s \in Sessions \ used :
        /\ used' = used \cup {s} /\ store' = store \cup {s}
        /\ task' = [task EXCEPT ![Host] = [k |-> "add", s |-> s]]
    /\ UNCHANGED <<rows, marker, lock, storeLock, open, phase, left, acked>>

\* The io thread takes the next request; only a session of the store is deleted.
DeleteSession(p) ==
    /\ Free(p) /\ storeLock = p /\ (p = Host => phase = "serving")
    /\ \E s \in store : /\ task' = [task EXCEPT ![p] = [k |-> "delete", s |-> s]]
                       /\ acked' = acked \ {s}
    /\ UNCHANGED <<rows, marker, store, used, lock, storeLock, open, phase, left>>

\* eraseWithEvent: one transaction, refused if the session has a dependent or
\* is no longer empty by now.
EraseWithEvent(p) ==
    /\ task[p].k = "erase" /\ p \in open
    /\ store' \in {store, store \ {task[p].s}}
    /\ Finish(p)
    /\ UNCHANGED <<rows, marker, used, lock, storeLock, open, phase, left, acked>>

\* A sweep that runs on a registry row alone.
SweepAnyRow(p) ==
    /\ Free(p) /\ storeLock = p
    /\ \E s \in left[p] :
        /\ left' = [left EXCEPT ![p] = @ \ {s}]
        /\ task' = [task EXCEPT ![p] = [k |-> "drop", s |-> s]]
    /\ UNCHANGED <<rows, marker, store, used, lock, storeLock, open, phase, acked>>

\* The orphan sweep, a row at a time: a row whose session is in the store stays.
SweepRow(p) ==
    /\ Free(p) /\ storeLock = p
    /\ \E s \in left[p] :
        /\ left' = [left EXCEPT ![p] = @ \ {s}]
        /\ task' = IF s \in store THEN task ELSE [task EXCEPT ![p] = [k |-> "drop", s |-> s]]
    /\ UNCHANGED <<rows, marker, store, used, lock, storeLock, open, phase, acked>>

-----------------------------------------------------------------------------
(* The other processes.                                                    *)

\* importSessionsFromDisk looks at no marker: the sessions of the store that
\* have no row get the next ordinals, in one transaction.
ImportSessions(p) ==
    /\ p \in Tools /\ Free(p) /\ CanLock(p)
    /\ LET missing == store \ DOMAIN rows IN
        \E n \in NextCandidates(rows) :
            /\ IsNext(n, rows) /\ n + Cardinality(missing) <= MaxOrdinal + 1
            /\ \E f \in Injection(missing, n..(n + Cardinality(missing) - 1)) : rows' = With(rows, f)
    /\ UNCHANGED <<marker, store, used, lock, storeLock, open, phase, task, left, acked>>

\* session prune of a stopped workspace: the store's flock, then the deletions ...
StartPrune(p) ==
    /\ p \in Tools \cap open /\ Free(p) /\ storeLock = Nobody
    /\ storeLock' = p
    /\ UNCHANGED <<rows, marker, store, used, lock, open, phase, task, left, acked>>

\* ... and the sweep.
PruneSweeps(p) ==
    /\ p \in Tools /\ Free(p) /\ storeLock = p /\ left[p] = {}
    /\ left' = [left EXCEPT ![p] = DOMAIN rows]
    /\ UNCHANGED <<rows, marker, store, used, lock, storeLock, open, phase, task, acked>>

\* delete_highlighted_workspace: no live daemon when it looks, row by row.
DropRow(p) ==
    /\ p \in Tools \cap open /\ Free(p) /\ phase = "down"
    /\ \E s \in DOMAIN rows : /\ task' = [task EXCEPT ![p] = [k |-> "drop", s |-> s]]
                             /\ acked' = acked \ {s}
    /\ UNCHANGED <<rows, marker, store, used, lock, storeLock, open, phase, left>>

-----------------------------------------------------------------------------
Next ==
    \/ \E p \in Procs : \/ OpenRegistry(p) \/ Exit(p) \/ Refused(p)
                        \/ AddSession(p) \/ RemoveSession(p) \/ Commit(p) \/ CommitFails(p)
                        \/ DeleteSession(p) \/ EraseWithEvent(p) \/ SweepRow(p)
    \/ StartHost \/ ServeHost \/ CreateSession
    \/ \E p \in Tools : \/ ImportSessions(p) \/ StartPrune(p) \/ PruneSweeps(p) \/ DropRow(p)
                        \/ ReorderSession(p)

Spec == Init /\ [][Next]_vars

-----------------------------------------------------------------------------
(* Properties.                                                             *)

(***************************************************************************)
(* No two rows have the same ordinal, although imports pay no attention to *)
(* a pending marker and a marker is redone or undone later, on other rows  *)
(* than it was written for. resolvePendingMutations calls a duplicate      *)
(* Corrupt, and no process could open the registry again.                  *)
(***************************************************************************)
OrdinalsDistinct == \A s, t \in DOMAIN rows : s # t => rows[s] # rows[t]

(***************************************************************************)
(* A session whose creation session.create or session.fork acknowledged    *)
(* keeps its place in the index until somebody asks for its removal: no    *)
(* recovery undoes it, no sweep takes it for an orphan.                    *)
(***************************************************************************)
AckedIndexed == acked \subseteq DOMAIN rows

(***************************************************************************)
(* Whoever dies or fails in the middle of a mutation, the order changes as *)
(* if each mutation were atomic: one session at a time joins, leaves or    *)
(* moves and all others keep their relative order.                         *)
(***************************************************************************)
Order == INSTANCE SessionOrder WITH
            listed <- DOMAIN rows,
            before <- {p \in (DOMAIN rows) \X (DOMAIN rows) : rows[p[1]] < rows[p[2]]}
ImplementsOrder == Order!Spec
=============================================================================
