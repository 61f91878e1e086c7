------------------------- MODULE SessionIndexProofs -------------------------
(***************************************************************************)
(* Proofs about the order of the sessions for any set of sessions and of   *)
(* processes and any ordinals.                                             *)
(*                                                                         *)
(* OrdinalsDistinct is not inductive: whether a marker can be redone or    *)
(* undone without a duplicate depends on what it remembers of the rows and *)
(* on what imports have done to them since (MarkerHolds).                  *)
(*                                                                         *)
(* AckedIndexed needs to know who may be removing a session: nobody while  *)
(* its creation is under way, since the host that serves has the flock of  *)
(* the store, and nobody later without its acknowledgement being withdrawn *)
(* first (AckInv). Both invariants together give the refinement: a commit  *)
(* or a recovery touches one session, and an import only the end.          *)
(***************************************************************************)
EXTENDS SessionIndex, FiniteSetTheorems, TLAPS

IsRows(r)    == r = [t \in DOMAIN r |-> r[t]] /\ \A t \in DOMAIN r : r[t] \in Int
Injective(r) == \A s, t \in DOMAIN r : s # t => r[s] # r[t]
Good(r)      == IsRows(r) /\ Injective(r)

\* A creation remembers ordinals that no row has changed since, and, while its
\* process has the lock, an ordinal that no row has taken; a move remembers
\* where the session still stands.
CreateHolds(s, n, prev) ==
    /\ n \in Int
    /\ \A t \in DOMAIN prev : t \in DOMAIN rows /\ rows[t] = prev[t]
    /\ lock # Nobody => \A t \in DOMAIN rows : rows[t] # n

MarkerHolds ==
    \/ marker = NoMarker
    \/ \E s, n, prev : marker = Create(s, n, prev) /\ CreateHolds(s, n, prev)
    \/ \E s : marker = Delete(s)
    \/ \E s \in DOMAIN rows, n \in Int : marker = Reorder(s, rows[s], n)

IInv == Good(rows) /\ MarkerHolds /\ store \subseteq Sessions

USE IndexAssumption

\* The next ordinal is above every ordinal in use.
LEMMA NextIsAbove ==
    ASSUME NEW r, IsRows(r), NEW n, IsNext(n, r)
    PROVE  n \in Int /\ \A t \in DOMAIN r : r[t] < n
BY DEF IsRows, IsNext

\* Rows with one more, at an ordinal none of them has.
LEMMA WithOne ==
    ASSUME NEW r, Good(r), NEW s, NEW n \in Int, \A t \in DOMAIN r : r[t] # n
    PROVE  Good(With(r, [t \in {s} |-> n]))
BY DEF Good, IsRows, Injective, With

\* Rows with others above them.
LEMMA WithAbove ==
    ASSUME NEW r, Good(r), NEW n \in Int, \A t \in DOMAIN r : r[t] < n,
           NEW S, S \cap DOMAIN r = {}, NEW k \in Int,
           NEW f \in Injection(S, n..k)
    PROVE  /\ Good(With(r, f))
           /\ DOMAIN r \subseteq DOMAIN With(r, f)
           /\ \A t \in DOMAIN r : With(r, f)[t] = r[t]
<1>1. f \in [S -> n..k] /\ \A a, b \in S : f[a] = f[b] => a = b
    BY DEF Injection, IsInjective
<1>2. /\ DOMAIN With(r, f) = DOMAIN r \cup S
      /\ \A t \in DOMAIN r : With(r, f)[t] = r[t]
      /\ \A t \in S : With(r, f)[t] = f[t] /\ f[t] \in Int /\ f[t] >= n
    BY <1>1 DEF With
<1>3. IsRows(With(r, f))
  <2>1. With(r, f) = [t \in DOMAIN With(r, f) |-> With(r, f)[t]]
      BY DEF With
  <2>2. QED
      BY <1>2, <2>1 DEF Good, IsRows
<1>4. Injective(With(r, f))
    BY <1>1, <1>2 DEF Good, IsRows, Injective
<1>5. QED
    BY <1>2, <1>3, <1>4 DEF Good

\* Rows with one less.
LEMMA WithoutOne ==
    ASSUME NEW r, Good(r), NEW s PROVE Good(Without(r, s))
BY DEF Good, IsRows, Injective, Without, Restrict

\* Rows of which one has moved.
LEMMA Moved ==
    ASSUME NEW r, Good(r), NEW s \in DOMAIN r, NEW n \in Int
    PROVE  Good(ApplyReorder(r, s, r[s], n))
<1> DEFINE q == ApplyReorder(r, s, r[s], n)
<1>1. DOMAIN q = DOMAIN r /\ q = [t \in DOMAIN q |-> q[t]]
    BY DEF ApplyReorder
<1>2. \A t \in DOMAIN r : r[t] \in Int
    BY DEF Good, IsRows
<1>3. q[s] = n
    BY DEF ApplyReorder
<1>4. \A t \in DOMAIN r \ {s} :
          /\ r[t] # r[s]
          /\ q[t] = IF r[s] < n /\ r[t] > r[s] /\ r[t] <= n THEN r[t] - 1
                    ELSE IF r[s] > n /\ r[t] >= n /\ r[t] < r[s] THEN r[t] + 1
                    ELSE r[t]
  <2> TAKE t \in DOMAIN r \ {s}
  <2>1. r[t] # r[s] /\ r[t] \in Int /\ r[s] \in Int
      BY <1>2 DEF Good, Injective
  <2>2. QED
      BY <2>1 DEF ApplyReorder
<1>5. \A t \in DOMAIN r \ {s} : q[t] \in Int /\ q[t] # n
    BY <1>2, <1>4
<1>6. \A t, u \in DOMAIN r \ {s} : t # u => q[t] # q[u]
  <2> SUFFICES ASSUME NEW t \in DOMAIN r \ {s}, NEW u \in DOMAIN r \ {s}, t # u
               PROVE  q[t] # q[u]
      OBVIOUS
  <2>1. r[t] # r[u]
      BY DEF Good, Injective
  <2> HIDE DEF q
  <2>2. QED
      BY <1>2, <1>4, <2>1
<1> HIDE DEF q
<1>7. IsRows(q)
    BY <1>1, <1>3, <1>5 DEF IsRows
<1>8. Injective(q)
    BY <1>1, <1>3, <1>5, <1>6 DEF Injective
<1>9. QED
    BY <1>7, <1>8 DEF Good, q

\* The second transaction leaves good rows, and so does a recovery.
LEMMA AppliedGood ==
    ASSUME IInv, lock # Nobody \/ marker.type # "create" PROVE Good(Applied(rows, marker))
<1>1. CASE marker = NoMarker
    BY <1>1 DEF IInv, Applied, NoMarker
<1>2. ASSUME NEW s, NEW n, NEW prev, marker = Create(s, n, prev), CreateHolds(s, n, prev)
      PROVE  Good(Applied(rows, marker))
  <2>1. lock # Nobody
      BY <1>2 DEF Create
  <2>2. Applied(rows, marker) = With(rows, [t \in {s} |-> n])
      BY <1>2 DEF Applied, Create
  <2>3. Good(rows) /\ n \in Int /\ \A t \in DOMAIN rows : rows[t] # n
      BY <1>2, <2>1 DEF IInv, CreateHolds
  <2>4. Good(With(rows, [t \in {s} |-> n]))
      BY <2>3, WithOne
  <2>5. QED
      BY <2>2, <2>4
<1>3. ASSUME NEW s, marker = Delete(s) PROVE Good(Applied(rows, marker))
  <2>1. Applied(rows, marker) = Without(rows, s)
      BY <1>3 DEF Applied, Delete
  <2>2. QED
      BY <2>1, WithoutOne DEF IInv
<1>4. ASSUME NEW s \in DOMAIN rows, NEW n \in Int, marker = Reorder(s, rows[s], n)
      PROVE  Good(Applied(rows, marker))
  <2>1. Applied(rows, marker) = ApplyReorder(rows, s, rows[s], n)
      BY <1>4 DEF Applied, Reorder
  <2>2. QED
      BY <2>1, Moved DEF IInv
<1>5. QED
    BY <1>1, <1>2, <1>3, <1>4 DEF IInv, MarkerHolds

LEMMA ResolvedGood == ASSUME IInv PROVE Good(Resolved(rows, marker))
<1>1. CASE marker.type # "create"
    BY <1>1, AppliedGood DEF Resolved
<1>2. ASSUME NEW s, NEW n, NEW prev, marker = Create(s, n, prev), CreateHolds(s, n, prev)
      PROVE  Good(Resolved(rows, marker))
  <2> DEFINE w == Without(rows, s)
  <2>1. Good(w)
      BY WithoutOne DEF IInv
  <2>2. \A t \in DOMAIN w : t \in DOMAIN prev => w[t] = prev[t]
      BY <1>2 DEF CreateHolds, Without, Restrict
  <2>3. Restored(w, prev) = w
    <3> HIDE DEF w
    <3>1. w = [t \in DOMAIN w |-> w[t]]
        BY <2>1 DEF Good, IsRows
    <3>2. Restored(w, prev) = [t \in DOMAIN w |-> w[t]]
        BY <2>2 DEF Restored
    <3>3. QED
        BY <3>1, <3>2
  <2>4. Resolved(rows, marker) = Restored(w, prev)
      BY <1>2 DEF Resolved, Create
  <2>5. QED
      BY <2>1, <2>3, <2>4
<1>3. QED
    BY <1>1, <1>2 DEF IInv, MarkerHolds, NoMarker, Delete, Reorder

\* What a first transaction remembers holds when it is written.
LEMMA MarkerWritten ==
    ASSUME IInv, NEW p \in Procs,
           AddSession(p) \/ RemoveSession(p) \/ ReorderSession(p)
    PROVE  IInv'
<1>1. ASSUME AddSession(p) PROVE IInv'
  <2>1. CASE marker' = marker
      BY <1>1, <2>1 DEF AddSession, InsertMarker, IInv, MarkerHolds, CreateHolds, CanLock,
                        Create, NoMarker
  <2>2. ASSUME NEW s, NEW n, IsNext(n, rows), InsertMarker(p, Create(s, n, rows)) PROVE IInv'
    <3>1. n \in Int /\ \A t \in DOMAIN rows : rows[t] # n
        BY <2>2, NextIsAbove DEF IInv, Good, IsRows
    <3>2. rows' = rows /\ marker' = Create(s, n, rows)
        BY <2>2 DEF InsertMarker
    <3>3. CreateHolds(s, n, rows)'
        BY <3>1, <3>2 DEF CreateHolds
    <3>4. MarkerHolds'
        BY <3>2, <3>3 DEF MarkerHolds
    <3>5. Good(rows)' /\ (store \subseteq Sessions)'
        BY <2>2, <3>2 DEF InsertMarker, IInv, Good, IsRows, Injective
    <3>6. QED
        BY <3>4, <3>5 DEF IInv
  <2>3. QED
      BY <1>1, <2>1, <2>2 DEF AddSession
<1>2. ASSUME RemoveSession(p) PROVE IInv'
    BY <1>2 DEF RemoveSession, InsertMarker, IInv, MarkerHolds, Good, IsRows, Injective
<1>3. ASSUME ReorderSession(p) PROVE IInv'
    BY <1>3 DEF ReorderSession, InsertMarker, IInv, MarkerHolds, Good, IsRows, Injective
<1>4. QED
    BY <1>1, <1>2, <1>3

LEMMA Inductive == IInv /\ [Next]_vars => IInv'
<1> SUFFICES ASSUME IInv, [Next]_vars PROVE IInv'
    OBVIOUS
<1>1. ASSUME UNCHANGED <<rows, marker>>, lock' = lock \/ lock' = Nobody, store' \subseteq Sessions
      PROVE  IInv'
    BY <1>1 DEF IInv, Good, IsRows, Injective, MarkerHolds, CreateHolds
<1>2. ASSUME NEW p \in Procs, Commit(p) PROVE IInv'
  <2>1. lock # Nobody
      BY <1>2 DEF Commit, Procs
  <2>2. Good(rows')
      BY <1>2, <2>1, AppliedGood DEF Commit
  <2>3. QED
      BY <1>2, <2>2 DEF Commit, IInv, MarkerHolds, NoMarker
<1>3. ASSUME NEW p \in Procs, OpenRegistry(p) PROVE IInv'
  <2>1. Good(rows')
      BY <1>3, ResolvedGood DEF OpenRegistry
  <2>2. QED
      BY <1>3, <2>1 DEF OpenRegistry, IInv, MarkerHolds, NoMarker
<1>4. ASSUME NEW p \in Tools, ImportSessions(p) PROVE IInv'
  <2> DEFINE missing == store \ DOMAIN rows
  <2>1. PICK n : IsNext(n, rows) /\ \E f \in Injection(missing, n..(n + Cardinality(missing) - 1)) :
                                        rows' = With(rows, f)
      BY <1>4 DEF ImportSessions
  <2>2. PICK f \in Injection(missing, n..(n + Cardinality(missing) - 1)) : rows' = With(rows, f)
      BY <2>1
  <2>3. n \in Int /\ \A t \in DOMAIN rows : rows[t] < n
      BY <2>1, NextIsAbove DEF IInv, Good
  <2> DEFINE k == n + Cardinality(missing) - 1
  <2>4. k \in Int
      BY <2>3, IndexAssumption, FS_Subset, FS_CardinalityType DEF IInv
  <2>5. /\ Good(rows')
        /\ \A t \in DOMAIN rows : t \in DOMAIN rows' /\ rows'[t] = rows[t]
    <3> HIDE DEF missing, k
    <3>1. missing \cap DOMAIN rows = {} /\ f \in Injection(missing, n..k)
        BY <2>2 DEF missing, k
    <3>2. k \in Int
        BY <2>4
    <3>3. Good(rows)
        BY DEF IInv
    <3>4. /\ Good(With(rows, f))
          /\ DOMAIN rows \subseteq DOMAIN With(rows, f)
          /\ \A t \in DOMAIN rows : With(rows, f)[t] = rows[t]
        BY <2>3, <3>1, <3>2, <3>3, WithAbove
    <3>5. QED
        BY <2>2, <3>4
  <2>6. lock = Nobody /\ UNCHANGED <<marker, store, lock>>
      BY <1>4 DEF ImportSessions, CanLock
  <2>7. MarkerHolds'
    <3>1. ASSUME NEW s, NEW m, NEW prev, marker = Create(s, m, prev), CreateHolds(s, m, prev)
          PROVE  CreateHolds(s, m, prev)'
        BY <3>1, <2>5, <2>6 DEF CreateHolds
    <3>2. ASSUME NEW s \in DOMAIN rows, NEW m \in Int, marker = Reorder(s, rows[s], m)
          PROVE  s \in DOMAIN rows' /\ marker' = Reorder(s, rows'[s], m)
        BY <3>2, <2>5, <2>6
    <3>3. QED
        BY <2>6, <3>1, <3>2 DEF IInv, MarkerHolds
  <2>8. QED
      BY <2>5, <2>6, <2>7 DEF IInv
<1>5. ASSUME NEW p \in Procs, AddSession(p) \/ RemoveSession(p) \/ ReorderSession(p) PROVE IInv'
    BY <1>5, MarkerWritten
<1>6. ASSUME NEW p \in Procs,
             \/ Exit(p) \/ Refused(p) \/ CommitFails(p) \/ DeleteSession(p) \/ EraseWithEvent(p)
             \/ SweepRow(p)
      PROVE  IInv'
  <2>1. store' \subseteq Sessions
      BY <1>6 DEF IInv, Exit, Refused, CommitFails, DeleteSession, EraseWithEvent, SweepRow
  <2>2. UNCHANGED <<rows, marker>> /\ (lock' = lock \/ lock' = Nobody)
      BY <1>6 DEF Exit, Refused, CommitFails, DeleteSession, EraseWithEvent, SweepRow
  <2>3. QED
      BY <1>1, <2>1, <2>2
<1>7. CASE StartHost \/ ServeHost \/ CreateSession
  <2>1. UNCHANGED <<rows, marker, lock>> /\ store' \subseteq Sessions
      BY <1>7 DEF IInv, StartHost, ServeHost, CreateSession
  <2>2. QED
      BY <1>1, <2>1
<1>8. ASSUME NEW p \in Tools, StartPrune(p) \/ PruneSweeps(p) \/ DropRow(p) PROVE IInv'
  <2>1. UNCHANGED <<rows, marker, lock, store>>
      BY <1>8 DEF StartPrune, PruneSweeps, DropRow
  <2>2. QED
      BY <1>1, <2>1 DEF IInv
<1>9. CASE UNCHANGED vars
  <2>1. UNCHANGED <<rows, marker, lock, store>>
      BY <1>9 DEF vars
  <2>2. QED
      BY <1>1, <2>1 DEF IInv
<1>10. QED
    BY <1>2, <1>3, <1>4, <1>5, <1>6, <1>7, <1>8, <1>9 DEF Next, Procs

(***************************************************************************)
(* No two sessions ever have the same ordinal, whoever dies or fails       *)
(* between the two transactions of a mutation and whatever is imported     *)
(* before the marker is resolved: the registry can always be opened again. *)
(***************************************************************************)
THEOREM NoDuplicateOrdinals == Spec => []OrdinalsDistinct
<1>1. Init => IInv
    BY DEF Init, IInv, Good, IsRows, Injective, MarkerHolds
<1>2. IInv => OrdinalsDistinct
    BY DEF IInv, Good, Injective, OrdinalsDistinct
<1>3. QED
    BY <1>1, <1>2, Inductive, PTL DEF Spec
-----------------------------------------------------------------------------
(* What was acknowledged stays indexed *)

\* Process p is in the middle of k for session s.
Does(p, k, s) == task[p].k = k /\ task[p].s = s

Adding(s)   == \E p \in Procs : Does(p, "add", s)
Removing(s) == \/ \E p \in Procs : \/ Does(p, "delete", s) \/ Does(p, "erase", s)
                                   \/ Does(p, "drop", s)
               \/ marker.type = "delete" /\ marker.s = s

Jobs == [k : {"add", "delete", "erase", "drop"}, s : used]

\* Every id met anywhere was generated once.
Known == /\ store \subseteq used /\ DOMAIN rows \subseteq used /\ used \subseteq Sessions
         /\ task \in [Procs -> {NoTask} \cup Jobs]
         /\ left \in [Procs -> SUBSET used]
         /\ marker.type \in {"create", "delete"} => marker.s \in used

\* Only a host that serves creates; it has the store's flock while it runs, so
\* that nobody sweeps or prunes meanwhile.
HostAlone == /\ phase # "down" => storeLock = Host
             /\ \A p \in Procs : task[p].k = "add" => /\ p = Host /\ phase = "serving"
                                                      /\ task[p].s \in store

\* A marker somebody works at says what he is doing; one that nobody works at is
\* of a creation that was given up.
MarkerOfTask ==
    /\ lock # Nobody =>
        /\ lock \in Procs /\ task[lock].k \in {"none", "add", "delete", "drop"}
        /\ task[lock].k = "none" => marker.type = "reorder"
        /\ task[lock].k = "add"  => marker.type = "create" /\ marker.s = task[lock].s
        /\ task[lock].k \in {"delete", "drop"} => marker.type = "delete" /\ marker.s = task[lock].s
    /\ marker.type = "create" => /\ marker.s \notin acked
                                 /\ Does(Host, "add", marker.s) => lock = Host

Safe == /\ acked \subseteq DOMAIN rows /\ acked \subseteq store
        /\ \A s \in used : Removing(s) => s \notin acked /\ ~Adding(s)

AckInv == Known /\ HostAlone /\ MarkerOfTask /\ Safe

\* The sessions with a row after a second transaction, and after a recovery.
LEMMA AppliedDomain ==
    ASSUME IInv
    PROVE  DOMAIN Applied(rows, marker) =
                CASE marker.type = "create" -> DOMAIN rows \cup {marker.s}
                  [] marker.type = "delete" -> DOMAIN rows \ {marker.s}
                  [] OTHER -> DOMAIN rows
<1>1. \A f : DOMAIN With(rows, f) = DOMAIN rows \cup DOMAIN f
    BY DEF With
<1>2. \A s : DOMAIN Without(rows, s) = DOMAIN rows \ {s}
    BY DEF Without, Restrict
<1>3. \A s, from, n : DOMAIN ApplyReorder(rows, s, from, n) = DOMAIN rows
    BY DEF ApplyReorder
<1>4. CASE marker.type = "create"
  <2>1. Applied(rows, marker) = With(rows, [t \in {marker.s} |-> marker.to])
      BY <1>4 DEF Applied
  <2> QED  BY <1>1, <1>4, <2>1
<1>5. CASE marker.type = "delete"
    BY <1>2, <1>5 DEF Applied
<1>6. CASE marker.type = "reorder"
    BY <1>3, <1>6 DEF Applied
<1>7. CASE marker.type \notin {"create", "delete", "reorder"}
    BY <1>7 DEF Applied
<1> QED
    BY <1>4, <1>5, <1>6, <1>7

LEMMA ResolvedDomain ==
    ASSUME IInv
    PROVE  DOMAIN Resolved(rows, marker) =
                IF marker.type \in {"create", "delete"} THEN DOMAIN rows \ {marker.s}
                ELSE DOMAIN rows
<1>1. CASE marker.type = "create"
  <2>1. Resolved(rows, marker) = Restored(Without(rows, marker.s), marker.prev)
      BY <1>1 DEF Resolved
  <2>2. DOMAIN Resolved(rows, marker) = DOMAIN Without(rows, marker.s)
      BY <2>1 DEF Restored
  <2> QED  BY <1>1, <2>2 DEF Without, Restrict
<1>2. CASE marker.type # "create"
    BY <1>2, AppliedDomain DEF Resolved
<1> QED
    BY <1>1, <1>2

\* The steps that leave the flock, the marker and what is acknowledged, and in
\* which no process but one changes what it is doing.
LEMMA AckedSweeps ==
    ASSUME AckInv, NEW p \in Procs, SweepRow(p) PROVE AckInv'
<1> USE DEF AckInv, Known, HostAlone, MarkerOfTask, Safe, Does, Adding, Removing, Procs, Free,
            NoTask, Jobs
<1>1. PICK s \in left[p] : /\ left' = [left EXCEPT ![p] = @ \ {s}]
                           /\ task' = IF s \in store THEN task
                                      ELSE [task EXCEPT ![p] = [k |-> "drop", s |-> s]]
    BY DEF SweepRow
<1>2. /\ UNCHANGED <<rows, marker, store, used, lock, storeLock, open, phase, acked>>
      /\ task[p] = NoTask /\ lock # p /\ storeLock = p
    BY DEF SweepRow
<1>3. Known'
    BY <1>1, <1>2
<1>4. HostAlone'
    BY <1>1, <1>2
<1>5. MarkerOfTask'
    BY <1>1, <1>2
<1>6. Safe'
    BY <1>1, <1>2
<1> QED
    BY <1>3, <1>4, <1>5, <1>6

LEMMA AckedTakes ==
    ASSUME AckInv, NEW p \in Procs, DeleteSession(p) \/ (p \in Tools /\ DropRow(p)) PROVE AckInv'
<1> USE DEF AckInv, Known, HostAlone, MarkerOfTask, Safe, Does, Adding, Removing, Procs, Free,
            NoTask, Jobs
<1>1. PICK s \in used, k \in {"delete", "drop"} :
            task' = [task EXCEPT ![p] = [k |-> k, s |-> s]] /\ acked' = acked \ {s}
    BY DEF DeleteSession, DropRow
<1>2. /\ UNCHANGED <<rows, marker, store, used, lock, storeLock, open, phase, left>>
      /\ task[p] = NoTask /\ lock # p /\ (p = Host \/ phase = "down" \/ storeLock = p)
    BY DEF DeleteSession, DropRow
<1>3. Known'
    BY <1>1, <1>2
<1>4. HostAlone'
    BY <1>1, <1>2
<1>5. MarkerOfTask'
    BY <1>1, <1>2
<1>6. Safe'
    BY <1>1, <1>2
<1> QED
    BY <1>3, <1>4, <1>5, <1>6

LEMMA AckedCreates == ASSUME AckInv, CreateSession PROVE AckInv'
<1> USE DEF AckInv, Known, HostAlone, MarkerOfTask, Safe, Does, Adding, Removing, Procs, Free,
            NoTask, Jobs
<1>1. PICK s \in Sessions \ used :
            /\ used' = used \cup {s} /\ store' = store \cup {s}
            /\ task' = [task EXCEPT ![Host] = [k |-> "add", s |-> s]]
    BY DEF CreateSession
<1>2. /\ UNCHANGED <<rows, marker, lock, storeLock, open, phase, left, acked>>
      /\ task[Host] = NoTask /\ lock # Host /\ phase = "serving"
    BY DEF CreateSession
<1>3. Known'
    BY <1>1, <1>2
<1>4. HostAlone'
    BY <1>1, <1>2
<1>5. MarkerOfTask'
    BY <1>1, <1>2
<1>6. Safe'
    BY <1>1, <1>2
<1> QED
    BY <1>3, <1>4, <1>5, <1>6

\* A call that is given up, or whose process dies.
LEMMA AckedGivenUp ==
    ASSUME AckInv, NEW p \in Procs, Refused(p) \/ CommitFails(p) \/ Exit(p) \/ EraseWithEvent(p)
    PROVE  AckInv'
<1> USE DEF AckInv, Known, HostAlone, MarkerOfTask, Safe, Does, Adding, Removing, Procs,
            NoTask, Jobs
<1>1. /\ task' = [task EXCEPT ![p] = NoTask] /\ UNCHANGED <<rows, marker, used, acked>>
      /\ lock' = IF lock = p THEN Nobody ELSE lock
      /\ left' = left \/ left' = [left EXCEPT ![p] = {}]
    BY DEF Refused, CommitFails, Exit, EraseWithEvent, Finish
<1>2. /\ phase' = phase \/ (p = Host /\ phase' = "down")
      /\ storeLock' = storeLock \/ (p = storeLock /\ (p = Host => phase' = "down"))
      /\ store' = store \/ (store' = store \ {task[p].s} /\ task[p].k = "erase")
  <2>1. CASE Refused(p) \/ CommitFails(p)
      BY <2>1 DEF Refused, CommitFails
  <2>2. CASE Exit(p)
      BY <2>2 DEF Exit
  <2>3. CASE EraseWithEvent(p)
      BY <2>3 DEF EraseWithEvent
  <2> QED  BY <2>1, <2>2, <2>3
<1>3. Known'
    BY <1>1, <1>2
<1>4. HostAlone'
    BY <1>1, <1>2
<1>5. MarkerOfTask'
    BY <1>1, <1>2
<1>6. Safe'
    BY <1>1, <1>2
<1> QED
    BY <1>3, <1>4, <1>5, <1>6

\* The first transaction of a mutation.
LEMMA AckedMarks ==
    ASSUME AckInv, NEW p \in Procs, AddSession(p) \/ RemoveSession(p) \/ ReorderSession(p)
    PROVE  AckInv'
<1> USE DEF AckInv, Known, HostAlone, MarkerOfTask, Safe, Does, Adding, Removing, Procs,
            NoTask, Jobs
<1>1. CASE lock' = lock
  <2>1. /\ task[p].k = "add" /\ task[p].s \in DOMAIN rows /\ marker = NoMarker /\ lock = Nobody
        /\ task' = [task EXCEPT ![p] = NoTask] /\ acked' = acked \cup {task[p].s}
        /\ UNCHANGED <<rows, marker, store, used, lock, storeLock, open, phase, left>>
      BY <1>1 DEF AddSession, RemoveSession, ReorderSession, CanLock, InsertMarker, Finish
  <2>2. Known' /\ HostAlone' /\ MarkerOfTask'
      BY <2>1 DEF NoMarker
  <2>3. Safe'
      BY <2>1 DEF NoMarker
  <2> QED  BY <2>2, <2>3
<1>2. CASE lock' # lock
  <2>1. /\ marker = NoMarker /\ lock = Nobody /\ lock' = p
        /\ UNCHANGED <<rows, store, used, storeLock, open, phase, left, task, acked>>
      BY <1>2 DEF AddSession, RemoveSession, ReorderSession, CanLock, InsertMarker
  <2>2. \/ /\ task[p].k = "add" /\ marker'.type = "create" /\ marker'.s = task[p].s
           /\ task[p].s \notin DOMAIN rows
        \/ /\ task[p].k \in {"delete", "drop"}
           /\ marker'.type = "delete" /\ marker'.s = task[p].s
        \/ task[p].k = "none" /\ marker'.type = "reorder"
      BY <1>2 DEF AddSession, RemoveSession, ReorderSession, InsertMarker, Create, Delete,
                  Reorder
  <2>3. task[p].k # "none" => task[p].s \in used
      OBVIOUS
  <2>4. Known'
      BY <2>1, <2>2, <2>3
  <2>5. HostAlone'
      BY <2>1
  <2>6. MarkerOfTask'
      BY <2>1, <2>2, <2>3
  <2>7. Safe'
      BY <2>1, <2>2, <2>3
  <2> QED  BY <2>4, <2>5, <2>6, <2>7
<1> QED
    BY <1>1, <1>2

\* The second transaction of a mutation.
LEMMA AckedCommits ==
    ASSUME IInv, AckInv, NEW p \in Procs, Commit(p) PROVE AckInv'
<1> USE DEF AckInv, Known, HostAlone, MarkerOfTask, Safe, Does, Adding, Removing, Procs,
            NoTask, Jobs
<1>1. /\ lock = p /\ lock' = Nobody /\ marker' = NoMarker /\ rows' = Applied(rows, marker)
      /\ UNCHANGED <<store, used, storeLock, open, phase, left>>
      /\ acked' = IF task[p].k = "add" THEN acked \cup {task[p].s} ELSE acked
    BY DEF Commit
<1>2. /\ task[p].k = "delete" =>
            /\ task' = [task EXCEPT ![p] = [k |-> "erase", s |-> task[p].s]]
            /\ task[p].s \in used
      /\ task[p].k # "delete" => task' = [task EXCEPT ![p] = NoTask]
  <2>1. task[p].k = "delete" => task[p] \in Jobs /\ [task[p] EXCEPT !.k = "erase"] = [k |-> "erase", s |-> task[p].s]
      OBVIOUS
  <2> QED  BY <2>1 DEF Commit
<1>3. p # Nobody
    BY DEF Procs
<1>4. /\ task[p].k = "add" => DOMAIN rows' = DOMAIN rows \cup {task[p].s}
      /\ task[p].k \in {"delete", "drop"} => DOMAIN rows' = DOMAIN rows \ {task[p].s}
      /\ task[p].k \in {"none", "add", "delete", "drop"}
      /\ task[p].k = "none" => DOMAIN rows' = DOMAIN rows
      /\ task[p].k # "none" => task[p].s \in used
    BY <1>1, <1>3, AppliedDomain
<1>5. Known'
    BY <1>1, <1>2, <1>4 DEF NoMarker
<1>6. HostAlone'
    BY <1>1, <1>2
<1>7. MarkerOfTask'
    BY <1>1, <1>2 DEF NoMarker
<1>8. Safe'
    BY <1>1, <1>2, <1>3, <1>4 DEF NoMarker
<1> QED
    BY <1>5, <1>6, <1>7, <1>8

LEMMA AckedOpens ==
    ASSUME IInv, AckInv, NEW p \in Procs, OpenRegistry(p) PROVE AckInv'
<1> USE DEF AckInv, Known, HostAlone, MarkerOfTask, Safe, Does, Adding, Removing, Procs,
            NoTask, Jobs
<1>1. /\ lock = Nobody /\ marker' = NoMarker /\ rows' = Resolved(rows, marker)
      /\ UNCHANGED <<store, used, lock, storeLock, phase, task, left, acked>>
    BY DEF OpenRegistry
<1>2. DOMAIN rows' = IF marker.type \in {"create", "delete"} THEN DOMAIN rows \ {marker.s}
                     ELSE DOMAIN rows
    BY <1>1, ResolvedDomain
<1> QED
    BY <1>1, <1>2 DEF NoMarker

LEMMA AckedImports ==
    ASSUME AckInv, NEW p \in Tools, ImportSessions(p) PROVE AckInv'
<1> USE DEF AckInv, Known, HostAlone, MarkerOfTask, Safe, Does, Adding, Removing, Procs
<1>1. /\ lock = Nobody
      /\ UNCHANGED <<marker, store, used, lock, storeLock, open, phase, task, left, acked>>
    BY DEF ImportSessions, CanLock
<1>2. \E S, f : S \subseteq store /\ DOMAIN f = S /\ rows' = With(rows, f)
    BY DEF ImportSessions, Injection
<1>3. DOMAIN rows \subseteq DOMAIN rows' /\ DOMAIN rows' \subseteq DOMAIN rows \cup store
    BY <1>2 DEF With
<1>4. Known'
    BY <1>1, <1>3 DEF Jobs
<1>5. HostAlone'
    BY <1>1
<1>6. MarkerOfTask'
    BY <1>1
<1>7. Safe'
    BY <1>1, <1>3
<1> QED
    BY <1>4, <1>5, <1>6, <1>7

LEMMA AckedStep == IInv /\ AckInv /\ [Next]_vars => AckInv'
<1> SUFFICES ASSUME IInv, AckInv, [Next]_vars PROVE AckInv'
    OBVIOUS
<1>1. CASE StartHost \/ ServeHost \/ (\E p \in Tools : StartPrune(p) \/ PruneSweeps(p))
           \/ UNCHANGED vars
  <2>1. UNCHANGED <<rows, marker, store, used, lock, task, acked>>
      BY <1>1 DEF StartHost, ServeHost, StartPrune, PruneSweeps, vars
  <2>2. Known' /\ MarkerOfTask' /\ Safe'
    <3>1. left' \in [Procs -> SUBSET used']
        BY <1>1, <2>1 DEF StartHost, ServeHost, StartPrune, PruneSweeps, vars, AckInv, Known,
                          Procs
    <3> QED
        BY <2>1, <3>1 DEF AckInv, Known, MarkerOfTask, Safe, Does, Adding, Removing, Jobs
  <2>3. HostAlone'
      BY <1>1, <2>1 DEF StartHost, ServeHost, StartPrune, PruneSweeps, vars, AckInv,
                        HostAlone, Procs
  <2> QED  BY <2>2, <2>3 DEF AckInv
<1>2. \A p \in Tools : p \in Procs
    BY DEF Procs
<1> QED
    BY <1>1, <1>2, AckedSweeps, AckedTakes, AckedCreates, AckedGivenUp, AckedMarks,
       AckedCommits, AckedOpens, AckedImports DEF Next

LEMMA IInvAlways == Spec => []IInv
<1>1. Init => IInv
    BY DEF Init, IInv, Good, IsRows, Injective, MarkerHolds
<1> QED
    BY <1>1, Inductive, PTL DEF Spec

LEMMA AckAlways == Spec => []AckInv
<1>1. Init => AckInv
    BY DEF Init, AckInv, Known, HostAlone, MarkerOfTask, Safe, Does, Adding, Removing, NoTask,
           NoMarker
<1> QED
    BY <1>1, IInvAlways, AckedStep, PTL DEF Spec

(***************************************************************************)
(* A session whose creation was acknowledged keeps its row until somebody  *)
(* asks for its removal: neither a recovery after a crash between the two  *)
(* transactions nor a sweep of orphans takes it out.                       *)
(***************************************************************************)
THEOREM Acked_Indexed == Spec => []AckedIndexed
<1>1. AckInv => AckedIndexed
    BY DEF AckInv, Safe, AckedIndexed
<1> QED
    BY <1>1, AckAlways, PTL
-----------------------------------------------------------------------------
(* The order *)

\* From r to q, session s at most joins, leaves or moves.
Changed(r, q, s) ==
    /\ DOMAIN q \ {s} = DOMAIN r \ {s}
    /\ \A t, u \in DOMAIN r \ {s} : q[t] < q[u] <=> r[t] < r[u]

LEMMA ChangedOrder ==
    ASSUME NEW s \in Sessions, Changed(rows, rows', s) PROVE Order!Change(s)
<1> DEFINE before == {p \in (DOMAIN rows) \X (DOMAIN rows) : rows[p[1]] < rows[p[2]]}
           others == Sessions \ {s}
<1>1. ASSUME NEW p PROVE p \in Order!Among(before', others) <=> p \in Order!Among(before, others)
  <2>1. p \in Order!Among(before, others) <=>
            \E t, u \in others : /\ p = <<t, u>> /\ t \in DOMAIN rows /\ u \in DOMAIN rows
                                 /\ rows[t] < rows[u]
      BY DEF Order!Among
  <2>2. p \in Order!Among(before', others) <=>
            \E t, u \in others : /\ p = <<t, u>> /\ t \in DOMAIN rows' /\ u \in DOMAIN rows'
                                 /\ rows'[t] < rows'[u]
      BY DEF Order!Among
  <2>3. \A t \in others : t \in DOMAIN rows' <=> t \in DOMAIN rows
      BY DEF Changed
  <2>4. \A t, u \in others : t \in DOMAIN rows /\ u \in DOMAIN rows =>
            (rows'[t] < rows'[u] <=> rows[t] < rows[u])
      BY DEF Changed
  <2> HIDE DEF before, others
  <2> QED  BY <2>1, <2>2, <2>3, <2>4
<1>2. Order!Among(before', others) = Order!Among(before, others)
    BY <1>1 DEF Order!Among
<1>3. (DOMAIN rows') \ {s} = (DOMAIN rows) \ {s}
    BY DEF Changed
<1> QED
    BY <1>2, <1>3 DEF Order!Change

\* A move keeps the order of all the others.
LEMMA MovedKeeps ==
    ASSUME NEW r, Good(r), NEW s \in DOMAIN r, NEW n \in Int
    PROVE  Changed(r, ApplyReorder(r, s, r[s], n), s)
<1> DEFINE q == ApplyReorder(r, s, r[s], n)
<1>1. DOMAIN q = DOMAIN r
    BY DEF ApplyReorder
<1>2. r[s] \in Int /\ \A t \in DOMAIN r : r[t] \in Int
    BY DEF Good, IsRows
<1>3. \A t \in DOMAIN r \ {s} :
          /\ r[t] # r[s]
          /\ q[t] = IF r[s] < n /\ r[t] > r[s] /\ r[t] <= n THEN r[t] - 1
                    ELSE IF r[s] > n /\ r[t] >= n /\ r[t] < r[s] THEN r[t] + 1
                    ELSE r[t]
  <2> TAKE t \in DOMAIN r \ {s}
  <2>1. r[t] # r[s] /\ r[t] \in Int
      BY <1>2 DEF Good, Injective
  <2> QED  BY <1>2, <2>1 DEF ApplyReorder
<1>4. \A t, u \in DOMAIN r \ {s} : t # u => r[t] # r[u]
    BY DEF Good, Injective
<1> HIDE DEF q
<1>5. ASSUME NEW t \in DOMAIN r \ {s}, NEW u \in DOMAIN r \ {s}
      PROVE  q[t] < q[u] <=> r[t] < r[u]
    BY <1>2, <1>3, <1>4
<1> QED
    BY <1>1, <1>5 DEF Changed, q

LEMMA AppliedKeeps ==
    ASSUME IInv
    PROVE  IF marker.type \in {"create", "delete", "reorder"}
           THEN Changed(rows, Applied(rows, marker), marker.s) ELSE Applied(rows, marker) = rows
<1>1. CASE marker.type = "create"
  <2>1. Applied(rows, marker) = With(rows, [t \in {marker.s} |-> marker.to])
      BY <1>1 DEF Applied
  <2>2. Changed(rows, With(rows, [t \in {marker.s} |-> marker.to]), marker.s)
      BY DEF With, Changed
  <2> QED  BY <1>1, <2>1, <2>2
<1>2. CASE marker.type = "delete"
  <2>1. Changed(rows, Without(rows, marker.s), marker.s)
      BY DEF Without, Restrict, Changed
  <2> QED  BY <1>2, <2>1 DEF Applied
<1>3. CASE marker.type = "reorder"
  <2>1. PICK s \in DOMAIN rows, n \in Int : marker = Reorder(s, rows[s], n)
      BY <1>3 DEF IInv, MarkerHolds, NoMarker, Create, Delete
  <2>2. Applied(rows, marker) = ApplyReorder(rows, s, rows[s], n) /\ marker.s = s
      BY <2>1 DEF Applied, Reorder
  <2>3. Changed(rows, ApplyReorder(rows, s, rows[s], n), s)
      BY MovedKeeps DEF IInv
  <2> QED  BY <1>3, <2>2, <2>3
<1>4. CASE marker.type \notin {"create", "delete", "reorder"}
    BY <1>4 DEF Applied
<1> QED
    BY <1>1, <1>2, <1>3, <1>4

LEMMA ResolvedKeeps ==
    ASSUME IInv
    PROVE  IF marker.type \in {"create", "delete", "reorder"}
           THEN Changed(rows, Resolved(rows, marker), marker.s) ELSE Resolved(rows, marker) = rows
<1>1. CASE marker.type = "create"
  <2>1. PICK s, n, prev : marker = Create(s, n, prev) /\ CreateHolds(s, n, prev)
      BY <1>1 DEF IInv, MarkerHolds, NoMarker, Delete, Reorder
  <2>2. Resolved(rows, marker) = Restored(Without(rows, s), prev) /\ marker.s = s
      BY <2>1 DEF Resolved, Create
  <2>3. Changed(rows, Restored(Without(rows, s), prev), s)
    <3> DEFINE q == Restored(Without(rows, s), prev)
    <3>1. DOMAIN q = DOMAIN rows \ {s}
        BY DEF Restored, Without, Restrict
    <3>2. \A t \in DOMAIN rows \ {s} : q[t] = rows[t]
        BY <2>1 DEF Restored, Without, Restrict, CreateHolds
    <3> HIDE DEF q
    <3>3. Changed(rows, q, s)
        BY <3>1, <3>2 DEF Changed
    <3> QED  BY <3>3 DEF q
  <2> QED  BY <1>1, <2>2, <2>3
<1>2. CASE marker.type # "create"
    BY <1>2, AppliedKeeps DEF Resolved
<1> QED
    BY <1>1, <1>2

\* Imported sessions stand behind all others.
LEMMA ImportJoins ==
    ASSUME IInv, NEW p \in Tools, ImportSessions(p) PROVE Order!Join
<1> DEFINE missing == store \ DOMAIN rows
<1>1. PICK n : /\ IsNext(n, rows)
               /\ \E f \in Injection(missing, n..(n + Cardinality(missing) - 1)) :
                    rows' = With(rows, f)
    BY DEF ImportSessions
<1> DEFINE k == n + Cardinality(missing) - 1
<1>2. PICK f \in Injection(missing, n..k) : rows' = With(rows, f)
    BY <1>1
<1>3. n \in Int /\ \A t \in DOMAIN rows : rows[t] < n /\ rows[t] \in Int
    BY <1>1, NextIsAbove DEF IInv, Good, IsRows
<1>4. /\ DOMAIN rows' = DOMAIN rows \cup missing
      /\ \A t \in DOMAIN rows : rows'[t] = rows[t]
      /\ \A t \in missing : rows'[t] \in n..k
    BY <1>2 DEF With, Injection
<1>5. \A t \in DOMAIN rows, u \in missing : rows'[t] < rows'[u] /\ ~(rows'[u] < rows'[t])
  <2> HIDE DEF missing
  <2> QED  BY <1>3, <1>4
<1> DEFINE before == {q \in (DOMAIN rows) \X (DOMAIN rows) : rows[q[1]] < rows[q[2]]}
<1> HIDE DEF missing
<1>6. Order!Among(before', DOMAIN rows) = before
  <2>1. ASSUME NEW q PROVE q \in before <=> q \in Order!Among(before', DOMAIN rows)
    <3>1. q \in before <=> \E t, u \in DOMAIN rows : q = <<t, u>> /\ rows[t] < rows[u]
        OBVIOUS
    <3>2. q \in Order!Among(before', DOMAIN rows) <=>
            \E t, u \in DOMAIN rows : /\ q = <<t, u>> /\ t \in DOMAIN rows' /\ u \in DOMAIN rows'
                                      /\ rows'[t] < rows'[u]
        BY DEF Order!Among
    <3> HIDE DEF before
    <3> QED  BY <1>4, <3>1, <3>2
  <2> QED  BY <2>1 DEF Order!Among
<1>7. \A a \in DOMAIN rows, b \in DOMAIN rows' \ DOMAIN rows :
            <<a, b>> \in before' /\ <<b, a>> \notin before'
    BY <1>4, <1>5
<1> QED
    BY <1>4, <1>6, <1>7 DEF Order!Join

LEMMA OrderOfStep ==
    ASSUME IInv, AckInv, [Next]_vars
    PROVE  rows' = rows \/ Order!Next
<1>1. CASE \E p \in Procs : Commit(p) \/ OpenRegistry(p)
  <2>1. \/ rows' = rows
        \/ marker.type \in {"create", "delete", "reorder"} /\ Changed(rows, rows', marker.s)
      BY <1>1, AppliedKeeps, ResolvedKeeps DEF Commit, OpenRegistry
  <2>2. marker.type \in {"create", "delete", "reorder"} => marker.s \in Sessions
    <3>1. CASE marker.type = "reorder"
      <4>1. PICK s \in DOMAIN rows, n \in Int : marker = Reorder(s, rows[s], n)
          BY <3>1 DEF IInv, MarkerHolds, NoMarker, Create, Delete
      <4> QED  BY <4>1 DEF Reorder, AckInv, Known
    <3> QED  BY <3>1 DEF AckInv, Known
  <2> QED  BY <2>1, <2>2, ChangedOrder DEF Order!Next
<1>2. CASE \E p \in Tools : ImportSessions(p)
    BY <1>2, ImportJoins DEF Order!Next
<1>3. CASE ~(\E p \in Procs : Commit(p) \/ OpenRegistry(p)) /\ ~\E p \in Tools : ImportSessions(p)
    BY <1>3 DEF Next, vars, Exit, Refused, AddSession, RemoveSession, CommitFails, InsertMarker,
                DeleteSession, EraseWithEvent, SweepRow, StartHost, ServeHost, CreateSession,
                StartPrune, PruneSweeps, DropRow, ReorderSession
<1> QED
    BY <1>1, <1>2, <1>3

(***************************************************************************)
(* The order of the sessions changes as if each mutation were atomic: to   *)
(* those who read the rows a step does nothing, or one session joins,      *)
(* leaves or moves, or sessions join at the end, whoever died or failed in *)
(* the middle of a mutation and whoever resolves it.                       *)
(***************************************************************************)
THEOREM Implements_Order == Spec => ImplementsOrder
<1>1. Init => Order!Init
    BY DEF Init, Order!Init
<1>2. IInv /\ AckInv /\ [Next]_vars =>
        [Order!Next]_<<DOMAIN rows, {p \in (DOMAIN rows) \X (DOMAIN rows) : rows[p[1]] < rows[p[2]]}>>
    BY OrderOfStep
<1> QED
    BY <1>1, <1>2, IInvAlways, AckAlways, PTL DEF Spec, ImplementsOrder, Order!Spec
=============================================================================
