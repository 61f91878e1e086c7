----------------------------- MODULE EventFeed -----------------------------
(***************************************************************************)
(* The way of a session's events from the store of its host to the screen  *)
(* of a supervisor: Session::appendEvent commits a record and publishes it *)
(* under appendMutex_ (session.cpp, event_bus.cpp); HostRuntime posts it   *)
(* to the io thread (host_runtime.cpp, workspace_host.cpp); ProtocolServer *)
(* replays the store to a new subscription and then sends the live records *)
(* (protocol_server.cpp); TransportServer writes the frames; the pump of   *)
(* SupervisorConnection reads them, keeps the resume cursor and reconnects *)
(* (host_connection.cpp, supervisor_connection.cpp); the UI thread applies *)
(* each event once (ui_event_adapter.cpp, supervisor.cpp).                 *)
(*                                                                         *)
(* One session and one supervisor. A frame stands for its bytes: the bound *)
(* of the outbound queue counts frames. The host may crash at any time and *)
(* be started again over the same store; the link may be lost at any time. *)
(***************************************************************************)
EXTENDS Naturals, Sequences, SequencesExt

CONSTANTS MaxLog,        \* records a behaviour may commit
          MaxOutbound,   \* TransportLimits::max_outbound_bytes, in frames
          MaxQueue,      \* notifications the UI thread may be behind
          MaxCrashes,    \* crashes of the host a behaviour may hold
          MaxLosses      \* losses of the link and request timeouts it may hold

ASSUME BoundsAssumption ==
    /\ MaxLog \in Nat /\ MaxOutbound \in Nat \ {0} /\ MaxQueue \in Nat \ {0}
    /\ MaxCrashes \in Nat /\ MaxLosses \in Nat

VARIABLES
    log,            \* rows of `events`, in sequence order: durable
    up,             \* the host serves
    running,        \* AgentStatus::Running: a turn is in flight in this host
    committing,     \* records committed and not yet published
    lastForwarded,  \* last_forwarded_ of the session
    posted,         \* records posted to the io thread
    conn,           \* the server still has the supervisor's connection
    replaying,      \* position a subscribe handler has replayed to, or -1
    subs,           \* live subscriptions of the connection
    out,            \* frames enqueued and not yet written to the socket
    wire,           \* frames in the socket and in HostConnection's queues
    pinned,         \* expected_boot_id of the connection is the boot of this host
    link,           \* the pump's SupervisorLinkState
    request,        \* the request the pump waits for: "none", "subscribe", "resume"
    tracked,        \* the session is in tracked_
    known,          \* the session is in subscribed_
    pendingSub,     \* subscribe_pending_
    cursor,         \* cursors_[session], 0 if none
    uiq,            \* closures queued for the UI thread
    applied,        \* records the adapter has applied, in order (applied_event_ids_)
    through,        \* applied_through of the session's state
    drawn,          \* records the conversation of the session's UI state holds
    modelled,       \* the UI has a state for the session
    daemonStatus,   \* daemon_turn_status_[session], "none" if absent
    agentState,     \* lastState_[session] of the UI
    crashes, losses \* counters of the bounds

hostVars   == <<up, running, committing, lastForwarded, posted>>
serverVars == <<conn, replaying, subs, out>>
pumpVars   == <<pinned, link, request, tracked, known, pendingSub, cursor>>
uiVars     == <<applied, drawn, modelled, through, daemonStatus, agentState>>
vars == <<log, hostVars, serverVars, wire, pumpVars, uiq, uiVars, crashes, losses>>

Kinds    == {"TurnStarted", "AssistantMessage", "TurnEnded"}
Idle     == -1                                \* no subscribe handler is running
Rec(s, r)  == [k |-> "event.stream", seq |-> s, replay |-> r]
Complete   == [k |-> "ReplayComplete"]
Accepted   == [k |-> "subscribed"]
Resumed(s) == [k |-> "resumed", status |-> s]

\* resolveCursor: where a replay starts, the beginning when there is no cursor ...
\* ... and one that would subscribe from now instead.
PositionNow(c, head)  == IF c = 0 \/ c > head THEN head ELSE c
Position(c, head)     == IF c > head THEN head ELSE c

Init ==
    /\ log = << >> /\ up = TRUE /\ running = FALSE
    /\ committing = {} /\ lastForwarded = 0 /\ posted = << >>
    /\ conn = FALSE /\ replaying = Idle /\ subs = 0 /\ out = << >> /\ wire = << >>
    /\ pinned = TRUE /\ link = "Dead" /\ request = "none" /\ tracked = FALSE
    /\ known = FALSE /\ pendingSub = FALSE /\ cursor = 0
    /\ uiq = << >> /\ applied = << >> /\ drawn = << >> /\ modelled = FALSE /\ through = 0
    /\ daemonStatus = "none" /\ agentState = "Idle"
    /\ crashes = 0 /\ losses = 0

-----------------------------------------------------------------------------
(* The host.                                                               *)

(***************************************************************************)
(* Session::appendEventLocked, up to the commit of the row. A turn writes  *)
(* TurnStarted first and TurnEnded last; the mutex is held until the       *)
(* record is published.                                                    *)
(***************************************************************************)
AppendEvent(kind) ==
    /\ up /\ committing = {} /\ Len(log) < MaxLog
    /\ running = (kind # "TurnStarted")
    /\ running' = (kind # "TurnEnded")
    /\ log' = Append(log, kind)
    /\ committing' = committing \cup {Len(log) + 1}
    /\ UNCHANGED <<up, lastForwarded, posted, serverVars, wire, pumpVars, uiq, uiVars,
                   crashes, losses>>

(***************************************************************************)
(* EventBus::publishCommitted, still under appendMutex_: the handler drops *)
(* a record at or below the last it forwarded and posts any other.         *)
(***************************************************************************)
PublishCommitted ==
    \E s \in committing :
        /\ committing' = committing \ {s}
        /\ lastForwarded' = IF s > lastForwarded THEN s ELSE lastForwarded
        /\ posted' = IF s > lastForwarded THEN Append(posted, s) ELSE posted
        /\ UNCHANGED <<log, up, running, serverVars, wire, pumpVars, uiq, uiVars,
                       crashes, losses>>

\* The process dies: what it held in memory is gone, the rows and what the
\* kernel already took of the socket's frames are not.
Crash ==
    /\ up /\ crashes < MaxCrashes
    /\ up' = FALSE /\ running' = FALSE /\ committing' = {} /\ lastForwarded' = 0
    /\ posted' = << >>
    /\ conn' = FALSE /\ replaying' = Idle /\ subs' = 0 /\ out' = << >>
    /\ crashes' = crashes + 1 /\ pinned' = FALSE
    /\ UNCHANGED <<log, wire, link, request, tracked, known, pendingSub, cursor, uiq, uiVars,
                   losses>>

\* A new host opens the same store, with a boot id of its own.
Boot ==
    /\ ~up /\ up' = TRUE
    /\ UNCHANGED <<log, running, committing, lastForwarded, posted, serverVars, wire, pumpVars,
                   uiq, uiVars, crashes, losses>>
-----------------------------------------------------------------------------
(* The io thread: one handler at a time. A subscribe handler replays the   *)
(* whole history before it returns, while the other threads go on.         *)

IoIdle == up /\ conn /\ replaying = Idle

\* ProtocolServer::enqueue of frames the outbound queue has room for.
Send(frames) ==
    /\ Len(out) + Len(frames) <= MaxOutbound
    /\ out' = out \o frames
    /\ UNCHANGED <<conn, wire>>

(***************************************************************************)
(* ... and of frames it has no room for: drop_client closes the connection *)
(* with everything still queued, save the frame the socket already has.    *)
(***************************************************************************)
DropClient(frames) ==
    /\ Len(out) + Len(frames) > MaxOutbound
    /\ conn' = FALSE /\ subs' = 0 /\ replaying' = Idle /\ out' = << >>
    /\ wire' \in {wire, Append(wire, Head(out \o frames))}

\* handle_subscribe: the response, then the replay from the cursor the client
\* named, or from the beginning.
BeginSubscribe ==
    /\ IoIdle /\ request = "subscribe"
    /\ request' = "sent"
    /\ \/ Send(<<Accepted>>) /\ replaying' = Position(cursor, Len(log)) /\ UNCHANGED subs
       \/ DropClient(<<Accepted>>)
    /\ UNCHANGED <<log, hostVars, pinned, link, tracked, known, pendingSub, cursor, uiq, uiVars,
                   crashes, losses>>

\* One readEvents batch of the replay loop.
ReplayBatch ==
    /\ replaying # Idle /\ replaying < Len(log)
    /\ LET batch == [i \in 1..(Len(log) - replaying) |-> Rec(replaying + i, TRUE)]
       IN  \/ Send(batch) /\ replaying' = Len(log) /\ UNCHANGED subs
           \/ DropClient(batch)
    /\ UNCHANGED <<log, hostVars, pumpVars, uiq, uiVars, crashes, losses>>

\* A handler that replays and forgets to make the subscription live.
FinishReplayOnly ==
    /\ replaying # Idle /\ replaying = Len(log)
    /\ \/ Send(<<Complete>>) /\ replaying' = Idle /\ UNCHANGED subs
       \/ DropClient(<<Complete>>)
    /\ UNCHANGED <<log, hostVars, pumpVars, uiq, uiVars, crashes, losses>>

\* The batch is empty: the subscription becomes live, in the same handler.
FinishSubscribe ==
    /\ replaying # Idle /\ replaying = Len(log)
    /\ \/ Send(<<Complete>>) /\ subs' = subs + 1 /\ replaying' = Idle
       \/ DropClient(<<Complete>>)
    /\ UNCHANGED <<log, hostVars, pumpVars, uiq, uiVars, crashes, losses>>

\* The posted task: onEventCommitted sends the record to every subscription.
OnEventCommitted ==
    /\ up /\ replaying = Idle /\ posted # << >>
    /\ posted' = Tail(posted)
    /\ \/ conn /\ subs > 0 /\
          LET copies == [i \in 1..subs |-> Rec(Head(posted), FALSE)]
          IN  \/ Send(copies) /\ UNCHANGED <<subs, replaying>>
              \/ DropClient(copies)
       \/ (~conn \/ subs = 0) /\ UNCHANGED <<serverVars, wire>>
    /\ UNCHANGED <<log, up, running, committing, lastForwarded, pumpVars, uiq, uiVars,
                   crashes, losses>>

\* session.resume: the reply carries the status of the turn at this moment.
HandleResume ==
    /\ IoIdle /\ request = "resume"
    /\ request' = "sent"
    /\ LET reply == <<Resumed(IF running THEN "Running" ELSE "Idle")>>
       IN  \/ Send(reply) /\ UNCHANGED <<subs, replaying>>
           \/ DropClient(reply)
    /\ UNCHANGED <<log, hostVars, pinned, link, tracked, known, pendingSub, cursor, uiq, uiVars,
                   crashes, losses>>

\* async_write has written a frame; its completion runs on the io thread.
WriteFrame ==
    /\ IoIdle /\ out # << >>
    /\ wire' = Append(wire, Head(out))
    /\ out' = Tail(out)
    /\ UNCHANGED <<log, hostVars, conn, replaying, subs, pumpVars, uiq, uiVars, crashes, losses>>

-----------------------------------------------------------------------------
(* The pump of the supervisor's connection.                                *)

\* attempt_attach: a new connection, the hello (refused by another boot), then
\* the tracked session is subscribed before the link counts as attached.
Connect ==
    /\ up /\ pinned /\ link = "Dead"
    /\ conn' = TRUE /\ replaying' = Idle /\ subs' = 0 /\ out' = << >> /\ wire' = << >>
    /\ known' = FALSE
    /\ link' = IF tracked THEN "Connecting" ELSE "Attached"
    /\ request' = IF tracked THEN "subscribe" ELSE "none"
    /\ UNCHANGED <<log, hostVars, pinned, tracked, pendingSub, cursor, uiq, uiVars, crashes,
                   losses>>

\* The pump sees subscribe_pending_ (track set it).
SubscribeTracked ==
    /\ link = "Attached" /\ request = "none" /\ pendingSub
    /\ pendingSub' = FALSE
    /\ request' = IF tracked /\ ~known THEN "subscribe" ELSE "none"
    /\ UNCHANGED <<log, hostVars, serverVars, wire, pinned, link, tracked, known, cursor, uiq, uiVars,
                   crashes, losses>>

(***************************************************************************)
(* HostConnection::request: the reply overtakes the notifications read     *)
(* before it, which wait in `pending` for nextNotification.                *)
(***************************************************************************)
ReceiveReply ==
    /\ request = "sent"
    /\ \E i \in DOMAIN wire :
        /\ wire[i].k \in {"subscribed", "resumed"}
        /\ wire' = RemoveAt(wire, i)
        /\ request' = "none" /\ link' = "Attached"
        /\ known' = (known \/ wire[i].k = "subscribed")
        /\ uiq' = IF wire[i].k = "resumed" THEN Append(uiq, wire[i]) ELSE uiq
    /\ UNCHANGED <<log, hostVars, serverVars, pinned, tracked, pendingSub, cursor, uiVars, crashes,
                   losses>>

\* A late reply is nobody's: request passes over a response to another request,
\* nextNotification over any. There is at most one underway.
Unanswered(q) == IF \E i \in DOMAIN q : q[i].k \in {"subscribed", "resumed"}
                 THEN RemoveAt(q, CHOOSE i \in DOMAIN q : q[i].k \in {"subscribed", "resumed"})
                 ELSE q

\* The reply does not come in time: the link stays up, the session stays
\* unsubscribed on this side, and the late reply is no longer waited for.
RequestTimesOut ==
    /\ request = "sent" /\ losses < MaxLosses
    /\ request' = "none" /\ link' = "Attached" /\ losses' = losses + 1
    /\ out' = Unanswered(out) /\ wire' = Unanswered(wire)
    /\ UNCHANGED <<log, hostVars, conn, replaying, subs, pinned, tracked, known, pendingSub, cursor,
                   uiq, uiVars, crashes>>

\* nextNotification, dispatch: the cursor moves before the UI thread is told.
Dispatch ==
    /\ link = "Attached" /\ request = "none" /\ wire # << >> /\ Len(uiq) < MaxQueue
    /\ wire' = Tail(wire)
    /\ cursor' = IF Head(wire).k = "event.stream" THEN Head(wire).seq ELSE cursor
    /\ uiq' = Append(uiq, Head(wire))
    /\ UNCHANGED <<log, hostVars, serverVars, pinned, link, request, tracked, known, pendingSub,
                   uiVars, crashes, losses>>

\* handle_disconnect, after an end of file, a write error or a failed ping:
\* frames not yet read may be lost with the descriptor.
Disconnect ==
    /\ link' = "Dead" /\ request' = "none" /\ known' = FALSE /\ wire' = << >>
    /\ UNCHANGED <<pinned, tracked, pendingSub, cursor>>

NoticeLoss ==
    /\ link # "Dead" /\ ~conn
    /\ Disconnect
    /\ UNCHANGED <<log, hostVars, serverVars, uiq, uiVars, crashes, losses>>

\* The link goes for a reason of its own: a supersede, an idle timeout, a
\* forced reconnect. The server closes its side.
LoseLink ==
    /\ link # "Dead" /\ conn /\ losses < MaxLosses
    /\ losses' = losses + 1
    /\ conn' = FALSE /\ replaying' = Idle /\ subs' = 0 /\ out' = << >>
    /\ Disconnect
    /\ UNCHANGED <<log, hostVars, uiq, uiVars, crashes>>

-----------------------------------------------------------------------------
(* The UI thread.                                                          *)

(***************************************************************************)
(* on_scan of the workspace scanner: a workspace whose host is dead or has *)
(* another boot id loses its connection and its UI state (eraseWorkspace); *)
(* a live one gets a new connection, which tracks nothing. What the        *)
(* adapter has applied, the recorded status and the closures already       *)
(* queued stay.                                                            *)
(***************************************************************************)
Rescan ==
    /\ ~pinned /\ (up \/ link = "Dead")
    /\ pinned' = up /\ link' = "Dead" /\ request' = "none"
    /\ tracked' = FALSE /\ known' = FALSE /\ pendingSub' = FALSE /\ cursor' = 0
    /\ wire' = << >>
    /\ drawn' = << >> /\ modelled' = FALSE /\ through' = 0
    /\ UNCHANGED <<log, hostVars, serverVars, uiq, applied, daemonStatus, agentState, crashes,
                   losses>>

\* The user opens the session: session.resume, tracked when it succeeds.
OpenSession ==
    /\ link = "Attached" /\ request = "none" /\ (~tracked \/ daemonStatus = "none")
    /\ \A i \in DOMAIN uiq : uiq[i].k # "resumed"
    /\ request' = "resume"
    /\ UNCHANGED <<log, hostVars, serverVars, wire, pinned, link, tracked, known, pendingSub, cursor,
                   uiq, uiVars, crashes, losses>>

\* refresh_sessions: a session the daemon lists as live is tracked as it is.
TrackLive ==
    /\ link = "Attached" /\ ~tracked
    /\ tracked' = TRUE /\ pendingSub' = TRUE /\ modelled' = TRUE
    /\ UNCHANGED <<log, hostVars, serverVars, wire, pinned, link, request, known, cursor, uiq,
                   applied, drawn, through, daemonStatus, agentState, crashes, losses>>

\* apply_resume_success: the status is recorded, the session tracked from
\* what its state already shows.
ApplyResumed ==
    /\ uiq # << >> /\ Head(uiq).k = "resumed"
    /\ uiq' = Tail(uiq)
    /\ daemonStatus' = Head(uiq).status
    /\ tracked' = TRUE /\ pendingSub' = TRUE /\ modelled' = TRUE
    /\ cursor' = IF cursor = 0 THEN through ELSE cursor
    /\ UNCHANGED <<log, hostVars, serverVars, wire, pinned, link, request, known, applied, drawn,
                   through, agentState, crashes, losses>>

\* project_state: what the event says of the turn.
Projected(kind, old) == CASE kind = "TurnStarted" -> "Thinking"
                          [] kind = "TurnEnded" -> "Idle"
                          [] OTHER -> old

\* reconcile_after_replay, force_idle.
Reconciled(state) == IF daemonStatus \in {"none", "Running"} THEN state ELSE "Idle"

\* An adapter that compares an event with the last one it applied only.
ApplyUnlessLast ==
    /\ uiq # << >> /\ Head(uiq).k = "event.stream"
    /\ uiq' = Tail(uiq)
    /\ through' = Head(uiq).seq /\ modelled' = TRUE
    /\ LET seen == applied # << >> /\ Last(applied) = Head(uiq).seq
       IN  /\ applied' = IF seen THEN applied ELSE Append(applied, Head(uiq).seq)
           /\ drawn' = IF seen THEN drawn ELSE Append(drawn, Head(uiq).seq)
    /\ UNCHANGED <<log, hostVars, serverVars, wire, pumpVars, daemonStatus, agentState,
                   crashes, losses>>

\* handle_sink_envelope, onSessionEnvelope: an event already applied is not
\* applied again; every replayed one is reconciled.
ApplyEvent ==
    /\ uiq # << >> /\ Head(uiq).k = "event.stream"
    /\ uiq' = Tail(uiq)
    /\ LET e     == Head(uiq)
           fresh == e.seq \notin ToSet(applied)
           state == IF fresh THEN Projected(log[e.seq], agentState) ELSE agentState
       IN  /\ through' = IF modelled THEN e.seq ELSE through
           /\ modelled' = (modelled \/ fresh)
           /\ applied' = IF fresh THEN Append(applied, e.seq) ELSE applied
           /\ drawn' = IF fresh THEN Append(drawn, e.seq) ELSE drawn
           /\ agentState' = IF e.replay THEN Reconciled(state) ELSE state
    /\ UNCHANGED <<log, hostVars, serverVars, wire, pumpVars, daemonStatus, crashes, losses>>

\* handle_sink_notice for ReplayComplete; a stale reply is nothing to the UI.
ApplyNotice ==
    /\ uiq # << >> /\ Head(uiq).k \in {"ReplayComplete", "subscribed"}
    /\ uiq' = Tail(uiq)
    /\ agentState' = Reconciled(agentState)
    /\ UNCHANGED <<log, hostVars, serverVars, wire, pumpVars, applied, drawn, modelled, through,
                   daemonStatus, crashes, losses>>

-----------------------------------------------------------------------------
Io   == BeginSubscribe \/ ReplayBatch \/ FinishSubscribe \/ OnEventCommitted
        \/ HandleResume \/ WriteFrame
Pump == Connect \/ SubscribeTracked \/ ReceiveReply \/ Dispatch \/ NoticeLoss
Ui   == ApplyResumed \/ ApplyEvent \/ ApplyNotice
Env  == \/ \E k \in Kinds : AppendEvent(k)
        \/ Crash \/ Boot \/ RequestTimesOut \/ LoseLink \/ OpenSession \/ TrackLive

Next == PublishCommitted \/ Io \/ Pump \/ Ui \/ Rescan \/ Env

Spec == Init /\ [][Next]_vars

(***************************************************************************)
(* A thread that has something to do does it: the publishing thread, the   *)
(* io thread (one handler after the other, frames written when a socket    *)
(* takes them), the pump, the UI thread and the scanner. Nothing is        *)
(* assumed of the turns, the user, the crashes and the restarts.           *)
(***************************************************************************)
FairSpec == /\ Spec
            /\ WF_vars(PublishCommitted)
            /\ WF_vars(BeginSubscribe) /\ WF_vars(ReplayBatch) /\ WF_vars(FinishSubscribe)
            /\ WF_vars(OnEventCommitted) /\ WF_vars(HandleResume) /\ SF_vars(WriteFrame)
            /\ WF_vars(Connect) /\ WF_vars(SubscribeTracked) /\ WF_vars(ReceiveReply)
            /\ WF_vars(Dispatch) /\ WF_vars(NoticeLoss)
            /\ WF_vars(Ui) /\ WF_vars(Rescan)

-----------------------------------------------------------------------------
(* Properties.                                                             *)

(***************************************************************************)
(* The UI applies the records of the log one at a time, in its order, each *)
(* exactly once, although replays repeat what was sent live, live records  *)
(* repeat what a replay sent, the host crashes and the link is lost.       *)
(***************************************************************************)
Feed == INSTANCE SessionFeed WITH shown <- applied
ImplementsFeed == Feed!Spec

(***************************************************************************)
(* The resume cursor (cursors_, written by dispatch before the UI thread   *)
(* is told) never passes a record the UI has neither applied nor been      *)
(* handed: a resubscription from it leaves no gap.                         *)
(***************************************************************************)
CursorCovered ==
    \A s \in 1..cursor : s \in ToSet(applied)
                        \/ \E i \in DOMAIN uiq : uiq[i].k = "event.stream" /\ uiq[i].seq = s

(***************************************************************************)
(* What the host has committed reaches the screen of a supervisor that     *)
(* tracks the session (until a scan finds another boot and tracks nothing) *)
(* if the host stays up and no subscribe request has timed out for good    *)
(* (supervisor_connection.cpp:315 gives such a session up until the next   *)
(* reconnect).                                                             *)
(***************************************************************************)
Abandoned == link = "Attached" /\ request = "none" /\ tracked /\ ~known /\ ~pendingSub

CatchesUp ==
    <>[](up /\ ~Abandoned) =>
        \A n \in 1..MaxLog : (tracked /\ Len(log) >= n) ~> (~tracked \/ Len(applied) >= n)

\* Everything the host has sent to a live subscription has been applied.
Quiet == /\ up /\ committing = {} /\ posted = << >> /\ out = << >> /\ wire = << >> /\ uiq = << >>
         /\ link = "Attached" /\ request = "none" /\ known /\ subs > 0

(***************************************************************************)
(* "drop a session's replay-dedup ids on pop/switch/delete/eviction;       *)
(* without it a re-entry drops every replayed event and renders blank"     *)
(* (ui_event_adapter.hpp:67-70): when everything the host sent has been    *)
(* applied, the conversation on the screen holds the whole log. The code   *)
(* breaks this: on_scan erases the session's state when the host has       *)
(* another boot id and keeps the ids, so the replay that should fill the   *)
(* new state is dropped as already applied.                                *)
(***************************************************************************)
ScreenComplete == Quiet /\ modelled /\ Len(applied) = Len(log) => drawn = applied
=============================================================================
