------------------------- MODULE ConnectionManager -------------------------
(***************************************************************************)
(* network/connection_manager.rs: the table of active connections, the     *)
(* heartbeat task, the tasks that set a session up and run it, the tasks   *)
(* that send a message, and the UI thread as the reader of their events.   *)
(*                                                                         *)
(* The tokio Mutex around the table is the variable lock.  A critical      *)
(* section that awaits nothing is one action guarded by lock = Nobody; one *)
(* that awaits (a channel with no room) takes the lock, goes through its   *)
(* steps holding it, and gives it back.  Bounded mpsc channels are         *)
(* sequences: a sender's step is enabled only while there is room.         *)
(*                                                                         *)
(* A session is a TCP stream with the task that serves it.  Sessions is a  *)
(* pool of identities: one that has ended may be used again, so behaviours *)
(* are infinite and only the number of simultaneous streams is bounded.    *)
(***************************************************************************)
EXTENDS Naturals, Sequences, FiniteSets

CONSTANTS
    Peers,              \* fingerprints of other machines
    Sessions,           \* identities of streams and their tasks
    Messages,           \* messages the user sends, one send_message call each
    MaxConnections,     \* MAX_ACTIVE_CONNECTIONS
    MissedLimit,        \* MISSED_HEARTBEATS_LIMIT
    IdleTicks,          \* INACTIVITY_TIMEOUT_SECS / HEARTBEAT_INTERVAL_SECS
    OutCap,             \* capacity of a session's outgoing channel
    EventCap,           \* capacity of the event channel to the UI
    Incoming,           \* kinds of packet the other machines send
    MaxDue,             \* bound: heartbeat ticks that may be overdue
    Nobody,             \* nobody holds the lock; also: no value yet
    Ticker              \* the heartbeat task as a holder of the lock

ASSUME LimitsAssumption ==
    /\ MaxConnections \in Nat \ {0}
    /\ MissedLimit \in Nat \ {0}
    /\ IdleTicks \in Nat \ {0}
    /\ OutCap \in Nat \ {0}
    /\ EventCap \in Nat \ {0}
    /\ MaxDue \in Nat \ {0}
    /\ Incoming \subseteq {"Ping", "Pong", "Message"}

ASSUME NamesAssumption ==
    /\ Nobody # Ticker
    /\ {Nobody, Ticker} \cap (Sessions \cup Messages) = {}
    /\ Sessions \cap Messages = {}
    /\ Messages \cap {"Ping", "Pong", "Message"} = {}

VARIABLES
    lock,           \* holder of the mutex around the connection table
    connections,    \* the table: peer -> its ActiveConn
    pc,             \* pc[s]: where the task of session s is
    peer,           \* peer[s]: fingerprint at the other end of s
    out,            \* out[s]: outgoing channel of s
    cur,            \* cur[s]: packet the task of s is working on
    by,             \* by[s]: send task that waits for the setup of s
    spc,            \* spc[m]: where the task that sends m is
    to,             \* to[m]: recipient of m
    tick,           \* phase of the heartbeat task
    todo, doomed,   \* peers its pass has still to visit; has decided to drop
    due,            \* heartbeat intervals elapsed and not yet served
    events,         \* event channel to the UI
    presence,       \* presence[p]: peer state the UI shows
    status,         \* status[m]: message status the UI shows
    written         \* messages whose frame was written to a stream

table    == <<lock, connections>>
session  == <<pc, peer, out, cur, by>>
sending  == <<spc, to>>
heart    == <<tick, todo, doomed, due>>
ui       == <<presence, status>>
vars     == <<table, session, sending, heart, events, ui, written>>

\* TransportPacket.  "Message" is one that arrives; a Pong stands also for one
\* that Message::new_inbound refuses, which has the same effect.
Packet == {"Ping", "Pong", "Message"} \cup Messages

\* ActiveConn; the sender half of the channel is the name of the session, and
\* last_activity is its age in whole heartbeat intervals (no age beyond
\* IdleTicks + 1 is kept).  Entries of equal age are ties for the eviction, so
\* the model lets it choose where the code's Instant may tell them apart.
ActiveConn == [session : Sessions, age : 0..(IdleTicks + 1), missed : Nat]

\* NetworkEvent, with Sent and Failed for MessageStatusUpdated.
NetworkEvent == [kind : {"Online", "Offline", "Received"}, of : Peers]
                  \cup [kind : {"Sent", "Failed"}, of : Messages]

Event(kind, x) == [kind |-> kind, of |-> x]
\* Mutant: an unbounded event channel.
RoomUnbounded == TRUE

Room           == Len(events) < EventCap
Emit(kind, x)  == Room /\ events' = Append(events, Event(kind, x))

Connected == DOMAIN connections
Without(p) == [q \in Connected \ {p} |-> connections[q]]

Capped(n) == IF n > IdleTicks THEN IdleTicks + 1 ELSE n

Init ==
    /\ lock = Nobody
    /\ connections = [p \in {} |-> {}]
    /\ pc = [s \in Sessions |-> "free"]
    /\ peer = [s \in Sessions |-> Nobody]
    /\ out = [s \in Sessions |-> <<>>]
    /\ cur = [s \in Sessions |-> Nobody]
    /\ by = [s \in Sessions |-> Nobody]
    /\ spc = [m \in Messages |-> "none"]
    /\ to = [m \in Messages |-> Nobody]
    /\ tick = "idle" /\ todo = {} /\ doomed = {}
    /\ due = 1      \* the first tick of tokio's interval is immediate
    /\ events = <<>>
    /\ presence = [p \in Peers |-> "Offline"]
    /\ status = [m \in Messages |-> "None"]
    /\ written = {}

-----------------------------------------------------------------------------
(* The heartbeat task: tick_heartbeat_and_inactivity.                      *)

\* Ten seconds pass.  The interval catches up with ticks it is late for.
TimePasses ==
    /\ due < MaxDue
    /\ due' = due + 1
    /\ connections' = [p \in Connected |->
                         [connections[p] EXCEPT !.age = Capped(@ + 1)]]
    /\ UNCHANGED <<lock, session, sending, tick, todo, doomed, events, ui, written>>

TickStart ==
    /\ tick = "idle" /\ due > 0 /\ lock = Nobody
    /\ lock' = Ticker
    /\ tick' = "scan"
    /\ todo' = Connected
    /\ doomed' = {}
    /\ due' = due - 1
    /\ UNCHANGED <<connections, session, sending, events, ui, written>>

Idle(p) == connections[p].age > IdleTicks
Missed(p) == connections[p].missed + 1

\* Mutant: one heartbeat more than the limit is forgiven.
SilentLate(p) == Missed(p) > MissedLimit + 1

Silent(p) == Missed(p) > MissedLimit

\* The entry is idle for too long, or has missed too many heartbeats.
TickCondemn(p) ==
    /\ tick = "scan" /\ p \in todo
    /\ Idle(p) \/ Silent(p)
    /\ connections' = IF Idle(p) THEN connections
                      ELSE [connections EXCEPT ![p].missed = Missed(p)]
    /\ todo' = todo \ {p}
    /\ doomed' = doomed \cup {p}
    /\ UNCHANGED <<lock, session, sending, tick, due, events, ui, written>>

\* The entry is pinged.  The send waits, lock in hand, while the channel is
\* full; nobody can see the counter meanwhile, so one step does both.
TickPing(p) ==
    /\ tick = "scan" /\ p \in todo
    /\ ~Idle(p) /\ ~Silent(p)
    /\ Len(out[connections[p].session]) < OutCap
    /\ out' = [out EXCEPT ![connections[p].session] = Append(@, "Ping")]
    /\ connections' = [connections EXCEPT ![p].missed = Missed(p)]
    /\ todo' = todo \ {p}
    /\ UNCHANGED <<lock, pc, peer, cur, by, sending, tick, doomed, due, events,
                   ui, written>>

\* Mutant: the peer is reported offline and its entry forgotten.
TickDropKeeps(p) ==
    /\ tick = "scan" /\ todo = {} /\ p \in doomed
    /\ Emit("Offline", p)
    /\ doomed' = doomed \ {p}
    /\ UNCHANGED <<table, session, sending, tick, todo, due, ui, written>>

TickDrop(p) ==
    /\ tick = "scan" /\ todo = {} /\ p \in doomed
    /\ connections' = Without(p)
    /\ Emit("Offline", p)
    /\ doomed' = doomed \ {p}
    /\ UNCHANGED <<lock, session, sending, tick, todo, due, ui, written>>

TickEnd ==
    /\ tick = "scan" /\ todo = {} /\ doomed = {}
    /\ lock' = Nobody
    /\ tick' = "idle"
    /\ UNCHANGED <<connections, session, sending, todo, doomed, due, events, ui,
                   written>>

-----------------------------------------------------------------------------
(* Setting a session up: connect_to_peer_if_needed, the two handshakes and *)
(* the head of spawn_session_loop.                                         *)

\* The stream exists and its handshake is running; w waits for the outcome.
Handshake(s, p, w) ==
    /\ pc[s] = "free"
    /\ pc' = [pc EXCEPT ![s] = "handshake"]
    /\ peer' = [peer EXCEPT ![s] = p]
    /\ by' = [by EXCEPT ![s] = w]

\* The user opens a chat with a peer that is not connected and the TCP
\* connection succeeds.  (When the peer is in the table, or the connection
\* fails, the task ends without a change.)
OpenChat(s, p) ==
    /\ lock = Nobody
    /\ p \notin Connected
    /\ Handshake(s, p, Nobody)
    /\ UNCHANGED <<table, out, cur, sending, heart, events, ui, written>>

\* A peer connects to the listener.
Accept(s, p) ==
    /\ Handshake(s, p, Nobody)
    /\ UNCHANGED <<table, out, cur, sending, heart, events, ui, written>>

\* connect_to_peer_if_needed returns to the send_message that called it,
\* which ignores the result.
Resume(w) == spc' = IF w = Nobody THEN spc ELSE [spc EXCEPT ![w] = "acquire"]

\* Mutant: an error return that leaves the waiting send behind.
HandshakeFailsSilently(s) ==
    /\ pc[s] = "handshake"
    /\ pc' = [pc EXCEPT ![s] = "free"]
    /\ peer' = [peer EXCEPT ![s] = Nobody]
    /\ by' = [by EXCEPT ![s] = Nobody]
    /\ UNCHANGED <<table, out, cur, sending, heart, events, ui, written>>

\* A frame is missing or malformed, the stream breaks, or the fingerprint is
\* not the expected one.
HandshakeFails(s) ==
    /\ pc[s] = "handshake"
    /\ pc' = [pc EXCEPT ![s] = "free"]
    /\ peer' = [peer EXCEPT ![s] = Nobody]
    /\ by' = [by EXCEPT ![s] = Nobody]
    /\ Resume(by[s])
    /\ UNCHANGED <<table, out, cur, to, heart, events, ui, written>>

\* Mutant: the size of the table is looked at without waiting for the lock.
RegisterUnlocked(s) ==
    /\ pc[s] = "handshake"
    /\ lock' = s
    /\ pc' = [pc EXCEPT ![s] = IF Cardinality(Connected) >= MaxConnections
                                 THEN "evict" ELSE "insert"]
    /\ UNCHANGED <<connections, peer, out, cur, by, sending, heart, events, ui,
                   written>>

\* The handshake is over, spawn_session_loop takes the lock and
\* ensure_connection_capacity looks at the size of the table, whether or not
\* the peer already has an entry.
Register(s) ==
    /\ pc[s] = "handshake" /\ lock = Nobody
    /\ lock' = s
    /\ pc' = [pc EXCEPT ![s] = IF Cardinality(Connected) >= MaxConnections
                                 THEN "evict" ELSE "insert"]
    /\ UNCHANGED <<connections, peer, out, cur, by, sending, heart, events, ui,
                   written>>

LeastRecentlyUsed ==
    {p \in Connected : \A q \in Connected : connections[q].age <= connections[p].age}

Evict(s) ==
    /\ pc[s] = "evict"
    /\ \E p \in LeastRecentlyUsed :
         /\ connections' = Without(p)
         /\ Emit("Offline", p)
    /\ pc' = [pc EXCEPT ![s] = "insert"]
    /\ UNCHANGED <<lock, peer, out, cur, by, sending, heart, ui, written>>

\* HashMap::insert: an entry of the same peer is overwritten.
Insert(s) ==
    /\ pc[s] = "insert"
    /\ connections' = [p \in Connected \cup {peer[s]} |->
                         IF p = peer[s] THEN [session |-> s, age |-> 0, missed |-> 0]
                                        ELSE connections[p]]
    /\ lock' = Nobody
    /\ pc' = [pc EXCEPT ![s] = "announce"]
    /\ UNCHANGED <<peer, out, cur, by, sending, heart, events, ui, written>>

\* PeerOnline is sent after the lock is released, then the task is spawned.
Announce(s) ==
    /\ pc[s] = "announce"
    /\ Emit("Online", peer[s])
    /\ pc' = [pc EXCEPT ![s] = "select"]
    /\ by' = [by EXCEPT ![s] = Nobody]
    /\ Resume(by[s])
    /\ UNCHANGED <<table, peer, out, cur, to, heart, ui, written>>

-----------------------------------------------------------------------------
(* The task of a session: the select! loop of spawn_session_loop.          *)

\* (A packet always serializes: to_bytes has no limit, so its continue is dead.)
TakePacket(s) ==
    /\ pc[s] = "select" /\ out[s] # <<>>
    /\ cur' = [cur EXCEPT ![s] = Head(out[s])]
    /\ out' = [out EXCEPT ![s] = Tail(@)]
    /\ pc' = [pc EXCEPT ![s] = "write"]
    /\ UNCHANGED <<table, peer, by, sending, heart, events, ui, written>>

Continue(s, next) ==
    /\ pc' = [pc EXCEPT ![s] = next]
    /\ cur' = [cur EXCEPT ![s] = Nobody]

WriteDone(s) ==
    /\ pc[s] = "write"
    /\ written' = written \cup ({cur[s]} \cap Messages)
    /\ Continue(s, "select")
    /\ UNCHANGED <<table, peer, out, by, sending, heart, events, ui>>

WriteFails(s) ==
    /\ pc[s] = "write"
    /\ Continue(s, "cleanup")
    /\ UNCHANGED <<table, peer, out, by, sending, heart, events, ui, written>>

\* A whole frame arrives and decrypts to packet k.
ReadPacket(s, k) ==
    /\ pc[s] = "select"
    /\ cur' = [cur EXCEPT ![s] = k]
    /\ pc' = [pc EXCEPT ![s] = "refresh"]
    /\ UNCHANGED <<table, peer, out, by, sending, heart, events, ui, written>>

\* The peer closes, the stream breaks or a frame does not decrypt.
ReadFails(s) ==
    /\ pc[s] = "select"
    /\ pc' = [pc EXCEPT ![s] = "cleanup"]
    /\ UNCHANGED <<table, peer, out, cur, by, sending, heart, events, ui, written>>

\* The entry of the peer is refreshed, whichever session it belongs to.
Refresh(s) ==
    /\ pc[s] = "refresh" /\ lock = Nobody
    /\ connections' = [p \in Connected |->
                         IF p = peer[s]
                           THEN [connections[p] EXCEPT !.age = 0, !.missed = 0]
                           ELSE connections[p]]
    /\ pc' = [pc EXCEPT ![s] = CASE cur[s] = "Ping" -> "reply"
                                 [] cur[s] = "Message" -> "deliver"
                                 [] OTHER -> "select"]
    /\ UNCHANGED <<lock, peer, out, cur, by, sending, heart, events, ui, written>>

\* The Pong goes through the task's own channel.
Reply(s) ==
    /\ pc[s] = "reply" /\ Len(out[s]) < OutCap
    /\ out' = [out EXCEPT ![s] = Append(@, "Pong")]
    /\ Continue(s, "select")
    /\ UNCHANGED <<table, peer, by, sending, heart, events, ui, written>>

Deliver(s) ==
    /\ pc[s] = "deliver"
    /\ Emit("Received", peer[s])
    /\ Continue(s, "select")
    /\ UNCHANGED <<table, peer, out, by, sending, heart, ui, written>>

\* Mutant: the task ends without removing its peer.
CleanupSkipped(s) ==
    /\ pc[s] = "cleanup" /\ lock = Nobody
    /\ pc' = [pc EXCEPT ![s] = "offline"]
    /\ UNCHANGED <<table, peer, out, cur, by, sending, heart, events, ui, written>>

\* Mutant: the removal does not wait for the lock.
CleanupUnlocked(s) ==
    /\ pc[s] = "cleanup"
    /\ connections' = Without(peer[s])
    /\ pc' = [pc EXCEPT ![s] = "offline"]
    /\ UNCHANGED <<lock, peer, out, cur, by, sending, heart, events, ui, written>>

\* The entry of the peer is removed, whichever session it belongs to.
Cleanup(s) ==
    /\ pc[s] = "cleanup" /\ lock = Nobody
    /\ connections' = Without(peer[s])
    /\ pc' = [pc EXCEPT ![s] = "offline"]
    /\ UNCHANGED <<lock, peer, out, cur, by, sending, heart, events, ui, written>>

\* PeerOffline is sent and the task ends; what its channel held is lost.
Close(s) ==
    /\ pc[s] = "offline"
    /\ Emit("Offline", peer[s])
    /\ pc' = [pc EXCEPT ![s] = "free"]
    /\ peer' = [peer EXCEPT ![s] = Nobody]
    /\ out' = [out EXCEPT ![s] = <<>>]
    /\ UNCHANGED <<table, cur, by, sending, heart, ui, written>>

-----------------------------------------------------------------------------
(* Sending a message: App::send creates it Pending and spawns send_message.*)

At(m, here, next) == spc[m] = here /\ spc' = [spc EXCEPT ![m] = next]

Send(m, p) ==
    /\ At(m, "none", "check")
    /\ to' = [to EXCEPT ![m] = p]
    /\ status' = [status EXCEPT ![m] = "Pending"]
    /\ UNCHANGED <<table, session, heart, events, presence, written>>

\* A look at the table finds an entry; or it does not and the TCP connection
\* fails or times out.  (The code looks twice, here and again at the head of
\* connect_to_peer_if_needed; nothing happens between the two looks, and an
\* entry found by either has the same effect, so one look stands for both.)
NoDial(m) ==
    /\ lock = Nobody
    /\ At(m, "check", "acquire")
    /\ UNCHANGED <<table, session, to, heart, events, ui, written>>

Dial(m, s) ==
    /\ lock = Nobody
    /\ to[m] \notin Connected
    /\ At(m, "check", "setup")
    /\ Handshake(s, to[m], m)
    /\ UNCHANGED <<table, out, cur, to, heart, events, ui, written>>

\* Mutant: the table is read without waiting for the lock.
SendAcquireUnlocked(m) ==
    /\ lock' = m
    /\ At(m, "acquire", IF to[m] \in Connected THEN "queue" ELSE "reject")
    /\ UNCHANGED <<connections, session, to, heart, events, ui, written>>

SendAcquire(m) ==
    /\ lock = Nobody
    /\ lock' = m
    /\ At(m, "acquire", IF to[m] \in Connected THEN "queue" ELSE "reject")
    /\ UNCHANGED <<connections, session, to, heart, events, ui, written>>

\* Mutant: the message is queued again after it was accepted.
QueueAgain(m) ==
    /\ At(m, "queue", "queue")
    /\ LET s == connections[to[m]].session IN
         /\ Len(out[s]) < OutCap
         /\ out' = [out EXCEPT ![s] = Append(@, m)]
    /\ UNCHANGED <<table, pc, peer, cur, by, to, heart, events, ui, written>>

\* The send waits, lock in hand, while the channel is full.  It cannot find
\* the channel closed (EntryIsLive), so the Err branch has no action.
Queue(m) ==
    /\ At(m, "queue", "accept")
    /\ LET s == connections[to[m]].session IN
         /\ Len(out[s]) < OutCap
         /\ out' = [out EXCEPT ![s] = Append(@, m)]
    /\ UNCHANGED <<table, pc, peer, cur, by, to, heart, events, ui, written>>

\* MessageStatusUpdated is sent before the lock is released.
ReportSent(m) ==
    /\ At(m, "accept", "sent")
    /\ Emit("Sent", m)
    /\ lock' = Nobody
    /\ UNCHANGED <<connections, session, to, heart, ui, written>>

\* Mutant: a rejected message is tried again without the user.
ReportFailedRetries(m) ==
    /\ At(m, "reject", "check")
    /\ Emit("Failed", m)
    /\ lock' = Nobody
    /\ UNCHANGED <<connections, session, to, heart, ui, written>>

ReportFailed(m) ==
    /\ At(m, "reject", "failed")
    /\ Emit("Failed", m)
    /\ lock' = Nobody
    /\ UNCHANGED <<connections, session, to, heart, ui, written>>

-----------------------------------------------------------------------------
(* The UI thread reads the events in order (app.rs).                       *)

HandleEvent ==
    /\ events # <<>>
    /\ events' = Tail(events)
    /\ LET e == Head(events) IN
         /\ presence' = IF e.kind \in {"Online", "Offline"}
                          THEN [presence EXCEPT ![e.of] = e.kind] ELSE presence
         /\ status' = IF e.kind \in {"Sent", "Failed"}
                        THEN [status EXCEPT ![e.of] = e.kind] ELSE status
    /\ UNCHANGED <<table, session, sending, heart, written>>

-----------------------------------------------------------------------------
Heartbeat ==
    \/ TickStart
    \/ \E p \in todo : TickCondemn(p) \/ TickPing(p)
    \/ \E p \in doomed : TickDrop(p)
    \/ TickEnd

Setup(s) ==
    \/ HandshakeFails(s) \/ Register(s)
    \/ Evict(s) \/ Insert(s) \/ Announce(s)

Loop(s) ==
    \/ TakePacket(s) \/ WriteDone(s) \/ WriteFails(s)
    \/ ReadFails(s) \/ \E k \in Incoming : ReadPacket(s, k)
    \/ Refresh(s) \/ Reply(s) \/ Deliver(s)
    \/ Cleanup(s) \/ Close(s)

SendTask(m) ==
    \/ NoDial(m) \/ \E s \in Sessions : Dial(m, s)
    \/ SendAcquire(m) \/ Queue(m) \/ ReportSent(m) \/ ReportFailed(m)

User ==
    \/ \E s \in Sessions, p \in Peers : OpenChat(s, p)
    \/ \E m \in Messages, p \in Peers : Send(m, p)

Next ==
    \/ TimePasses
    \/ Heartbeat
    \/ User
    \/ \E s \in Sessions, p \in Peers : Accept(s, p)
    \/ \E s \in Sessions : Setup(s) \/ Loop(s)
    \/ \E m \in Messages : SendTask(m)
    \/ HandleEvent

Spec == Init /\ [][Next]_vars

(***************************************************************************)
(* Properties                                                              *)
(***************************************************************************)

SetupPc   == {"handshake", "evict", "insert"}
LoopPc    == {"select", "write", "refresh", "reply", "deliver"}
SendPc    == {"none", "check", "setup", "acquire", "queue", "reject",
              "accept", "sent", "failed"}

TableType ==
    /\ lock \in {Nobody, Ticker} \cup Sessions \cup Messages
    /\ Connected \subseteq Peers
    /\ connections \in [Connected -> ActiveConn]

SessionType ==
    /\ pc \in [Sessions -> {"free", "announce", "cleanup", "offline"}
                             \cup SetupPc \cup LoopPc]
    /\ peer \in [Sessions -> Peers \cup {Nobody}]
    /\ \A s \in Sessions : pc[s] # "free" => peer[s] \in Peers
    /\ cur \in [Sessions -> Packet \cup {Nobody}]
    /\ by \in [Sessions -> Messages \cup {Nobody}]

OutType ==
    /\ out \in [Sessions -> Seq(Packet)]
    /\ \A s \in Sessions : Len(out[s]) <= OutCap

SendingType ==
    /\ spc \in [Messages -> SendPc]
    /\ to \in [Messages -> Peers \cup {Nobody}]
    /\ \A m \in Messages : spc[m] = "check" => to[m] \in Peers

HeartType ==
    /\ tick \in {"idle", "scan"}
    /\ todo \subseteq Peers /\ doomed \subseteq Peers
    /\ due \in 0..MaxDue

EventsType == events \in Seq(NetworkEvent) /\ Len(events) <= EventCap

UIType ==
    /\ presence \in [Peers -> {"Online", "Offline"}]
    /\ status \in [Messages -> {"None", "Pending", "Sent", "Failed"}]
    /\ written \subseteq Messages

\* Types, and the bounds of the two channels.
TypeOK ==
    /\ TableType /\ SessionType /\ OutType /\ SendingType
    /\ HeartType /\ EventsType /\ UIType

\* The table never holds more than MAX_ACTIVE_CONNECTIONS entries: between the
\* eviction of one setup and its insert, across the wait for event room, no
\* other setup gets in.
CapacityBound == Cardinality(Connected) <= MaxConnections

\* Every entry belongs to a session of that very peer whose task has not yet
\* removed the peer: a packet put in the entry's channel goes to the right peer,
\* and the channel is open (send_message's Err branch, lines 476-480, is dead).
EntryIsLive ==
    \A p \in Connected :
        LET s == connections[p].session IN
            peer[s] = p /\ pc[s] \in LoopPc \cup {"announce", "cleanup"}

\* While the heartbeat pass waits for room in a channel, the peers it has still
\* to visit or to drop stay in the table and nobody else changes it.
TickSeesTable == tick = "scan" => lock = Ticker /\ todo \cup doomed \subseteq Connected

\* FR-PC-08: an entry that has missed more than MISSED_HEARTBEATS_LIMIT
\* heartbeats is one the pass under way is about to drop; a refresh cannot come
\* between the decision and the drop, and no entry outlives the pass with it.
OverdueIsDoomed ==
    \A p \in Connected :
        connections[p].missed > MissedLimit => tick = "scan" /\ p \in doomed \ todo

\* Who holds the lock is where its critical section is, and nobody else is in
\* one: setup between taking the lock and the insert, the heartbeat pass, a send
\* from the look at the table to its status event.
LockDiscipline ==
    /\ \A s \in Sessions : pc[s] \in {"evict", "insert"} <=> lock = s
    /\ \A m \in Messages : spc[m] \in {"queue", "accept", "reject"} <=> lock = m
    /\ tick = "scan" <=> lock = Ticker

\* A send that waits for the setup of a connection waits for exactly one, which
\* is still under way, and no other: it is resumed once, never while it is
\* already past the wait, and no setup ends without resuming its send.
OneSetupPerSend ==
    /\ \A s \in Sessions : by[s] # Nobody =>
          spc[by[s]] = "setup" /\ pc[s] \in SetupPc \cup {"announce"}
    /\ \A m \in Messages : spc[m] = "setup" => \E s \in Sessions : by[s] = m
    /\ \A s, t \in Sessions : by[s] # Nobody /\ by[s] = by[t] => s = t

\* What a setup learns about the size of the table stays true until its insert.
InsertHasRoom ==
    \A s \in Sessions : pc[s] = "insert" => Cardinality(Connected) < MaxConnections

\* Places where message m is: in a channel or in the hands of a session task.
InHand(m)  == {s \in Sessions : cur[s] = m}
Holds(s, i, m) == i <= Len(out[s]) /\ out[s][i] = m
Queued(m)  == {q \in Sessions \X (1..OutCap) : Holds(q[1], q[2], m)}
HandedOver(m) == InHand(m) \cup Queued(m) # {}

\* How the send of m stands, for the abstract specification MessageLifecycle.
Fate(m) ==
    IF m \in written THEN "written"
    ELSE IF HandedOver(m) THEN "handed"
    ELSE CASE spc[m] = "none"                                   -> "idle"
           [] spc[m] \in {"check", "setup", "acquire", "queue"} -> "pending"
           [] spc[m] \in {"reject", "failed"}                   -> "rejected"
           [] spc[m] \in {"accept", "sent"}                     -> "lost"

\* A message is in at most one place at a time, so its frame can be written at
\* most once; and no other session than its recipient's ever carries it, even
\* when the entry is replaced between the checks and the send.
CarriedOnceToRecipient ==
    \A m \in Messages :
        /\ Cardinality(InHand(m)) + Cardinality(Queued(m)) <= 1
        /\ m \in written => ~HandedOver(m)
        /\ \A s \in InHand(m) \cup {q[1] : q \in Queued(m)} : peer[s] = to[m]

Lifecycle == INSTANCE MessageLifecycle
               WITH fate <- [m \in Messages |-> Fate(m)], shown <- status

\* Sending implements MessageLifecycle (FR-MSG-08, no retry of FR-MSG-06): a
\* message is tried once; Failed is shown only of one that was rejected and is
\* then never queued or written, Sent only of one a session accepted; each is
\* shown once and stays.  That Sent may be said of a lost one is SentIsNotLost.
ImplementsLifecycle == Lifecycle!Spec

-----------------------------------------------------------------------------
(* Fairness.  The tokio Mutex and the permits of an mpsc channel are given  *)
(* out in FIFO order, so whoever waits for them gets them once they are    *)
(* released again and again: strong fairness.  select! polls its branches   *)
(* in random order, so a channel that keeps being ready is read in the end. *)

OwnStep(s) ==
    \/ Evict(s) \/ Insert(s) \/ Announce(s)
    \/ Refresh(s) \/ Reply(s) \/ Deliver(s) \/ Cleanup(s) \/ Close(s)

CodeFairness ==
    /\ SF_vars(TickStart) /\ WF_vars(Heartbeat)
    /\ \A s \in Sessions : SF_vars(OwnStep(s)) /\ SF_vars(TakePacket(s))
    /\ \A m \in Messages : SF_vars(SendTask(m))
    /\ WF_vars(HandleEvent)

\* Time passes whatever the tasks do.
Time == WF_vars(TimePasses)

\* The code alone: no stream, no handshake and no write is assumed to make
\* progress, and packets come in at any pace.
CodeSpec == Spec /\ CodeFairness /\ Time

\* Handshakes end and writes return: the other side answers and keeps reading,
\* or the stream breaks.  Nothing in the code sees to that (no timeout), so no
\* property that holds relies on it; it makes the refutations below stronger.
NetFairness ==
    \A s \in Sessions :
        /\ SF_vars(Register(s) \/ HandshakeFails(s))
        /\ WF_vars(WriteDone(s) \/ WriteFails(s))

FairSpec == CodeSpec /\ NetFairness

\* The two ways in which the program can come to wait for ever.  A handshake
\* is read without a timeout; and the holder of the lock waits for room in the
\* channel of a session whose task is in a write that does not return, waits
\* for that lock itself, or waits for room in its own channel.
Unanswered(m) == \E s \in Sessions : by[s] = m /\ pc[s] = "handshake"

AwaitsRoom(s) ==
    \/ \E p \in todo : connections[p].session = s
    \/ \E m \in Messages : spc[m] = "queue" /\ connections[to[m]].session = s

Jammed(s) ==
    /\ Len(out[s]) = OutCap /\ AwaitsRoom(s)
    /\ pc[s] \in {"write", "refresh", "cleanup", "reply"}

JammedForEver == \E s \in Sessions : <>[]Jammed(s)

\* FR-MSG-04, with no assumption about the network: a message is pending for
\* ever only if its own handshake is never answered, or if the program is jammed
\* for ever.  No other wait on its way is without end: for the lock among
\* setups, evictions, cleanups and the heartbeat, for event room, for the setup
\* of a connection that another session replaces or evicts.
EverySendResolves ==
    \A m \in Messages :
        \/ []<>(status[m] # "Pending")
        \/ <>[]Unanswered(m)
        \/ JammedForEver

\* FR-PC-08: a peer from which nothing is heard any more does not stay in the
\* table, again unless the program is jammed for ever: it is again and again out
\* of the table, or one of its sessions has just read a packet or been set up.
HeardFrom(p) == \E s \in Sessions : peer[s] = p /\ pc[s] \in {"refresh", "announce"}
SilentPeerDropped ==
    \A p \in Peers : []<>(p \in Connected => HeardFrom(p)) \/ JammedForEver

-----------------------------------------------------------------------------
(* What the requirements say and the code does not do; each is refuted by a *)
(* run.                                                                     *)

\* FR-MSG-05, 06: a message is shown SENT once the TCP write has succeeded, and
\* FAILED when it fails.  Even if SENT may come a little early: a message that is
\* shown SENT has been written or still can be.
SentIsNotLost ==
    \A m \in Messages : status[m] = "Sent" => m \in written \/ HandedOver(m)

\* FR-MSG-08: a message to a peer that does not answer is rejected; no message
\* is pending for ever.
NeverPendingForEver == \A m \in Messages : []<>(status[m] # "Pending")

\* FR-PC-03, FR-PC-05, FR-PC-06: a connection that was evicted, dropped or
\* replaced is closed; its task does not go on reading and writing.
Listed(s) == \E p \in Connected : connections[p].session = s
UnlistedStreamCloses ==
    \A s \in Sessions : pc[s] \in LoopPc /\ ~Listed(s) ~> pc[s] \notin LoopPc \/ Listed(s)

\* FR-PC-05: messages are finitely many here, so a connection is idle in the
\* end, and closed, unless the program is jammed.
IdleConnectionCloses == \A p \in Peers : []<>(p \notin Connected) \/ JammedForEver

\* FR-PC-01: when every task is at rest and every event is handled, the UI shows
\* a peer Online exactly when it is in the table.
AtRest ==
    /\ events = <<>> /\ tick = "idle"
    /\ \A s \in Sessions : pc[s] \in {"free", "handshake", "select"}
PresenceAgrees ==
    AtRest => \A p \in Peers : presence[p] = "Online" <=> p \in Connected
=============================================================================
