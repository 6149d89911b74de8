---------------------------- MODULE Conversation ----------------------------
(***************************************************************************)
(* Conversations as the user sees them: app.rs (the open chat, sending,    *)
(* resending, network events) over the messages table of the database.     *)
(*                                                                         *)
(* The UI thread does one thing at a time with the database locked, so a   *)
(* call is one step.  The tasks that send are those of ConnectionManager,  *)
(* each reduced to what MessageLifecycle promises of it: one verdict.      *)
(* Contents, keys and times are left out, and with them the order of the   *)
(* messages.  Every read and write of the database may fail: the code logs *)
(* or ignores that and goes on.                                            *)
(***************************************************************************)
EXTENDS Naturals, Sequences, Maps

CONSTANTS
    Peers,              \* fingerprints of other machines
    Outbound,           \* ids of messages the user writes
    Inbound,            \* numbers of messages of each other machine
    ReadOutcomes,       \* does loading a conversation succeed?  BOOLEAN
    WriteOutcomes,      \* does a write of the messages table succeed?  BOOLEAN
    EventCap,           \* capacity of the event channel
    MaxFlight,          \* bound: sends of one message in flight
    None                \* no peer

ASSUME ConversationAssumption ==
    /\ ReadOutcomes \subseteq BOOLEAN
    /\ WriteOutcomes \subseteq BOOLEAN
    /\ EventCap \in Nat \ {0}
    /\ MaxFlight \in Nat \ {0}
    /\ None \notin Peers
    /\ Outbound \cap (Peers \X Inbound) = {}

VARIABLES
    known,      \* peers with a row in the peers table
    rows,       \* the messages table: id -> row
    selected,   \* selected_peer_fingerprint
    view,       \* active_messages: id -> message
    twice,      \* ids of which active_messages has more than one copy
    flight,     \* flight[<<m, p>>]: tasks that are sending m to p
    events,     \* event channel from the network
    stale,      \* history: the selected conversation could not be loaded
    unsaved,    \* history: ids whose last insert or update failed
    cut         \* history: messages the program ended before it had a verdict on

screen  == <<view, twice>>
history == <<stale, unsaved, cut>>
vars    == <<known, rows, selected, screen, flight, events, history>>

\* An inbound id names its author: ids are UUIDs.
Arriving == Peers \X Inbound
Ids      == Outbound \cup Arriving
Message  == [peer : Peers, status : {"Pending", "Sent", "Failed"}]
Event    == [kind : {"Received"}, of : Arriving]
              \cup [kind : {"Sent", "Failed"}, of : Outbound]

Init ==
    /\ known = {}
    /\ rows = Empty
    /\ selected = None
    /\ view = Empty
    /\ twice = {}
    /\ flight = [send \in Outbound \X Peers |-> 0]
    /\ events = <<>>
    /\ stale = FALSE
    /\ unsaved = {}
    /\ cut = {}

-----------------------------------------------------------------------------
(* The database and the screen.                                            *)

\* Database::insert_message.  It also fails on a known id (primary key) and on
\* an unknown peer (foreign key).
Insert(i, new, ok) ==
    IF ok /\ i \notin DOMAIN rows /\ new.peer \in known
      THEN rows' = With(rows, i, new) /\ unsaved' = unsaved \ {i}
      ELSE rows' = rows /\ unsaved' = unsaved \cup ({i} \ DOMAIN rows)

SetStatus(map, m, kind) ==
    IF m \in DOMAIN map THEN [map EXCEPT ![m].status = kind] ELSE map

\* Database::update_message_status.  Of a message without a row it updates
\* nothing and succeeds.
UpdateStatus(m, kind, ok) ==
    IF ok
      THEN rows' = SetStatus(rows, m, kind) /\ unsaved' = unsaved \ ({m} \cap DOMAIN rows)
      ELSE rows' = rows /\ unsaved' = unsaved \cup {m}

\* active_messages.push
Push(i, new) ==
    /\ view' = With(view, i, new)
    /\ twice' = twice \cup ({i} \cap DOMAIN view)

\* Database::get_messages_for_peer
Conversation(p) == {i \in DOMAIN rows : rows[i].peer = p}
Loaded(p)       == [i \in Conversation(p) |-> rows[i]]

-----------------------------------------------------------------------------
(* The user.                                                               *)

\* A peer is registered (PeerTracker); its row is never deleted.
Discover(p) ==
    /\ known' = known \cup {p}
    /\ UNCHANGED <<rows, selected, screen, flight, events, history>>

\* Mutant: the messages of the last conversation stay on the screen.
SelectWithoutReload(p, ok) ==
    /\ p \in known
    /\ selected' = p
    /\ stale' = ~ok
    /\ UNCHANGED <<known, rows, screen, flight, events, unsaved, cut>>

\* The user selects a peer.  When reload_active_messages fails, what was on the
\* screen stays there.
Select(p, ok) ==
    /\ p \in known
    /\ selected' = p
    /\ IF ok THEN view' = Loaded(p) /\ twice' = {} ELSE UNCHANGED screen
    /\ stale' = ~ok
    /\ UNCHANGED <<known, rows, flight, events, unsaved, cut>>

\* send_message is spawned for the selected peer.
Spawn(m) ==
    /\ flight[<<m, selected>>] < MaxFlight
    /\ flight' = [flight EXCEPT ![<<m, selected>>] = @ + 1]

\* The user writes a message: it has a new id.  It is shown and sent whether the
\* table has it or not.
Send(m, ok) ==
    /\ selected # None /\ m \notin DOMAIN rows \cup unsaved
    /\ LET new == [peer |-> selected, status |-> "Pending"] IN
         Insert(m, new, ok) /\ Push(m, new)
    /\ Spawn(m)
    /\ UNCHANGED <<known, selected, events, stale, cut>>

\* The Resend button of a failed message.  The row is not updated.
Resend(m) ==
    /\ selected # None
    /\ m \in DOMAIN view /\ view[m].status = "Failed"
    /\ view' = [view EXCEPT ![m].status = "Pending"]
    /\ Spawn(m)
    /\ UNCHANGED <<known, rows, selected, twice, events, history>>

-----------------------------------------------------------------------------
(* The network.                                                            *)

\* Mutant: a channel without a bound.
NotifyUnbounded(kind, i) == events' = Append(events, [kind |-> kind, of |-> i])

Notify(kind, i) ==
    /\ Len(events) < EventCap
    /\ events' = Append(events, [kind |-> kind, of |-> i])

\* Mutant: a verdict that finds the channel full is dropped.
VerdictDropped(m, p, kind) ==
    /\ flight[<<m, p>>] > 0
    /\ flight' = [flight EXCEPT ![<<m, p>>] = @ - 1]
    /\ IF Len(events) < EventCap THEN Notify(kind, m) ELSE UNCHANGED events
    /\ UNCHANGED <<known, rows, selected, screen, history>>

\* A send ends with one verdict.
Verdict(m, p, kind) ==
    /\ flight[<<m, p>>] > 0
    /\ flight' = [flight EXCEPT ![<<m, p>>] = @ - 1]
    /\ Notify(kind, m)
    /\ UNCHANGED <<known, rows, selected, screen, history>>

\* A message arrives, from a peer that discovery may not have seen yet, and
\* possibly once more: the other side resends under the same id too.
Arrive(i) ==
    /\ Notify("Received", i)
    /\ UNCHANGED <<known, rows, selected, screen, flight, history>>

\* Mutant: the message is put on the screen whoever is selected.
ReceivedAnywhere(i, ok) ==
    LET new == [peer |-> i[1], status |-> "Sent"] IN Insert(i, new, ok) /\ Push(i, new)

\* MessageReceived.  That it could not be inserted is logged, no more.
Received(i, ok) ==
    LET new == [peer |-> i[1], status |-> "Sent"] IN
    /\ Insert(i, new, ok)
    /\ IF selected = i[1] THEN Push(i, new) ELSE UNCHANGED screen

\* Mutant: the verdict reaches the screen alone.
StatusShown(m, kind, ok) ==
    /\ view' = SetStatus(view, m, kind)
    /\ UNCHANGED <<rows, unsaved, twice>>

\* MessageStatusUpdated.  That it could not be updated is ignored.
StatusUpdated(m, kind, ok) ==
    /\ UpdateStatus(m, kind, ok)
    /\ view' = SetStatus(view, m, kind)
    /\ UNCHANGED twice

Handle(e, ok) ==
    /\ IF e.kind = "Received" THEN Received(e.of, ok) ELSE StatusUpdated(e.of, e.kind, ok)
    /\ UNCHANGED <<known, selected, flight, stale, cut>>

\* Mutant: the newest event first.
HandleNewest(ok) ==
    /\ events # <<>>
    /\ events' = SubSeq(events, 1, Len(events) - 1)
    /\ Handle(events[Len(events)], ok)

HandleEvent(ok) ==
    /\ events # <<>>
    /\ events' = Tail(events)
    /\ Handle(Head(events), ok)

-----------------------------------------------------------------------------
\* Nothing is on its way that would change the status of m.
Settled(m) ==
    /\ \A p \in Peers : flight[<<m, p>>] = 0
    /\ \A n \in 1..Len(events) : events[n].of # m

Waits(map, m) == m \in DOMAIN map /\ map[m].status = "Pending"

\* The program ends, at any moment, and starts again.
Restart ==
    /\ selected' = None
    /\ view' = Empty /\ twice' = {}
    /\ flight' = [send \in Outbound \X Peers |-> 0]
    /\ events' = <<>>
    /\ stale' = FALSE
    /\ cut' = cut \cup {m \in Outbound : Waits(rows, m) /\ ~Settled(m)}
    /\ UNCHANGED <<known, rows, unsaved>>

Run ==
    \/ \E p \in Peers : Discover(p) \/ \E ok \in ReadOutcomes : Select(p, ok)
    \/ \E m \in Outbound : Resend(m) \/ \E ok \in WriteOutcomes : Send(m, ok)
    \/ \E m \in Outbound, p \in Peers, kind \in {"Sent", "Failed"} : Verdict(m, p, kind)
    \/ \E i \in Arriving : Arrive(i)
    \/ \E ok \in WriteOutcomes : HandleEvent(ok)

Next == Run \/ Restart

Spec == Init /\ [][Next]_vars

(***************************************************************************)
(* Properties                                                              *)
(***************************************************************************)

\* Types, and the bound of the channel.
TypeOK ==
    /\ known \subseteq Peers
    /\ DOMAIN rows \subseteq Ids /\ rows \in [DOMAIN rows -> Message]
    /\ selected \in known \cup {None}
    /\ DOMAIN view \subseteq Ids /\ view \in [DOMAIN view -> Message]
    /\ twice \subseteq Ids
    /\ flight \in [Outbound \X Peers -> 0..MaxFlight]
    /\ events \in Seq(Event) /\ Len(events) <= EventCap
    /\ stale \in BOOLEAN /\ unsaved \subseteq Ids /\ cut \subseteq Outbound

\* FR-UI-03: the screen, updated message by message, shows the selected peer
\* what a load of the conversation would: all of it, and nothing of another
\* peer, unless that load failed.  What it shows beyond the table is what the
\* table refused, and only an arriving message can be there twice.
ViewIsConversation ==
    /\ selected = None => DOMAIN view = {}
    /\ DOMAIN view \subseteq DOMAIN rows \cup unsaved
    /\ twice \subseteq Arriving
    /\ ~stale => /\ \A i \in DOMAIN view : view[i].peer = selected
                 /\ Conversation(selected) \subseteq DOMAIN view

\* The screen and the table differ on a message only while a send of it is under
\* way, or when the last write of it failed: resends, which change the screen
\* alone, failed loads, reloads in between and verdicts that come after a change
\* of conversation all end in agreement.
StatusesAgree ==
    \A m \in Outbound \cap DOMAIN view :
        Settled(m) /\ m \notin unsaved
          => m \in DOMAIN rows /\ view[m].status = rows[m].status

\* FR-MSG-01: while the selected conversation could be loaded, a message is only
\* ever sent to the peer it was written for, also when it is resent after other
\* conversations have been opened.
RightRecipient ==
    [][\A m \in Outbound, p \in Peers :
         flight'[<<m, p>>] > flight[<<m, p>>]
           => m \in DOMAIN view' /\ (stale \/ view'[m].peer = p)]_vars

\* The write that failed, or the restart that came first, is why m still waits.
Excused(m) == m \in unsaved \cup cut

\* FR-MSG-04: a message is PENDING, on the screen or in the table, only while a
\* send of it or the verdict on it is under way, unless the last write of it
\* failed or the program ended before the verdict on its first send.
PendingIsUnderWay ==
    \A m \in Outbound :
        Waits(rows, m) \/ Waits(view, m) => ~Settled(m) \/ Excused(m)

\* The UI thread wakes up every 100 ms and takes what the channel holds.  Nothing
\* is assumed of the sends: some never end (ConnectionManager).
FairSpec == Spec /\ WF_vars(\E ok \in WriteOutcomes : HandleEvent(ok))

\* FR-MSG-04: a message does not stay PENDING when its sends have ended: through
\* a full channel, resends, changes of conversation and restarts the verdict
\* reaches the screen and the table, unless the write of it failed or the program
\* ended before it.
PendingEnds ==
    \A m \in Outbound :
        \/ []<>((~Waits(rows, m) /\ ~Waits(view, m)) \/ Excused(m))
        \/ <>[](\E p \in Peers : flight[<<m, p>>] > 0)

-----------------------------------------------------------------------------
(* What the requirements say and the code does not do; each is refuted by  *)
(* a run.                                                                  *)

\* FR-MSG-04: a message on the screen is PENDING while it is being sent.
PendingWhileSending ==
    \A m \in Outbound \cap DOMAIN view :
        (\E p \in Peers : flight[<<m, p>>] > 0) => view[m].status = "Pending"

\* FR-MSG-04: a message in the table is PENDING only while it is being sent.
PendingIsBeingSent == \A m \in Outbound : Waits(rows, m) => ~Settled(m)

\* FR-MSG-01: a message is only ever sent to the peer it was written for, also
\* when a conversation could not be loaded.
AlwaysRightRecipient ==
    [][\A m \in Outbound, p \in Peers :
         flight'[<<m, p>>] > flight[<<m, p>>] => view'[m].peer = p]_vars

\* A message the user has been shown is in the history: it survives a restart.
ReceivedIsStored ==
    [][\A i \in Arriving, ok \in WriteOutcomes :
         HandleEvent(ok) /\ Head(events) = [kind |-> "Received", of |-> i]
           => i \in DOMAIN rows']_vars

\* A message is on the screen once, however often the other side sends it.
ShownOnce == twice = {}
=============================================================================
