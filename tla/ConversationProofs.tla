------------------------- MODULE ConversationProofs -------------------------
(***************************************************************************)
(* The conversation on the screen, for every number of peers, messages and *)
(* sends, with restarts and with failing reads and writes of the database. *)
(***************************************************************************)
EXTENDS Conversation, TLAPS

-----------------------------------------------------------------------------
\* The table or the screen as a map of messages.
Map(map) == DOMAIN map \subseteq Ids /\ map \in [DOMAIN map -> Message]

\* One entry set in such a map.
LEMMA WithType ==
    ASSUME NEW map, Map(map), NEW i \in Ids, NEW new \in Message
    PROVE  /\ DOMAIN With(map, i, new) = DOMAIN map \cup {i}
           /\ Map(With(map, i, new))
           /\ With(map, i, new)[i] = new
           /\ \A j \in DOMAIN map \ {i} : With(map, i, new)[j] = map[j]
BY DEF With, Map

\* A verdict changes one status and nothing else.
LEMMA SetStatusType ==
    ASSUME NEW map, Map(map), NEW m,
           NEW kind \in {"Sent", "Failed"}
    PROVE  /\ DOMAIN SetStatus(map, m, kind) = DOMAIN map
           /\ Map(SetStatus(map, m, kind))
           /\ \A j \in DOMAIN map : SetStatus(map, m, kind)[j].peer = map[j].peer
           /\ \A j \in DOMAIN map \ {m} : SetStatus(map, m, kind)[j] = map[j]
           /\ m \in DOMAIN map => SetStatus(map, m, kind)[m].status = kind
<1>1. \A msg \in Message : /\ [msg EXCEPT !.status = kind] \in Message
                           /\ [msg EXCEPT !.status = kind].peer = msg.peer
                           /\ [msg EXCEPT !.status = kind].status = kind
  BY DEF Message
<1>2. CASE m \in DOMAIN map
  <2>1. SetStatus(map, m, kind) = [map EXCEPT ![m] = [@ EXCEPT !.status = kind]]
    BY <1>2 DEF SetStatus
  <2> QED
    BY <1>1, <1>2, <2>1 DEF Map
<1>3. CASE m \notin DOMAIN map
  BY <1>3 DEF SetStatus, Map
<1> QED
  BY <1>2, <1>3

\* The channel takes one event more, within its capacity.
LEMMA NotifyType ==
    ASSUME TypeOK, NEW kind, NEW i, Notify(kind, i), [kind |-> kind, of |-> i] \in Event
    PROVE  events' \in Seq(Event) /\ Len(events') <= EventCap
BY ConversationAssumption DEF ConversationAssumption, TypeOK, Notify

\* One more send to the selected peer, and no other.
LEMMA SpawnType ==
    ASSUME TypeOK, NEW m \in Outbound, selected # None, Spawn(m)
    PROVE  /\ flight' \in [Outbound \X Peers -> 0..MaxFlight]
           /\ selected \in Peers
           /\ flight'[<<m, selected>>] > 0
           /\ \A n \in Outbound, p \in Peers :
                <<n, p>> # <<m, selected>> => flight'[<<n, p>>] = flight[<<n, p>>]
BY ConversationAssumption DEF ConversationAssumption, TypeOK, Spawn

\* An insert adds one row or marks the message unsaved; nothing else changes.
LEMMA InsertFacts ==
    ASSUME TypeOK, NEW i \in Ids, NEW new \in Message, NEW ok, Insert(i, new, ok)
    PROVE  /\ Map(rows') /\ unsaved' \subseteq Ids
           /\ DOMAIN rows \subseteq DOMAIN rows' /\ DOMAIN rows' \subseteq DOMAIN rows \cup {i}
           /\ \A j \in DOMAIN rows : rows'[j] = rows[j]
           /\ i \in DOMAIN rows' \ DOMAIN rows => rows'[i] = new
           /\ i \in DOMAIN rows' \cup unsaved'
           /\ \A j : j # i => (j \in unsaved' <=> j \in unsaved)
<1>1. Map(rows)
  BY DEF TypeOK, Map
<1>2. CASE ok /\ i \notin DOMAIN rows /\ new.peer \in known
  <2>1. rows' = With(rows, i, new) /\ unsaved' = unsaved \ {i}
    BY <1>2 DEF Insert
  <2>2. /\ DOMAIN With(rows, i, new) = DOMAIN rows \cup {i}
        /\ Map(With(rows, i, new))
        /\ With(rows, i, new)[i] = new
        /\ \A j \in DOMAIN rows \ {i} : With(rows, i, new)[j] = rows[j]
    BY <1>1, WithType
  <2> QED
    BY <1>2, <2>1, <2>2 DEF TypeOK
<1>3. CASE ~(ok /\ i \notin DOMAIN rows /\ new.peer \in known)
  <2>1. rows' = rows /\ unsaved' = unsaved \cup ({i} \ DOMAIN rows)
    BY <1>3 DEF Insert
  <2> QED
    BY <1>1, <2>1 DEF TypeOK
<1> QED
  BY <1>2, <1>3

\* An update changes the status of one row, or marks the message unsaved.
LEMMA UpdateFacts ==
    ASSUME TypeOK, NEW m \in Outbound, NEW kind \in {"Sent", "Failed"}, NEW ok,
           UpdateStatus(m, kind, ok)
    PROVE  /\ Map(rows') /\ unsaved' \subseteq Ids /\ DOMAIN rows' = DOMAIN rows
           /\ \A j \in DOMAIN rows : rows'[j].peer = rows[j].peer
           /\ \A j \in DOMAIN rows \ {m} : rows'[j] = rows[j]
           /\ m \in DOMAIN rows \ unsaved' => rows'[m].status = kind
           /\ unsaved \ DOMAIN rows \subseteq unsaved'
           /\ \A j : j # m => (j \in unsaved' <=> j \in unsaved)
<1>1. Map(rows) /\ m \in Ids
  BY DEF TypeOK, Map, Ids
<1>2. CASE ok
  <2>1. rows' = SetStatus(rows, m, kind) /\ unsaved' = unsaved \ ({m} \cap DOMAIN rows)
    BY <1>2 DEF UpdateStatus
  <2>2. /\ DOMAIN SetStatus(rows, m, kind) = DOMAIN rows
        /\ Map(SetStatus(rows, m, kind))
        /\ \A j \in DOMAIN rows : SetStatus(rows, m, kind)[j].peer = rows[j].peer
        /\ \A j \in DOMAIN rows \ {m} : SetStatus(rows, m, kind)[j] = rows[j]
        /\ m \in DOMAIN rows => SetStatus(rows, m, kind)[m].status = kind
    <3>1. /\ DOMAIN SetStatus(rows, m, kind) = DOMAIN rows
          /\ Map(SetStatus(rows, m, kind))
          /\ m \in DOMAIN rows => SetStatus(rows, m, kind)[m].status = kind
      BY <1>1, SetStatusType
    <3>2. \A j \in DOMAIN rows : SetStatus(rows, m, kind)[j].peer = rows[j].peer
      BY <1>1, SetStatusType
    <3>3. \A j \in DOMAIN rows \ {m} : SetStatus(rows, m, kind)[j] = rows[j]
      BY <1>1, SetStatusType
    <3> QED
      BY <3>1, <3>2, <3>3
  <2> QED
    BY <2>1, <2>2 DEF TypeOK
<1>3. CASE ~ok
  <2>1. rows' = rows /\ unsaved' = unsaved \cup {m}
    BY <1>3 DEF UpdateStatus
  <2> QED
    BY <1>1, <2>1 DEF TypeOK
<1> QED
  BY <1>2, <1>3

\* A pushed message is on the screen, with what was there.
LEMMA PushFacts ==
    ASSUME TypeOK, NEW i \in Ids, NEW new \in Message, Push(i, new)
    PROVE  /\ DOMAIN view' = DOMAIN view \cup {i} /\ Map(view') /\ view'[i] = new
           /\ \A j \in DOMAIN view \ {i} : view'[j] = view[j]
           /\ twice' = twice \cup ({i} \cap DOMAIN view)
<1>1. Map(view)
  BY DEF TypeOK, Map
<1>2. view' = With(view, i, new) /\ twice' = twice \cup ({i} \cap DOMAIN view)
  BY DEF Push
<1>3. /\ DOMAIN With(view, i, new) = DOMAIN view \cup {i}
      /\ Map(With(view, i, new))
      /\ With(view, i, new)[i] = new
      /\ \A j \in DOMAIN view \ {i} : With(view, i, new)[j] = view[j]
  BY <1>1, WithType, Zenon
<1> QED
  BY <1>2, <1>3

\* A verdict on the screen changes the status of one message there, if it is there.
LEMMA ShownFacts ==
    ASSUME TypeOK, NEW m, NEW kind \in {"Sent", "Failed"}, view' = SetStatus(view, m, kind)
    PROVE  /\ DOMAIN view' = DOMAIN view /\ Map(view')
           /\ \A j \in DOMAIN view : view'[j].peer = view[j].peer
           /\ \A j \in DOMAIN view \ {m} : view'[j] = view[j]
           /\ m \in DOMAIN view => view'[m].status = kind
<1>1. Map(view)
  BY DEF TypeOK, Map
<1>2. /\ DOMAIN SetStatus(view, m, kind) = DOMAIN view
      /\ Map(SetStatus(view, m, kind))
      /\ \A j \in DOMAIN view : SetStatus(view, m, kind)[j].peer = view[j].peer
      /\ \A j \in DOMAIN view \ {m} : SetStatus(view, m, kind)[j] = view[j]
      /\ m \in DOMAIN view => SetStatus(view, m, kind)[m].status = kind
  <2>1. /\ DOMAIN SetStatus(view, m, kind) = DOMAIN view
        /\ Map(SetStatus(view, m, kind))
        /\ m \in DOMAIN view => SetStatus(view, m, kind)[m].status = kind
    BY <1>1, SetStatusType
  <2>2. \A j \in DOMAIN view : SetStatus(view, m, kind)[j].peer = view[j].peer
    BY <1>1, SetStatusType
  <2>3. \A j \in DOMAIN view \ {m} : SetStatus(view, m, kind)[j] = view[j]
    BY <1>1, SetStatusType
  <2> QED
    BY <2>1, <2>2, <2>3
<1> QED
  BY <1>2

\* What a new message of the user and an arriving one are.
LEMMA NewMessages ==
    /\ \A m \in Outbound : m \in Ids /\ m \notin Arriving
    /\ selected \in Peers => [peer |-> selected, status |-> "Pending"] \in Message
    /\ \A i \in Arriving :
          /\ i \in Ids /\ i[1] \in Peers /\ i[1] # None
          /\ [peer |-> i[1], status |-> "Sent"] \in Message
BY ConversationAssumption DEF ConversationAssumption, Ids, Arriving, Message

\* A handled event is a message that has arrived or a verdict on one of the user's.
LEMMA HandleCases ==
    ASSUME TypeOK, NEW ok, HandleEvent(ok)
    PROVE  /\ \/ \E i \in Arriving : Received(i, ok) /\ Head(events).of = i
              \/ \E m \in Outbound, kind \in {"Sent", "Failed"} :
                    StatusUpdated(m, kind, ok) /\ Head(events).of = m
           /\ events # <<>> /\ events' = Tail(events)
           /\ events' \in Seq(Event) /\ Len(events') <= EventCap
           /\ UNCHANGED <<known, selected, flight, stale, cut>>
<1>1. /\ events # <<>> /\ events' = Tail(events) /\ Handle(Head(events), ok)
      /\ Head(events) \in Event /\ events' \in Seq(Event) /\ Len(events') <= EventCap
  BY ConversationAssumption DEF ConversationAssumption, HandleEvent, TypeOK
<1>2. UNCHANGED <<known, selected, flight, stale, cut>>
  BY <1>1 DEF Handle
<1>3. CASE Head(events).kind = "Received"
  BY <1>1, <1>2, <1>3 DEF Handle, Event
<1>4. CASE Head(events).kind # "Received"
  BY <1>1, <1>2, <1>4 DEF Handle, Event
<1> QED
  BY <1>3, <1>4

-----------------------------------------------------------------------------
(* Types.                                                                  *)

\* No step leaves the types.
LEMMA TypeStep == TypeOK /\ [Next]_vars => TypeOK'
<1> SUFFICES ASSUME TypeOK, [Next]_vars PROVE TypeOK'
  OBVIOUS
<1> USE ConversationAssumption DEF ConversationAssumption, screen, history
<1>1. ASSUME NEW p \in Peers, Discover(p) PROVE TypeOK'
  BY <1>1 DEF Discover, TypeOK
<1>2. ASSUME NEW p \in Peers, NEW ok \in ReadOutcomes, Select(p, ok) PROVE TypeOK'
  <2>1. /\ selected' \in known' \cup {None} /\ stale' \in BOOLEAN
        /\ UNCHANGED <<known, rows, flight, events, unsaved, cut>>
    BY <1>2 DEF Select
  <2>2. CASE ok
    BY <1>2, <2>1, <2>2 DEF Select, Loaded, Conversation, TypeOK
  <2>3. CASE ~ok
    BY <1>2, <2>1, <2>3 DEF Select, TypeOK
  <2> QED
    BY <2>2, <2>3
<1>3. ASSUME NEW m \in Outbound, NEW ok \in WriteOutcomes, Send(m, ok) PROVE TypeOK'
  <2> DEFINE new == [peer |-> selected, status |-> "Pending"]
  <2>1. selected \in Peers /\ m \in Ids /\ new \in Message
    BY <1>3, NewMessages DEF Send, TypeOK
  <2>2. Map(rows') /\ unsaved' \subseteq Ids
    BY <1>3, <2>1, InsertFacts DEF Send
  <2>3. Map(view') /\ twice' \subseteq Ids
    BY <1>3, <2>1, PushFacts DEF Send, TypeOK
  <2>4. flight' \in [Outbound \X Peers -> 0..MaxFlight]
    BY <1>3, SpawnType DEF Send
  <2> QED
    BY <1>3, <2>2, <2>3, <2>4 DEF Send, TypeOK, Map
<1>4. ASSUME NEW m \in Outbound, Resend(m) PROVE TypeOK'
  <2>1. DOMAIN view' = DOMAIN view /\ view' \in [DOMAIN view -> Message]
    BY <1>4 DEF Resend, TypeOK, Message
  <2>2. flight' \in [Outbound \X Peers -> 0..MaxFlight]
    BY <1>4, SpawnType DEF Resend
  <2> QED
    BY <1>4, <2>1, <2>2 DEF Resend, TypeOK
<1>5. ASSUME NEW m \in Outbound, NEW p \in Peers, NEW kind \in {"Sent", "Failed"},
             Verdict(m, p, kind)
      PROVE  TypeOK'
  <2>1. events' \in Seq(Event) /\ Len(events') <= EventCap
    BY <1>5, NotifyType DEF Verdict, Event
  <2>2. flight' \in [Outbound \X Peers -> 0..MaxFlight]
    BY <1>5 DEF Verdict, TypeOK
  <2> QED
    BY <1>5, <2>1, <2>2 DEF Verdict, TypeOK
<1>6. ASSUME NEW i \in Arriving, Arrive(i) PROVE TypeOK'
  BY <1>6, NotifyType DEF Arrive, Event, TypeOK
<1>7. ASSUME NEW ok \in WriteOutcomes, HandleEvent(ok) PROVE TypeOK'
  <2>1. /\ events' \in Seq(Event) /\ Len(events') <= EventCap
        /\ UNCHANGED <<known, selected, flight, stale, cut>>
    BY <1>7, HandleCases
  <2>2. ASSUME NEW i \in Arriving, Received(i, ok)
        PROVE  Map(rows') /\ unsaved' \subseteq Ids /\ Map(view') /\ twice' \subseteq Ids
    <3> DEFINE new == [peer |-> i[1], status |-> "Sent"]
    <3>1. i \in Ids /\ new \in Message
      BY NewMessages
    <3>2. Insert(i, new, ok) /\ (Push(i, new) \/ UNCHANGED <<view, twice>>)
      BY <2>2 DEF Received
    <3>3. Map(rows') /\ unsaved' \subseteq Ids
      BY <3>1, <3>2, InsertFacts
    <3>4. Map(view') /\ twice' \subseteq Ids
      BY <3>1, <3>2, PushFacts DEF TypeOK, Map
    <3> QED
      BY <3>3, <3>4
  <2>3. ASSUME NEW m \in Outbound, NEW kind \in {"Sent", "Failed"}, StatusUpdated(m, kind, ok)
        PROVE  Map(rows') /\ unsaved' \subseteq Ids /\ Map(view') /\ twice' \subseteq Ids
    BY <2>3, UpdateFacts, ShownFacts DEF StatusUpdated, TypeOK
  <2>4. Map(rows') /\ unsaved' \subseteq Ids /\ Map(view') /\ twice' \subseteq Ids
    BY <1>7, <2>2, <2>3, HandleCases
  <2> QED
    BY <2>1, <2>4 DEF TypeOK, Map
<1>8. CASE Restart
  <2>1. Empty \in [DOMAIN Empty -> Message] /\ DOMAIN Empty = {}
    BY DEF Empty
  <2>2. flight' \in [Outbound \X Peers -> 0..MaxFlight]
    BY <1>8 DEF Restart
  <2>3. events' \in Seq(Event) /\ Len(events') = 0
    BY <1>8 DEF Restart
  <2>4. selected' = None /\ view' = Empty /\ twice' = {} /\ stale' \in BOOLEAN
    BY <1>8 DEF Restart
  <2>5. cut' \subseteq Outbound /\ known' = known /\ rows' = rows /\ unsaved' = unsaved
    BY <1>8 DEF Restart, TypeOK
  <2>6. DOMAIN view' \subseteq Ids /\ view' \in [DOMAIN view' -> Message]
    BY <2>1, <2>4
  <2> QED
    BY <2>2, <2>3, <2>4, <2>5, <2>6 DEF TypeOK
<1>9. CASE UNCHANGED vars
  BY <1>9 DEF vars, TypeOK
<1> QED
  BY <1>1, <1>2, <1>3, <1>4, <1>5, <1>6, <1>7, <1>8, <1>9 DEF Next, Run

\* The types at the start.
LEMMA InitType == Init => TypeOK
<1> SUFFICES ASSUME Init PROVE TypeOK
  OBVIOUS
<1>1. Empty \in [DOMAIN Empty -> Message] /\ DOMAIN Empty = {}
  BY DEF Empty
<1>2. flight \in [Outbound \X Peers -> 0..MaxFlight]
  BY ConversationAssumption DEF ConversationAssumption, Init
<1>3. events \in Seq(Event) /\ Len(events) = 0
  BY DEF Init
<1>4. /\ known = {} /\ rows = Empty /\ selected = None /\ view = Empty
      /\ twice = {} /\ unsaved = {} /\ cut = {} /\ stale \in BOOLEAN
  BY DEF Init
<1> QED
  BY <1>1, <1>2, <1>3, <1>4, ConversationAssumption DEF ConversationAssumption, TypeOK

\* The state of app.rs keeps its types and the event channel its bound.
THEOREM TypeInvariant == Spec => []TypeOK
BY InitType, TypeStep, PTL DEF Spec

-----------------------------------------------------------------------------
(* The screen and the recipients.  A resend takes its recipient from the   *)
(* selection and its message from the screen, so that it goes to the right *)
(* peer because the screen holds one conversation, as long as the last     *)
(* load of it did not fail.                                                *)

\* A pushed message of the selected peer, new in the table or refused by it.
LEMMA PushedView ==
    ASSUME TypeOK, ViewIsConversation, NEW i \in Ids, NEW new \in Message, NEW ok,
           Insert(i, new, ok), Push(i, new), new.peer = selected, selected # None,
           i \in Arriving \/ i \notin DOMAIN view,
           selected' = selected, stale' = stale
    PROVE  ViewIsConversation'
<1>1. /\ DOMAIN rows \subseteq DOMAIN rows' /\ DOMAIN rows' \subseteq DOMAIN rows \cup {i}
      /\ \A j \in DOMAIN rows : rows'[j] = rows[j]
      /\ i \in DOMAIN rows' \cup unsaved'
      /\ \A j : j # i => (j \in unsaved' <=> j \in unsaved)
  BY InsertFacts
<1>2. /\ DOMAIN view' = DOMAIN view \cup {i} /\ view'[i] = new
      /\ \A j \in DOMAIN view \ {i} : view'[j] = view[j]
      /\ twice' = twice \cup ({i} \cap DOMAIN view)
  BY PushFacts
<1>3. DOMAIN view' \subseteq DOMAIN rows' \cup unsaved'
  BY <1>1, <1>2 DEF ViewIsConversation
<1>4. twice' \subseteq Arriving
  BY <1>2 DEF ViewIsConversation
<1>5. Conversation(selected)' \subseteq Conversation(selected) \cup {i}
  BY <1>1 DEF Conversation
<1>6. ASSUME ~stale
      PROVE  /\ \A j \in DOMAIN view' : view'[j].peer = selected
             /\ Conversation(selected)' \subseteq DOMAIN view'
  BY <1>2, <1>5, <1>6 DEF ViewIsConversation
<1> QED
  BY <1>3, <1>4, <1>6 DEF ViewIsConversation

\* A message of the user is not on the screen before it is sent.
LEMMA SendView ==
    ASSUME TypeOK, ViewIsConversation, NEW m \in Outbound, NEW ok, Send(m, ok)
    PROVE  ViewIsConversation'
<1> DEFINE new == [peer |-> selected, status |-> "Pending"]
<1>1. /\ selected \in Peers /\ selected # None /\ m \notin DOMAIN rows \cup unsaved
      /\ Insert(m, new, ok) /\ Push(m, new) /\ selected' = selected /\ stale' = stale
  BY ConversationAssumption DEF ConversationAssumption, Send, TypeOK
<1>2. m \in Ids /\ new \in Message /\ new.peer = selected
  BY <1>1, NewMessages
<1>3. m \notin DOMAIN view
  BY <1>1 DEF ViewIsConversation
<1> QED
  BY <1>1, <1>2, <1>3, PushedView

\* An arriving message of another peer leaves the conversation on the screen alone.
LEMMA ReceivedView ==
    ASSUME TypeOK, ViewIsConversation, NEW i \in Arriving, NEW ok, Received(i, ok),
           selected' = selected, stale' = stale
    PROVE  ViewIsConversation'
<1> DEFINE new == [peer |-> i[1], status |-> "Sent"]
<1>1. i \in Ids /\ i[1] \in Peers /\ i[1] # None /\ new \in Message /\ new.peer = i[1]
  BY NewMessages
<1>2. Insert(i, new, ok)
  BY DEF Received
<1>3. CASE selected = i[1]
  <2>1. Push(i, new)
    BY <1>3 DEF Received
  <2> QED
    BY <1>1, <1>2, <1>3, <2>1, PushedView
<1>4. CASE selected # i[1]
  <2>1. view' = view /\ twice' = twice
    BY <1>4 DEF Received, screen
  <2>2. /\ DOMAIN rows \subseteq DOMAIN rows' /\ DOMAIN rows' \subseteq DOMAIN rows \cup {i}
        /\ \A j \in DOMAIN rows : rows'[j] = rows[j]
        /\ i \in DOMAIN rows' \ DOMAIN rows => rows'[i] = new
        /\ i \in DOMAIN rows' \cup unsaved'
        /\ \A j : j # i => (j \in unsaved' <=> j \in unsaved)
    BY <1>1, <1>2, InsertFacts
  <2>3. Conversation(selected)' = Conversation(selected)
    BY <1>1, <1>4, <2>2 DEF Conversation
  <2> QED
    BY <2>1, <2>2, <2>3 DEF ViewIsConversation
<1> QED
  BY <1>3, <1>4

\* A verdict moves no message into or out of a conversation.
LEMMA UpdatedView ==
    ASSUME TypeOK, ViewIsConversation, NEW m \in Outbound, NEW kind \in {"Sent", "Failed"},
           NEW ok, StatusUpdated(m, kind, ok), selected' = selected, stale' = stale
    PROVE  ViewIsConversation'
<1>1. /\ DOMAIN rows' = DOMAIN rows
      /\ \A j \in DOMAIN rows : rows'[j].peer = rows[j].peer
      /\ unsaved \ DOMAIN rows \subseteq unsaved'
  BY UpdateFacts DEF StatusUpdated
<1>2. /\ DOMAIN view' = DOMAIN view /\ twice' = twice
      /\ \A j \in DOMAIN view : view'[j].peer = view[j].peer
  BY ShownFacts DEF StatusUpdated
<1>3. Conversation(selected)' = Conversation(selected)
  BY <1>1 DEF Conversation
<1> QED
  BY <1>1, <1>2, <1>3 DEF ViewIsConversation

\* Every step keeps the screen on the selected conversation.
LEMMA ViewStep == TypeOK /\ ViewIsConversation /\ [Next]_vars => ViewIsConversation'
<1> SUFFICES ASSUME TypeOK, ViewIsConversation, [Next]_vars PROVE ViewIsConversation'
  OBVIOUS
<1> USE DEF screen, history
<1>1. ASSUME rows' = rows, selected' = selected, twice' = twice, stale' = stale,
             unsaved' = unsaved, DOMAIN view' = DOMAIN view,
             \A i \in DOMAIN view : view'[i].peer = view[i].peer
      PROVE  ViewIsConversation'
  BY <1>1 DEF ViewIsConversation, Conversation
<1>2. ASSUME NEW p \in Peers, Discover(p) PROVE ViewIsConversation'
  BY <1>1, <1>2 DEF Discover
<1>3. ASSUME NEW p \in Peers, NEW ok \in ReadOutcomes, Select(p, ok) PROVE ViewIsConversation'
  <2>1. selected' = p /\ p # None /\ rows' = rows /\ unsaved' = unsaved /\ (stale' <=> ~ok)
    BY <1>3, ConversationAssumption DEF ConversationAssumption, Select
  <2>2. CASE ok
    <3>1. view' = [i \in Conversation(p) |-> rows[i]] /\ twice' = {}
      BY <1>3, <2>2 DEF Select, Loaded
    <3> QED
      BY <2>1, <3>1 DEF ViewIsConversation, Conversation
  <2>3. CASE ~ok
    <3>1. view' = view /\ twice' = twice
      BY <1>3, <2>3 DEF Select
    <3> QED
      BY <2>1, <2>3, <3>1 DEF ViewIsConversation
  <2> QED
    BY <2>2, <2>3
<1>4. ASSUME NEW m \in Outbound, Resend(m) PROVE ViewIsConversation'
  <2>1. /\ DOMAIN view' = DOMAIN view
        /\ \A i \in DOMAIN view : view'[i].peer = view[i].peer
    BY <1>4 DEF Resend, TypeOK, Message
  <2> QED
    BY <1>1, <1>4, <2>1 DEF Resend
<1>5. ASSUME NEW m \in Outbound, NEW ok \in WriteOutcomes, Send(m, ok) PROVE ViewIsConversation'
  BY <1>5, SendView
<1>6. ASSUME NEW m \in Outbound, NEW p \in Peers, NEW kind \in {"Sent", "Failed"},
             Verdict(m, p, kind)
      PROVE  ViewIsConversation'
  BY <1>1, <1>6 DEF Verdict
<1>7. ASSUME NEW i \in Arriving, Arrive(i) PROVE ViewIsConversation'
  BY <1>1, <1>7 DEF Arrive
<1>8. ASSUME NEW ok \in WriteOutcomes, HandleEvent(ok) PROVE ViewIsConversation'
  BY <1>8, HandleCases, ReceivedView, UpdatedView
<1>9. CASE Restart
  <2>1. /\ selected' = None /\ DOMAIN view' = {} /\ twice' = {} /\ rows' = rows
    BY <1>9 DEF Restart, Empty
  <2>2. Conversation(None)' = {}
    BY <2>1, ConversationAssumption DEF ConversationAssumption, Conversation, TypeOK, Message
  <2> QED
    BY <2>1, <2>2 DEF ViewIsConversation
<1>10. CASE UNCHANGED vars
  BY <1>1, <1>10 DEF vars
<1> QED
  BY <1>2, <1>3, <1>4, <1>5, <1>6, <1>7, <1>8, <1>9, <1>10 DEF Next, Run

\* It starts empty.
LEMMA InitView == Init => ViewIsConversation
BY DEF Init, ViewIsConversation, Empty, Conversation

\* FR-UI-03: the screen of app.rs shows the selected conversation, all of it and
\* nothing of another peer, as long as it could be loaded; whatever it shows that
\* is not in the table is a message the table refused.
THEOREM ScreenIsConversation == Spec => []ViewIsConversation
BY InitType, TypeStep, InitView, ViewStep, PTL DEF Spec

\* A send that starts now goes to the peer of its message.
LEMMA SendsToItsPeer ==
    ASSUME TypeOK, ViewIsConversation, [Next]_vars, NEW m \in Outbound, NEW p \in Peers,
           flight'[<<m, p>>] > flight[<<m, p>>]
    PROVE  m \in DOMAIN view' /\ (stale \/ view'[m].peer = p)
<1>1. flight[<<m, p>>] \in Nat /\ flight'[<<m, p>>] # flight[<<m, p>>]
  BY DEF TypeOK
<1>2. ASSUME NEW n \in Outbound, Spawn(n), selected # None PROVE n = m /\ p = selected
  <2>1. <<m, p>> # <<n, selected>> => flight'[<<m, p>>] = flight[<<m, p>>]
    BY <1>2, SpawnType
  <2> QED
    BY <1>1, <2>1
<1>3. ASSUME NEW n \in Outbound, NEW ok \in WriteOutcomes, Send(n, ok)
      PROVE  m \in DOMAIN view' /\ view'[m].peer = p
  <2> DEFINE new == [peer |-> selected, status |-> "Pending"]
  <2>1. Push(n, new) /\ Spawn(n) /\ selected # None
    BY <1>3 DEF Send
  <2>2. n = m /\ p = selected
    BY <1>2, <2>1
  <2>3. n \in Ids /\ new \in Message /\ new.peer = selected
    BY <2>2, NewMessages
  <2>4. DOMAIN view' = DOMAIN view \cup {n} /\ view'[n] = new
    BY <2>1, <2>3, PushFacts
  <2> QED
    BY <2>2, <2>3, <2>4
<1>4. ASSUME NEW n \in Outbound, Resend(n)
      PROVE  m \in DOMAIN view' /\ (stale \/ view'[m].peer = p)
  <2>1. Spawn(n) /\ selected # None /\ n \in DOMAIN view
    BY <1>4 DEF Resend
  <2>2. n = m /\ p = selected
    BY <1>2, <2>1
  <2>3. n \in DOMAIN view' /\ view'[n].peer = view[n].peer
    BY <1>4, <2>1 DEF Resend, TypeOK, Message
  <2> QED
    BY <2>1, <2>2, <2>3 DEF ViewIsConversation
<1>5. flight' # flight
  BY <1>1
<1>6. ASSUME NEW n \in Outbound, NEW q \in Peers, NEW kind \in {"Sent", "Failed"},
             Verdict(n, q, kind)
      PROVE  FALSE
  <2>1. CASE <<n, q>> = <<m, p>>
    <3>1. flight'[<<m, p>>] = flight[<<m, p>>] - 1
      BY <1>6, <2>1 DEF Verdict, TypeOK
    <3>2. flight[<<m, p>>] \in Nat /\ flight'[<<m, p>>] > flight[<<m, p>>]
      BY <1>1
    <3> QED
      BY <3>1, <3>2
  <2>2. CASE <<n, q>> # <<m, p>>
    <3>1. flight'[<<m, p>>] = flight[<<m, p>>]
      BY <1>6, <2>2 DEF Verdict, TypeOK
    <3> QED
      BY <1>1, <3>1
  <2> QED
    BY <2>1, <2>2
<1>7. ASSUME Restart PROVE FALSE
  BY <1>1, <1>7 DEF Restart
<1>8. ASSUME NEW q \in Peers, Discover(q) \/ \E ok \in ReadOutcomes : Select(q, ok)
      PROVE  FALSE
  BY <1>5, <1>8 DEF Discover, Select
<1>9. ASSUME NEW i \in Arriving, Arrive(i) PROVE FALSE
  BY <1>5, <1>9 DEF Arrive
<1>10. ASSUME NEW ok \in WriteOutcomes, HandleEvent(ok) PROVE FALSE
  BY <1>5, <1>10 DEF HandleEvent, Handle
<1> QED
  BY <1>3, <1>4, <1>5, <1>6, <1>7, <1>8, <1>9, <1>10 DEF Next, Run, vars

\* FR-MSG-01: send_message and the Resend button only ever send a message to the
\* peer it was written for, as long as the selected conversation could be loaded.
THEOREM Recipients == Spec => RightRecipient
<1> DEFINE Right == \A m \in Outbound, p \in Peers :
                      flight'[<<m, p>>] > flight[<<m, p>>]
                        => m \in DOMAIN view' /\ (stale \/ view'[m].peer = p)
<1>1. TypeOK /\ ViewIsConversation /\ [Next]_vars => [Right]_vars
  BY SendsToItsPeer
<1> QED
  BY <1>1, TypeInvariant, ScreenIsConversation, PTL DEF Spec, RightRecipient

-----------------------------------------------------------------------------
(* The statuses.                                                           *)

\* A step that is not a send of m and takes no event of m from the channel
\* cannot settle m.
LEMMA SettledBefore ==
    ASSUME TypeOK, NEW m \in Outbound, Settled(m)',
           \A p \in Peers : flight'[<<m, p>>] = 0 => flight[<<m, p>>] = 0,
           \/ events' = events
           \/ \E e \in Event : events' = Append(events, e)
           \/ events # <<>> /\ events' = Tail(events) /\ Head(events).of # m
    PROVE  Settled(m)
<1>1. \A p \in Peers : flight[<<m, p>>] = 0
  BY DEF Settled
<1>2. \A n \in 1..Len(events) : events[n].of # m
  <2>1. CASE events' = events
    BY <2>1 DEF Settled
  <2>2. ASSUME NEW e \in Event, events' = Append(events, e)
        PROVE  \A n \in 1..Len(events) : events[n].of # m
    <3>1. \A n \in 1..Len(events) : n \in 1..Len(events') /\ events'[n] = events[n]
      BY <2>2 DEF TypeOK
    <3> QED
      BY <3>1 DEF Settled
  <2>3. CASE events # <<>> /\ events' = Tail(events) /\ Head(events).of # m
    <3> SUFFICES ASSUME NEW n \in 1..Len(events) PROVE events[n].of # m
      OBVIOUS
    <3>1. CASE n = 1
      BY <2>3, <3>1 DEF TypeOK
    <3>2. CASE n # 1
      <4>1. n - 1 \in 1..Len(events') /\ events'[n - 1] = events[n]
        BY <2>3, <3>2 DEF TypeOK
      <4> QED
        BY <4>1 DEF Settled
    <3> QED
      BY <3>1, <3>2
  <2> QED
    BY <2>1, <2>2, <2>3
<1> QED
  BY <1>1, <1>2 DEF Settled

\* What the statuses of a settled message promise: the table and the screen
\* agree, and it no longer waits, unless a write failed or the program ended.
Told(m) ==
    Settled(m) /\ m \notin unsaved =>
        /\ m \in DOMAIN view => m \in DOMAIN rows /\ view[m].status = rows[m].status
        /\ m \notin cut => ~Waits(rows, m) /\ ~Waits(view, m)

\* The steps that leave m alone, in the table, on the screen and in the channel.
LEMMA Untouched ==
    ASSUME TypeOK, NEW m \in Outbound, Told(m),
           m \in DOMAIN view' <=> m \in DOMAIN view, m \in DOMAIN view => view'[m] = view[m],
           m \in DOMAIN rows' <=> m \in DOMAIN rows, m \in DOMAIN rows => rows'[m] = rows[m],
           m \in unsaved => m \in unsaved', cut' = cut,
           \A p \in Peers : flight'[<<m, p>>] = 0 => flight[<<m, p>>] = 0,
           \/ events' = events
           \/ \E e \in Event : events' = Append(events, e)
           \/ events # <<>> /\ events' = Tail(events) /\ Head(events).of # m
    PROVE  Told(m)'
<1> SUFFICES ASSUME Settled(m)', m \notin unsaved'
             PROVE  /\ m \in DOMAIN view' => m \in DOMAIN rows' /\ view'[m].status = rows'[m].status
                    /\ m \notin cut' => ~Waits(rows, m)' /\ ~Waits(view, m)'
  BY DEF Told
<1>1. Settled(m)
  BY SettledBefore
<1> QED
  BY <1>1 DEF Told, Waits

\* A send that starts leaves the others alone, and its own is not settled.
LEMMA SpawnTold ==
    ASSUME TypeOK, NEW m \in Outbound, NEW n \in Outbound, Spawn(n), selected # None
    PROVE  /\ n = m => ~Settled(m)'
           /\ n # m => \A p \in Peers : flight'[<<m, p>>] = flight[<<m, p>>]
<1>1. selected \in Peers /\ flight'[<<n, selected>>] > 0
  BY SpawnType
<1>2. n = m => ~Settled(m)'
  BY <1>1 DEF Settled
<1>3. ASSUME n # m, NEW p \in Peers PROVE flight'[<<m, p>>] = flight[<<m, p>>]
  <2>1. <<m, p>> # <<n, selected>>
    BY <1>3
  <2> QED
    BY <2>1, SpawnType
<1> QED
  BY <1>2, <1>3

\* A verdict that is handled is in the table and on the screen, or unsaved.
LEMMA UpdatedTold ==
    ASSUME TypeOK, ViewIsConversation, NEW m \in Outbound,
           NEW kind \in {"Sent", "Failed"}, NEW ok, StatusUpdated(m, kind, ok)
    PROVE  Told(m)'
<1>1. /\ DOMAIN rows' = DOMAIN rows
      /\ m \in DOMAIN rows \ unsaved' => rows'[m].status = kind
      /\ unsaved \ DOMAIN rows \subseteq unsaved'
  BY UpdateFacts DEF StatusUpdated
<1>2. DOMAIN view' = DOMAIN view /\ (m \in DOMAIN view => view'[m].status = kind)
  BY ShownFacts DEF StatusUpdated
<1>3. m \in DOMAIN view => m \in DOMAIN rows \cup unsaved
  BY DEF ViewIsConversation
<1> QED
  BY <1>1, <1>2, <1>3 DEF Told, Waits

\* Every step keeps what the statuses promise.
LEMMA ToldStep ==
    ASSUME TypeOK, ViewIsConversation, NEW m \in Outbound, Told(m), [Next]_vars
    PROVE  Told(m)'
<1> USE DEF screen, history
<1>1. ASSUME NEW p \in Peers, Discover(p) PROVE Told(m)'
  BY <1>1, Untouched DEF Discover
<1>2. ASSUME NEW p \in Peers, NEW ok \in ReadOutcomes, Select(p, ok) PROVE Told(m)'
  <2>1. rows' = rows /\ flight' = flight /\ events' = events /\ unsaved' = unsaved /\ cut' = cut
    BY <1>2 DEF Select
  <2>2. Settled(m)' <=> Settled(m)
    BY <2>1 DEF Settled
  <2>3. CASE ok
    <3>1. view' = [i \in Conversation(p) |-> rows[i]]
      BY <1>2, <2>3 DEF Select, Loaded
    <3> QED
      BY <2>1, <2>2, <3>1 DEF Told, Waits, Conversation
  <2>4. CASE ~ok
    BY <1>2, <2>1, <2>4, Untouched DEF Select
  <2> QED
    BY <2>3, <2>4
<1>3. ASSUME NEW n \in Outbound, NEW ok \in WriteOutcomes, Send(n, ok) PROVE Told(m)'
  <2> DEFINE new == [peer |-> selected, status |-> "Pending"]
  <2>1. /\ Insert(n, new, ok) /\ Push(n, new) /\ Spawn(n) /\ selected # None
        /\ events' = events /\ cut' = cut
    BY <1>3 DEF Send
  <2>2. n \in Ids /\ new \in Message
    BY <2>1, SpawnType, NewMessages
  <2>3. CASE n = m
    BY <2>1, <2>3, SpawnTold DEF Told
  <2>4. CASE n # m
    <3>1. \A p \in Peers : flight'[<<m, p>>] = 0 => flight[<<m, p>>] = 0
      BY <2>1, <2>4, SpawnTold
    <3>2. /\ m \in DOMAIN view' <=> m \in DOMAIN view
          /\ m \in DOMAIN view => view'[m] = view[m]
      BY <2>1, <2>2, <2>4, PushFacts
    <3>3. /\ m \in DOMAIN rows' <=> m \in DOMAIN rows
          /\ m \in DOMAIN rows => rows'[m] = rows[m]
          /\ m \in unsaved => m \in unsaved'
      BY <2>1, <2>2, <2>4, InsertFacts
    <3> QED
      BY <2>1, <3>1, <3>2, <3>3, Untouched
  <2> QED
    BY <2>3, <2>4
<1>4. ASSUME NEW n \in Outbound, Resend(n) PROVE Told(m)'
  <2>1. /\ Spawn(n) /\ selected # None /\ events' = events /\ cut' = cut
        /\ rows' = rows /\ unsaved' = unsaved
        /\ DOMAIN view' = DOMAIN view /\ \A j \in DOMAIN view \ {n} : view'[j] = view[j]
    BY <1>4 DEF Resend, TypeOK
  <2>2. CASE n = m
    BY <2>1, <2>2, SpawnTold DEF Told
  <2>3. CASE n # m
    <3>1. \A p \in Peers : flight'[<<m, p>>] = 0 => flight[<<m, p>>] = 0
      BY <2>1, <2>3, SpawnTold
    <3> QED
      BY <2>1, <2>3, <3>1, Untouched
  <2> QED
    BY <2>2, <2>3
<1>5. ASSUME NEW n \in Outbound, NEW p \in Peers, NEW kind \in {"Sent", "Failed"},
             Verdict(n, p, kind)
      PROVE  Told(m)'
  <2>1. /\ rows' = rows /\ view' = view /\ unsaved' = unsaved /\ cut' = cut
        /\ events' = Append(events, [kind |-> kind, of |-> n])
        /\ [kind |-> kind, of |-> n] \in Event
    BY <1>5 DEF Verdict, Notify, Event
  <2>2. CASE n = m
    <3>1. Len(events) + 1 \in 1..Len(events') /\ events'[Len(events) + 1].of = m
      BY <2>1, <2>2 DEF TypeOK
    <3>2. ~Settled(m)'
      BY <3>1 DEF Settled
    <3> QED
      BY <3>2 DEF Told
  <2>3. CASE n # m
    <3>1. \A q \in Peers : flight'[<<m, q>>] = flight[<<m, q>>]
      BY <1>5, <2>3 DEF Verdict, TypeOK
    <3> QED
      BY <2>1, <3>1, Untouched
  <2> QED
    BY <2>2, <2>3
<1>6. ASSUME NEW i \in Arriving, Arrive(i) PROVE Told(m)'
  <2>1. events' = Append(events, [kind |-> "Received", of |-> i])
        /\ [kind |-> "Received", of |-> i] \in Event
    BY <1>6 DEF Arrive, Notify, Event
  <2> QED
    BY <1>6, <2>1, Untouched DEF Arrive
<1>7. ASSUME NEW ok \in WriteOutcomes, HandleEvent(ok) PROVE Told(m)'
  <2>1. /\ events # <<>> /\ events' = Tail(events) /\ flight' = flight /\ cut' = cut
    BY <1>7, HandleCases
  <2>2. ASSUME NEW i \in Arriving, Received(i, ok), Head(events).of = i PROVE Told(m)'
    <3> DEFINE new == [peer |-> i[1], status |-> "Sent"]
    <3>1. i \in Ids /\ new \in Message /\ i # m
      BY NewMessages
    <3>2. Insert(i, new, ok) /\ (Push(i, new) \/ view' = view)
      BY <2>2 DEF Received
    <3>3. /\ m \in DOMAIN view' <=> m \in DOMAIN view
          /\ m \in DOMAIN view => view'[m] = view[m]
      BY <3>1, <3>2, PushFacts
    <3>4. /\ m \in DOMAIN rows' <=> m \in DOMAIN rows
          /\ m \in DOMAIN rows => rows'[m] = rows[m]
          /\ m \in unsaved => m \in unsaved'
      BY <3>1, <3>2, InsertFacts
    <3> QED
      BY <2>1, <2>2, <3>1, <3>3, <3>4, Untouched
  <2>3. ASSUME NEW n \in Outbound, NEW kind \in {"Sent", "Failed"},
               StatusUpdated(n, kind, ok), Head(events).of = n
        PROVE  Told(m)'
    <3>1. CASE n = m
      BY <2>3, <3>1, UpdatedTold
    <3>2. CASE n # m
      <4>1. /\ m \in DOMAIN rows' <=> m \in DOMAIN rows
            /\ m \in DOMAIN rows => rows'[m] = rows[m]
            /\ m \in unsaved => m \in unsaved'
        BY <2>3, <3>2, UpdateFacts DEF StatusUpdated
      <4>2. /\ m \in DOMAIN view' <=> m \in DOMAIN view
            /\ m \in DOMAIN view => view'[m] = view[m]
        BY <2>3, <3>2, ShownFacts DEF StatusUpdated
      <4> QED
        BY <2>1, <2>3, <3>2, <4>1, <4>2, Untouched
    <3> QED
      BY <3>1, <3>2
  <2> QED
    BY <1>7, <2>2, <2>3, HandleCases
<1>8. CASE Restart
  <2>1. /\ DOMAIN view' = {} /\ rows' = rows /\ unsaved' = unsaved
        /\ Waits(rows, m) /\ ~Settled(m) => m \in cut'
        /\ m \in cut => m \in cut'
    BY <1>8 DEF Restart, Empty
  <2> QED
    BY <2>1 DEF Told, Waits
<1>9. CASE UNCHANGED vars
  BY <1>9, Untouched DEF vars
<1> QED
  BY <1>1, <1>2, <1>3, <1>4, <1>5, <1>6, <1>7, <1>8, <1>9 DEF Next, Run

\* It holds from the start, of every message.
LEMMA ToldInvariant == Spec => [](\A m \in Outbound : Told(m))
<1> DEFINE AllTold == \A m \in Outbound : Told(m)
<1>1. Init => AllTold
  BY DEF Init, Empty, Told, Waits
<1>2. TypeOK /\ ViewIsConversation /\ AllTold /\ [Next]_vars => AllTold'
  BY ToldStep
<1>3. Spec => []AllTold
  <2> HIDE DEF AllTold
  <2> QED
    BY <1>1, <1>2, TypeInvariant, ScreenIsConversation, PTL DEF Spec
<1> QED
  BY <1>3

\* Once its sends are over and their verdicts handled, the status of a message on
\* the screen of app.rs is the one in the table, whatever was resent, reloaded or
\* opened meanwhile, unless the last write of it failed.
THEOREM ScreenAgrees == Spec => []StatusesAgree
<1>1. (\A m \in Outbound : Told(m)) => StatusesAgree
  BY DEF Told, StatusesAgree
<1> QED
  BY <1>1, ToldInvariant, PTL

\* FR-MSG-04: a message is PENDING only while a send of it or its verdict is
\* under way, unless the last write of it failed or the program ended first.
THEOREM PendingMeansUnderWay == Spec => []PendingIsUnderWay
<1>1. (\A m \in Outbound : Told(m)) => PendingIsUnderWay
  BY DEF Told, PendingIsUnderWay, Excused
<1> QED
  BY <1>1, ToldInvariant, PTL
=============================================================================
