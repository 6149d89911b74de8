---------------------- MODULE ConnectionManagerProofs ----------------------
(***************************************************************************)
(* Safety of the connection table for every number of peers, sessions and  *)
(* messages, and every limit.                                              *)
(***************************************************************************)
EXTENDS ConnectionManager, FiniteSetTheorems, TLAPS

\* The types at the start.
LEMMA InitType == Init => TypeOK
BY LimitsAssumption, NamesAssumption
   DEF LimitsAssumption, NamesAssumption, Init, TypeOK, TableType, SessionType, OutType,
       SendingType, HeartType, EventsType, UIType, Connected, SendPc, SetupPc, LoopPc, ActiveConn

-----------------------------------------------------------------------------
(* The types, one group of variables at a time.  A step not named in a     *)
(* proof leaves the group unchanged.                                       *)

\* Types of the lock and the entries.
LEMMA TableStep == TypeOK /\ [Next]_vars => TableType'
<1> SUFFICES ASSUME TypeOK, [Next]_vars PROVE TableType'
  OBVIOUS
<1> USE LimitsAssumption DEF LimitsAssumption, TypeOK, TableType, Connected
<1>1. CASE lock' \in {Nobody, lock} /\ connections' = connections
  BY <1>1
<1>2. ASSUME NEW p, connections' = Without(p), lock' = lock
      PROVE  TableType'
  BY <1>2 DEF Without
<1>3. CASE TimePasses
  <2>1. ASSUME NEW p \in Connected
        PROVE  [connections[p] EXCEPT !.age = Capped(@ + 1)] \in ActiveConn
    BY DEF Capped, ActiveConn
  <2> QED
    BY <1>3, <2>1 DEF TimePasses
<1>4. ASSUME NEW p \in todo, TickCondemn(p) \/ TickPing(p) PROVE TableType'
  <2>1. \A q \in Connected : Missed(q) \in Nat /\ [connections[q] EXCEPT !.missed = Missed(q)] \in ActiveConn
    BY DEF Missed, ActiveConn
  <2>2. CASE connections' = connections
    BY <1>1, <1>4, <2>2 DEF TickCondemn, TickPing
  <2>3. CASE connections' = [connections EXCEPT ![p].missed = Missed(p)]
    BY <1>4, <2>1, <2>3 DEF TickCondemn, TickPing
  <2>4. connections' = connections \/ connections' = [connections EXCEPT ![p].missed = Missed(p)]
    BY <1>4, Zenon DEF TickCondemn, TickPing
  <2> QED
    BY <2>2, <2>3, <2>4
<1>5. ASSUME NEW s \in Sessions, Insert(s) PROVE TableType'
  BY <1>5 DEF Insert, ActiveConn, SessionType, SetupPc
<1>6. ASSUME NEW s \in Sessions, Refresh(s) PROVE TableType'
  <2>1. ASSUME NEW c \in ActiveConn
        PROVE  [c EXCEPT !.age = 0, !.missed = 0] \in ActiveConn
    <3>1. [c EXCEPT !.age = 0] \in ActiveConn
      BY DEF ActiveConn
    <3>2. \A d \in ActiveConn : [d EXCEPT !.missed = 0] \in ActiveConn
      BY DEF ActiveConn
    <3> QED
      BY <3>1, <3>2
  <2> QED
    BY <1>6, <2>1 DEF Refresh
<1>7. CASE TickStart \/ \E s \in Sessions : Register(s)
  BY <1>7 DEF TickStart, Register
<1>8. CASE \E m \in Messages : SendAcquire(m)
  BY <1>8 DEF SendAcquire
<1>9. CASE UNCHANGED vars
  BY <1>1, <1>9 DEF vars, table
<1>10. CASE \/ \E p \in doomed : TickDrop(p)
            \/ \E s \in Sessions : Evict(s) \/ Cleanup(s)
  BY <1>2, <1>10 DEF TickDrop, Evict, Cleanup
<1>11. CASE TickEnd \/ User \/ HandleEvent \/ \E s \in Sessions, p \in Peers : Accept(s, p)
  BY <1>1, <1>11 DEF TickEnd, User, OpenChat, Send, HandleEvent, Accept, table
<1>12. ASSUME NEW s \in Sessions,
              \/ HandshakeFails(s) \/ Announce(s) \/ TakePacket(s)
              \/ WriteDone(s) \/ WriteFails(s) \/ ReadFails(s)
              \/ \E k \in Incoming : ReadPacket(s, k)
              \/ Reply(s) \/ Deliver(s) \/ Close(s)
       PROVE  TableType'
  BY <1>1, <1>12 DEF HandshakeFails, Announce, TakePacket, WriteDone, WriteFails, ReadFails,
                     ReadPacket, Reply, Deliver, Close, table
<1>13. ASSUME NEW m \in Messages,
              \/ NoDial(m) \/ (\E s \in Sessions : Dial(m, s))
              \/ Queue(m) \/ ReportSent(m) \/ ReportFailed(m)
       PROVE  TableType'
  BY <1>1, <1>13 DEF NoDial, Dial, Queue, ReportSent, ReportFailed, table
<1> QED
  BY <1>3, <1>4, <1>5, <1>6, <1>7, <1>8, <1>9, <1>10, <1>11, <1>12, <1>13
     DEF Next, Heartbeat, Setup, Loop, SendTask

\* Positions, peers and waiting sends of the sessions.
LEMMA SessionStep == TypeOK /\ [Next]_vars => SessionType'
<1> SUFFICES ASSUME TypeOK, [Next]_vars PROVE SessionType'
  OBVIOUS
<1> USE NamesAssumption DEF NamesAssumption, TypeOK, SessionType, SetupPc, LoopPc
<1>1. CASE UNCHANGED session
  BY <1>1 DEF session
<1>2. ASSUME NEW s \in Sessions, HandshakeFails(s) \/ Register(s) \/ Evict(s) \/ Insert(s) \/ Announce(s)
      PROVE  SessionType'
  BY <1>2 DEF HandshakeFails, Register, Evict, Insert, Announce
<1>3. ASSUME NEW s \in Sessions, TakePacket(s) PROVE SessionType'
  <2>1. Head(out[s]) \in Packet
    BY <1>3 DEF TakePacket, OutType
  <2> QED
    BY <1>3, <2>1 DEF TakePacket
<1>4. ASSUME NEW s \in Sessions,
             \/ WriteDone(s) \/ WriteFails(s) \/ ReadFails(s) \/ Refresh(s)
             \/ Reply(s) \/ Deliver(s) \/ Cleanup(s) \/ Close(s)
      PROVE  SessionType'
  BY <1>4 DEF WriteDone, WriteFails, ReadFails, Refresh, Reply, Deliver, Cleanup, Close, Continue
<1>5. ASSUME NEW s \in Sessions, NEW k \in Incoming, ReadPacket(s, k) PROVE SessionType'
  <2>1. k \in Packet
    BY LimitsAssumption DEF LimitsAssumption, Packet
  <2> QED
    BY <1>5, <2>1 DEF ReadPacket
<1>6. ASSUME NEW s \in Sessions, NEW p \in Peers, OpenChat(s, p) \/ Accept(s, p)
      PROVE  SessionType'
  BY <1>6 DEF OpenChat, Accept, Handshake
<1>7. ASSUME NEW m \in Messages, NEW s \in Sessions, Dial(m, s)
      PROVE  SessionType'
  BY <1>7 DEF Dial, Handshake, At, SendingType
<1>8. CASE TimePasses \/ Heartbeat \/ HandleEvent \/ \E m \in Messages, p \in Peers : Send(m, p)
  BY <1>1, <1>8 DEF TimePasses, Heartbeat, TickStart, TickCondemn, TickPing, TickDrop, TickEnd,
                    HandleEvent, Send, session
<1>9. ASSUME NEW m \in Messages,
             NoDial(m) \/ SendAcquire(m) \/ Queue(m) \/ ReportSent(m) \/ ReportFailed(m)
      PROVE  SessionType'
  BY <1>1, <1>9 DEF NoDial, SendAcquire, Queue, ReportSent, ReportFailed, session
<1>10. CASE UNCHANGED vars
  BY <1>1, <1>10 DEF vars
<1> QED
  BY <1>2, <1>3, <1>4, <1>5, <1>6, <1>7, <1>8, <1>9, <1>10 DEF Next, User, Setup, Loop, SendTask

\* Outgoing channels and the packet in hand.
LEMMA OutStep == TypeOK /\ [Next]_vars => OutType'
<1> SUFFICES ASSUME TypeOK, [Next]_vars PROVE OutType'
  OBVIOUS
<1> USE DEF TypeOK, OutType
<1>1. CASE UNCHANGED out
  BY <1>1
<1>2. ASSUME NEW x, NEW k \in Packet, Len(out[x]) < OutCap, out' = [out EXCEPT ![x] = Append(@, k)]
      PROVE  OutType'
  <2>1. CASE x \in Sessions
    <3>1. out[x] \in Seq(Packet) /\ Len(out[x]) \in Nat
      BY <2>1
    <3>2. Append(out[x], k) \in Seq(Packet) /\ Len(Append(out[x], k)) = Len(out[x]) + 1
      BY <3>1
    <3> QED
      BY <1>2, <2>1, <3>1, <3>2, LimitsAssumption DEF LimitsAssumption
  <2>2. CASE x \notin Sessions
    BY <1>1, <1>2, <2>2
  <2> QED
    BY <2>1, <2>2
<1>3. ASSUME NEW p \in todo, TickPing(p) PROVE OutType'
  BY <1>2, <1>3 DEF TickPing, Packet
<1>4. ASSUME NEW s \in Sessions, Reply(s) PROVE OutType'
  BY <1>2, <1>4 DEF Reply, Packet
<1>5. ASSUME NEW m \in Messages, Queue(m) PROVE OutType'
  BY <1>2, <1>5 DEF Queue, Packet
<1>6. ASSUME NEW s \in Sessions, TakePacket(s) PROVE OutType'
  BY <1>6, LimitsAssumption DEF TakePacket, LimitsAssumption
<1>7. ASSUME NEW s \in Sessions, Close(s) PROVE OutType'
  BY <1>7, LimitsAssumption DEF Close, LimitsAssumption
<1>8. CASE \/ TimePasses \/ TickStart \/ TickEnd \/ HandleEvent \/ User
           \/ \E p : TickCondemn(p) \/ TickDrop(p)
           \/ \E s \in Sessions, p \in Peers : Accept(s, p)
  BY <1>1, <1>8 DEF TimePasses, TickStart, TickCondemn, TickDrop, TickEnd, HandleEvent, User,
                    OpenChat, Send, Accept, session
<1>9. ASSUME NEW s \in Sessions,
             \/ Setup(s) \/ WriteDone(s) \/ WriteFails(s) \/ ReadFails(s)
             \/ \E k \in Incoming : ReadPacket(s, k)
             \/ Refresh(s) \/ Deliver(s) \/ Cleanup(s)
      PROVE  OutType'
  BY <1>1, <1>9 DEF Setup, HandshakeFails, Register, Evict, Insert, Announce, WriteDone,
                    WriteFails, ReadFails, ReadPacket, Refresh, Deliver, Cleanup
<1>10. ASSUME NEW m \in Messages,
              \/ NoDial(m) \/ (\E s \in Sessions : Dial(m, s))
              \/ SendAcquire(m) \/ ReportSent(m) \/ ReportFailed(m)
       PROVE  OutType'
  BY <1>1, <1>10 DEF NoDial, Dial, SendAcquire, ReportSent, ReportFailed, session
<1>11. CASE UNCHANGED vars
  BY <1>1, <1>11 DEF vars, session
<1> QED
  BY <1>3, <1>4, <1>5, <1>6, <1>7, <1>8, <1>9, <1>10, <1>11 DEF Next, Heartbeat, Loop, SendTask

\* Positions and recipients of the sends.
LEMMA SendingStep == TypeOK /\ [Next]_vars => SendingType'
<1> SUFFICES ASSUME TypeOK, [Next]_vars PROVE SendingType'
  OBVIOUS
<1> USE NamesAssumption DEF NamesAssumption, TypeOK, SendingType, SendPc
<1>1. CASE UNCHANGED sending
  BY <1>1 DEF sending
<1>2. ASSUME NEW s \in Sessions, HandshakeFails(s) \/ Announce(s) PROVE SendingType'
  BY <1>2 DEF HandshakeFails, Announce, Resume
<1>3. ASSUME NEW m \in Messages, NEW p \in Peers, Send(m, p) PROVE SendingType'
  BY <1>3 DEF Send, At
<1>4. ASSUME NEW m \in Messages, SendTask(m) PROVE SendingType'
  BY <1>4 DEF SendTask, NoDial, Dial, SendAcquire, Queue, ReportSent, ReportFailed, At
<1>5. CASE \/ TimePasses \/ Heartbeat \/ HandleEvent
           \/ \E s \in Sessions, p \in Peers : OpenChat(s, p) \/ Accept(s, p)
  BY <1>1, <1>5 DEF TimePasses, Heartbeat, TickStart, TickCondemn, TickPing, TickDrop, TickEnd,
                    HandleEvent, OpenChat, Accept
<1>6. ASSUME NEW s \in Sessions, Register(s) \/ Evict(s) \/ Insert(s) \/ Loop(s)
      PROVE  SendingType'
  BY <1>1, <1>6 DEF Register, Evict, Insert, Loop, TakePacket, WriteDone, WriteFails, ReadFails,
                    ReadPacket, Refresh, Reply, Deliver, Cleanup, Close
<1>7. CASE UNCHANGED vars
  BY <1>1, <1>7 DEF vars
<1> QED
  BY <1>2, <1>3, <1>4, <1>5, <1>6, <1>7 DEF Next, User, Setup

\* The heartbeat pass.
LEMMA HeartStep == TypeOK /\ [Next]_vars => HeartType'
<1> SUFFICES ASSUME TypeOK, [Next]_vars PROVE HeartType'
  OBVIOUS
<1> USE LimitsAssumption DEF LimitsAssumption, TypeOK, HeartType
<1>1. CASE UNCHANGED heart
  BY <1>1 DEF heart
<1>2. CASE TimePasses \/ TickStart \/ TickEnd
  BY <1>2 DEF TimePasses, TickStart, TickEnd, TableType
<1>3. ASSUME NEW p \in Peers, TickCondemn(p) \/ TickPing(p) \/ TickDrop(p)
      PROVE  HeartType'
  BY <1>3 DEF TickCondemn, TickPing, TickDrop
<1>4. CASE \/ User \/ HandleEvent
           \/ \E s \in Sessions, p \in Peers : Accept(s, p)
  BY <1>1, <1>4 DEF User, OpenChat, Send, Accept, HandleEvent
<1>5. ASSUME NEW s \in Sessions, Setup(s) \/ Loop(s) PROVE HeartType'
  BY <1>1, <1>5 DEF Setup, HandshakeFails, Register, Evict, Insert, Announce, Loop, TakePacket,
                    WriteDone, WriteFails, ReadFails, ReadPacket, Refresh, Reply, Deliver,
                    Cleanup, Close
<1>6. ASSUME NEW m \in Messages, SendTask(m) PROVE HeartType'
  BY <1>1, <1>6 DEF SendTask, NoDial, Dial, SendAcquire, Queue, ReportSent, ReportFailed
<1>7. CASE UNCHANGED vars
  BY <1>1, <1>7 DEF vars
<1> QED
  BY <1>2, <1>3, <1>4, <1>5, <1>6, <1>7 DEF Next, Heartbeat

\* The event channel takes one event more, within its capacity.
LEMMA EmitType ==
  ASSUME TypeOK, NEW kind, NEW x, Event(kind, x) \in NetworkEvent, Emit(kind, x)
  PROVE  EventsType'
<1>1. Append(events, Event(kind, x)) \in Seq(NetworkEvent)
  BY DEF TypeOK, EventsType
<1>2. Len(Append(events, Event(kind, x))) = Len(events) + 1 /\ Len(events) \in Nat
  BY DEF TypeOK, EventsType
<1> QED
  BY <1>1, <1>2, LimitsAssumption DEF Emit, Room, EventsType, LimitsAssumption

\* The event channel.
LEMMA EventsStep == TypeOK /\ [Next]_vars => EventsType'
<1> SUFFICES ASSUME TypeOK, [Next]_vars PROVE EventsType'
  OBVIOUS
<1> USE DEF TypeOK
<1>1. CASE UNCHANGED events
  BY <1>1 DEF EventsType
<1>2. ASSUME NEW p \in Peers, TickDrop(p) PROVE EventsType'
  <2>1. Event("Offline", p) \in NetworkEvent /\ Emit("Offline", p)
    BY <1>2 DEF TickDrop, Event, NetworkEvent
  <2> QED
    BY <2>1, EmitType
<1>3. ASSUME NEW s \in Sessions, Evict(s) PROVE EventsType'
  <2>1. PICK p \in Connected : Emit("Offline", p)
    BY <1>3 DEF Evict, LeastRecentlyUsed
  <2>2. Event("Offline", p) \in NetworkEvent
    BY <2>1 DEF Event, NetworkEvent, TableType
  <2> QED
    BY <2>1, <2>2, EmitType
<1>4. ASSUME NEW s \in Sessions, Announce(s) \/ Deliver(s) \/ Close(s) PROVE EventsType'
  <2>1. PICK kind \in {"Online", "Offline", "Received"} : Emit(kind, peer[s])
    BY <1>4 DEF Announce, Deliver, Close
  <2>2. peer[s] \in Peers
    BY <1>4 DEF Announce, Deliver, Close, SessionType
  <2>3. Event(kind, peer[s]) \in NetworkEvent
    BY <2>2 DEF Event, NetworkEvent
  <2> QED
    BY <2>1, <2>3, EmitType
<1>5. ASSUME NEW m \in Messages, ReportSent(m) \/ ReportFailed(m) PROVE EventsType'
  <2>1. PICK kind \in {"Sent", "Failed"} : Emit(kind, m)
    BY <1>5 DEF ReportSent, ReportFailed
  <2>2. Event(kind, m) \in NetworkEvent
    BY DEF Event, NetworkEvent
  <2> QED
    BY <2>1, <2>2, EmitType
<1>6. CASE HandleEvent
  <2>1. /\ events \in Seq(NetworkEvent) /\ Len(events) <= EventCap /\ events # <<>>
        /\ events' = Tail(events)
    BY <1>6 DEF HandleEvent, EventsType
  <2>2. Tail(events) \in Seq(NetworkEvent) /\ Len(Tail(events)) = Len(events) - 1 /\ Len(events) \in Nat
    BY <2>1
  <2> QED
    BY <2>1, <2>2, LimitsAssumption DEF EventsType, LimitsAssumption
<1>7. CASE \/ TimePasses \/ TickStart \/ TickEnd \/ User
           \/ \E p : TickCondemn(p) \/ TickPing(p)
           \/ \E s \in Sessions, p \in Peers : Accept(s, p)
  BY <1>1, <1>7 DEF TimePasses, TickStart, TickEnd, User, OpenChat, Send, TickCondemn, TickPing,
                    Accept
<1>8. ASSUME NEW s \in Sessions,
             \/ HandshakeFails(s) \/ Register(s) \/ Insert(s) \/ TakePacket(s)
             \/ WriteDone(s) \/ WriteFails(s) \/ ReadFails(s)
             \/ \E k \in Incoming : ReadPacket(s, k)
             \/ Refresh(s) \/ Reply(s) \/ Cleanup(s)
      PROVE  EventsType'
  BY <1>1, <1>8 DEF HandshakeFails, Register, Insert, TakePacket, WriteDone, WriteFails,
                    ReadFails, ReadPacket, Refresh, Reply, Cleanup
<1>9. ASSUME NEW m \in Messages,
             NoDial(m) \/ (\E s \in Sessions : Dial(m, s)) \/ SendAcquire(m) \/ Queue(m)
      PROVE  EventsType'
  BY <1>1, <1>9 DEF NoDial, Dial, SendAcquire, Queue
<1>10. CASE UNCHANGED vars
  BY <1>1, <1>10 DEF vars
<1> QED
  BY <1>2, <1>3, <1>4, <1>5, <1>6, <1>7, <1>8, <1>9, <1>10
     DEF Next, Heartbeat, Setup, Loop, SendTask, HeartType

\* What the UI shows, and what was written.
LEMMA UIStep == TypeOK /\ [Next]_vars => UIType'
<1> SUFFICES ASSUME TypeOK, [Next]_vars PROVE UIType'
  OBVIOUS
<1> USE DEF TypeOK, UIType
<1>1. CASE UNCHANGED <<ui, written>>
  BY <1>1 DEF ui
<1>2. CASE HandleEvent
  <2>1. Head(events) \in NetworkEvent
    BY <1>2 DEF HandleEvent, EventsType
  <2>2. PICK e \in NetworkEvent :
          /\ presence' = IF e.kind \in {"Online", "Offline"}
                           THEN [presence EXCEPT ![e.of] = e.kind] ELSE presence
          /\ status' = IF e.kind \in {"Sent", "Failed"}
                         THEN [status EXCEPT ![e.of] = e.kind] ELSE status
    BY <1>2, <2>1 DEF HandleEvent
  <2>3. written' = written
    BY <1>2 DEF HandleEvent
  <2>4. presence' \in [Peers -> {"Online", "Offline"}]
    BY <2>2
  <2>5. status' \in [Messages -> {"None", "Pending", "Sent", "Failed"}]
    BY <2>2
  <2> QED
    BY <2>3, <2>4, <2>5
<1>3. ASSUME NEW m \in Messages, NEW p \in Peers, Send(m, p) PROVE UIType'
  BY <1>3 DEF Send
<1>4. ASSUME NEW s \in Sessions, WriteDone(s) PROVE UIType'
  BY <1>4 DEF WriteDone, ui
<1>5. CASE \/ TimePasses \/ Heartbeat
           \/ \E s \in Sessions, p \in Peers : OpenChat(s, p) \/ Accept(s, p)
  BY <1>1, <1>5 DEF TimePasses, Heartbeat, TickStart, TickEnd, TickCondemn, TickPing, TickDrop,
                    OpenChat, Accept
<1>6. ASSUME NEW s \in Sessions,
             \/ Setup(s) \/ TakePacket(s) \/ WriteFails(s) \/ ReadFails(s)
             \/ \E k \in Incoming : ReadPacket(s, k)
             \/ Refresh(s) \/ Reply(s) \/ Deliver(s) \/ Cleanup(s) \/ Close(s)
      PROVE  UIType'
  BY <1>1, <1>6 DEF Setup, HandshakeFails, Register, Evict, Insert, Announce, TakePacket,
                    WriteFails, ReadFails, ReadPacket, Refresh, Reply, Deliver, Cleanup, Close
<1>7. ASSUME NEW m \in Messages, SendTask(m) PROVE UIType'
  BY <1>1, <1>7 DEF SendTask, NoDial, Dial, SendAcquire, Queue, ReportSent, ReportFailed
<1>8. CASE UNCHANGED vars
  BY <1>1, <1>8 DEF vars
<1> QED
  BY <1>2, <1>3, <1>4, <1>5, <1>6, <1>7, <1>8 DEF Next, User, Loop

\* The channels never exceed their capacity, and every task stays in one of the
\* places its code has, whatever the numbers of peers, sessions and messages.
THEOREM TypeInvariant == Spec => []TypeOK
<1>1. TypeOK /\ [Next]_vars => TypeOK'
  BY TableStep, SessionStep, OutStep, SendingStep, HeartStep, EventsStep, UIStep DEF TypeOK
<1> QED
  BY <1>1, InitType, PTL DEF Spec

-----------------------------------------------------------------------------
(* Who waits for a setup, and who holds the lock.                          *)

\* Setups start and end together with the wait for them.
LEMMA SetupStep == TypeOK /\ OneSetupPerSend /\ [Next]_vars => OneSetupPerSend'
<1> SUFFICES ASSUME TypeOK, OneSetupPerSend, [Next]_vars PROVE OneSetupPerSend'
  OBVIOUS
<1> USE NamesAssumption
    DEF NamesAssumption, TypeOK, SessionType, SendingType, SendPc, SetupPc, LoopPc, OneSetupPerSend
<1>1. CASE UNCHANGED <<pc, by, spc>>
  BY <1>1
<1>2. ASSUME NEW s \in Sessions, HandshakeFails(s) \/ Announce(s) PROVE OneSetupPerSend'
  <2>1. CASE by[s] = Nobody
    BY <1>2, <2>1 DEF HandshakeFails, Announce, Resume
  <2>2. CASE by[s] # Nobody
    BY <1>2, <2>2 DEF HandshakeFails, Announce, Resume
  <2> QED
    BY <2>1, <2>2
<1>3. ASSUME NEW s \in Sessions, Register(s) \/ Evict(s) \/ Insert(s) \/ Loop(s)
      PROVE  OneSetupPerSend'
  <2>1. by' = by /\ spc' = spc
    BY <1>3 DEF Register, Evict, Insert, Loop, TakePacket, WriteDone, WriteFails, ReadFails,
                ReadPacket, Refresh, Reply, Deliver, Cleanup, Close, sending
  <2>2. \E next : pc' = [pc EXCEPT ![s] = next]
    BY <1>3 DEF Register, Evict, Insert, Loop, TakePacket, WriteDone, WriteFails, ReadFails,
                ReadPacket, Refresh, Reply, Deliver, Cleanup, Close, Continue
  <2>3. pc[s] \in SetupPc => pc'[s] \in SetupPc \cup {"announce"}
    <3>1. CASE Register(s) \/ Evict(s) \/ Insert(s)
      BY <3>1 DEF Register, Evict, Insert
    <3>2. CASE Loop(s)
      <4>1. pc[s] \notin SetupPc
        BY <3>2 DEF Loop, TakePacket, WriteDone, WriteFails, ReadFails, ReadPacket, Refresh,
                    Reply, Deliver, Cleanup, Close
      <4> QED
        BY <4>1
    <3> QED
      BY <1>3, <3>1, <3>2
  <2>4. pc[s] # "announce"
    BY <1>3 DEF Register, Evict, Insert, Loop, TakePacket, WriteDone, WriteFails, ReadFails,
                ReadPacket, Refresh, Reply, Deliver, Cleanup, Close
  <2> QED
    BY <2>1, <2>2, <2>3, <2>4
<1>4. ASSUME NEW s \in Sessions, NEW p \in Peers, OpenChat(s, p) \/ Accept(s, p)
      PROVE  OneSetupPerSend'
  BY <1>4 DEF OpenChat, Accept, Handshake, sending
<1>5. ASSUME NEW m \in Messages, NEW s \in Sessions, Dial(m, s) PROVE OneSetupPerSend'
  BY <1>5 DEF Dial, Handshake, At
<1>6. ASSUME NEW m \in Messages,
             \/ NoDial(m) \/ SendAcquire(m) \/ Queue(m) \/ ReportSent(m) \/ ReportFailed(m)
             \/ \E p \in Peers : Send(m, p)
      PROVE  OneSetupPerSend'
  BY <1>6 DEF NoDial, SendAcquire, Queue, ReportSent, ReportFailed, Send, At, session
<1>7. CASE TimePasses \/ Heartbeat \/ HandleEvent \/ UNCHANGED vars
  BY <1>1, <1>7 DEF TimePasses, Heartbeat, TickStart, TickCondemn, TickPing, TickDrop, TickEnd,
                    HandleEvent, session, sending, vars
<1> QED
  BY <1>2, <1>3, <1>4, <1>5, <1>6, <1>7 DEF Next, User, Setup, SendTask

\* A step takes the lock when it is free, or is the holder's own.
LEMMA LockStep ==
  TypeOK /\ OneSetupPerSend /\ LockDiscipline /\ [Next]_vars => LockDiscipline'
<1> SUFFICES ASSUME TypeOK, OneSetupPerSend, LockDiscipline, [Next]_vars PROVE LockDiscipline'
  OBVIOUS
<1> USE NamesAssumption
    DEF NamesAssumption, TypeOK, TableType, SessionType, SendingType, SendPc, SetupPc, LoopPc,
        LockDiscipline
<1>1. CASE UNCHANGED <<lock, pc, spc, tick>>
  BY <1>1
<1>2. ASSUME NEW s \in Sessions, HandshakeFails(s) \/ Announce(s) PROVE LockDiscipline'
  <2>1. CASE by[s] = Nobody
    BY <1>2, <2>1 DEF HandshakeFails, Announce, Resume, table, heart
  <2>2. CASE by[s] # Nobody
    BY <1>2, <2>2 DEF HandshakeFails, Announce, Resume, table, heart, OneSetupPerSend
  <2> QED
    BY <2>1, <2>2
<1>3. ASSUME NEW s \in Sessions, Register(s) \/ Evict(s) \/ Insert(s)
      PROVE  LockDiscipline'
  BY <1>3 DEF Register, Evict, Insert, sending, heart
<1>4. ASSUME NEW s \in Sessions, Loop(s) PROVE LockDiscipline'
  BY <1>4 DEF Loop, TakePacket, WriteDone, WriteFails, ReadFails, ReadPacket, Refresh, Reply,
              Deliver, Cleanup, Close, Continue, table, sending, heart
<1>5. ASSUME NEW s \in Sessions, NEW p \in Peers, OpenChat(s, p) \/ Accept(s, p)
      PROVE  LockDiscipline'
  BY <1>5 DEF OpenChat, Accept, Handshake, table, sending, heart
<1>6. ASSUME NEW m \in Messages, SendTask(m) \/ \E p \in Peers : Send(m, p)
      PROVE  LockDiscipline'
  BY <1>6 DEF SendTask, NoDial, Dial, Handshake, SendAcquire, Queue, ReportSent, ReportFailed,
              Send, At, table, session, heart
<1>7. CASE Heartbeat
  BY <1>7 DEF Heartbeat, TickStart, TickCondemn, TickPing, TickDrop, TickEnd, session, sending
<1>8. CASE TimePasses \/ HandleEvent \/ UNCHANGED vars
  BY <1>1, <1>8 DEF TimePasses, HandleEvent, table, session, sending, heart, vars
<1> QED
  BY <1>2, <1>3, <1>4, <1>5, <1>6, <1>7, <1>8 DEF Next, User, Setup

-----------------------------------------------------------------------------
(* The table.                                                              *)

\* A session whose entry may be in the table, and what a step that does not
\* touch the table leaves alone.
Live(s) == pc[s] \in LoopPc \cup {"announce", "cleanup"}
LeavesTable ==
    /\ UNCHANGED <<lock, connections, tick, todo, doomed>>
    /\ \A s \in Sessions : pc'[s] = "insert" => pc[s] = "insert"
    /\ \A s \in Sessions : Live(s) => Live(s)' /\ peer'[s] = peer[s]

TickStep ==
    \/ TimePasses \/ TickStart \/ TickEnd
    \/ \E p \in todo : TickCondemn(p) \/ TickPing(p)
    \/ \E p \in doomed : TickDrop(p)
TableTask(s) == Register(s) \/ Evict(s) \/ Insert(s) \/ Refresh(s) \/ Cleanup(s)
LockTask(m) == SendAcquire(m) \/ ReportSent(m) \/ ReportFailed(m)

\* The steps that touch the table or its lock, and all others.
LEMMA StepKinds ==
  ASSUME TypeOK, [Next]_vars
  PROVE  \/ TickStep
         \/ \E s \in Sessions : TableTask(s)
         \/ \E m \in Messages : LockTask(m)
         \/ LeavesTable
<1> USE DEF TypeOK, SessionType, LoopPc, SetupPc, Live, table, heart
<1>1. ASSUME NEW s \in Sessions, HandshakeFails(s) \/ Announce(s) PROVE LeavesTable
  BY <1>1 DEF LeavesTable, HandshakeFails, Announce
<1>2. ASSUME NEW s \in Sessions,
             \/ TakePacket(s) \/ WriteDone(s) \/ WriteFails(s) \/ ReadFails(s)
             \/ \E k \in Incoming : ReadPacket(s, k)
             \/ Reply(s) \/ Deliver(s) \/ Close(s)
      PROVE  LeavesTable
  BY <1>2 DEF LeavesTable, TakePacket, WriteDone, WriteFails, ReadFails, ReadPacket, Reply,
              Deliver, Close, Continue
<1>3. ASSUME NEW s \in Sessions, NEW p \in Peers, OpenChat(s, p) \/ Accept(s, p)
      PROVE  LeavesTable
  BY <1>3 DEF LeavesTable, OpenChat, Accept, Handshake
<1>4. ASSUME NEW m \in Messages,
             \/ NoDial(m) \/ (\E s \in Sessions : Dial(m, s)) \/ Queue(m)
             \/ \E p \in Peers : Send(m, p)
      PROVE  LeavesTable
  BY <1>4 DEF LeavesTable, NoDial, Dial, Handshake, Queue, Send, session
<1>5. CASE HandleEvent \/ UNCHANGED vars
  BY <1>5 DEF LeavesTable, HandleEvent, vars, session
<1> QED
  BY <1>1, <1>2, <1>3, <1>4, <1>5
     DEF Next, Heartbeat, User, Setup, Loop, SendTask, TickStep, TableTask, LockTask

\* Who changes the table during a pass is the pass.
LEMMA TickSeesStep ==
  TypeOK /\ LockDiscipline /\ TickSeesTable /\ [Next]_vars => TickSeesTable'
<1> SUFFICES ASSUME TypeOK, LockDiscipline, TickSeesTable, [Next]_vars PROVE TickSeesTable'
  OBVIOUS
<1> USE NamesAssumption DEF NamesAssumption, TickSeesTable, LockDiscipline, Connected
<1>1. CASE lock # Ticker /\ tick' = tick
  BY <1>1
<1>2. CASE UNCHANGED <<lock, tick, todo, doomed>> /\ DOMAIN connections' = DOMAIN connections
  BY <1>2
<1>3. CASE TickStart \/ TickEnd
  BY <1>3 DEF TickStart, TickEnd
<1>4. ASSUME NEW p \in todo, TickCondemn(p) \/ TickPing(p) PROVE TickSeesTable'
  <2>1. DOMAIN connections' = DOMAIN connections
    BY <1>4 DEF TickCondemn, TickPing, TypeOK, TableType
  <2> QED
    BY <1>4, <2>1 DEF TickCondemn, TickPing
<1>5. ASSUME NEW p \in doomed, TickDrop(p) PROVE TickSeesTable'
  BY <1>5 DEF TickDrop, Without
<1>6. CASE TimePasses
  BY <1>2, <1>6 DEF TimePasses
<1>7. ASSUME NEW s \in Sessions, TableTask(s) PROVE TickSeesTable'
  BY <1>1, <1>7 DEF TableTask, Register, Evict, Insert, Refresh, Cleanup, heart
<1>8. ASSUME NEW m \in Messages, LockTask(m) PROVE TickSeesTable'
  BY <1>1, <1>8 DEF LockTask, SendAcquire, ReportSent, ReportFailed, At, heart
<1>9. CASE LeavesTable
  BY <1>2, <1>9 DEF LeavesTable
<1> QED
  BY <1>3, <1>4, <1>5, <1>6, <1>7, <1>8, <1>9, StepKinds DEF TickStep

\* A count rises over the limit only as the entry is condemned.
LEMMA OverdueStep ==
  TypeOK /\ LockDiscipline /\ OverdueIsDoomed /\ [Next]_vars => OverdueIsDoomed'
<1> SUFFICES ASSUME TypeOK, LockDiscipline, OverdueIsDoomed, [Next]_vars PROVE OverdueIsDoomed'
  OBVIOUS
<1> USE NamesAssumption, LimitsAssumption
    DEF NamesAssumption, LimitsAssumption, OverdueIsDoomed, LockDiscipline, Connected
<1>a. \A p \in Connected : connections[p] \in ActiveConn
  BY DEF TypeOK, TableType
<1>1. ASSUME lock # Ticker \/ UNCHANGED <<todo, doomed>>, tick' = tick, Connected' \subseteq Connected,
             \A p \in Connected' : connections'[p].missed \in {0, connections[p].missed}
      PROVE  OverdueIsDoomed'
  BY <1>1
<1>2. CASE TickStart
  BY <1>2 DEF TickStart
<1>3. CASE TickEnd
  BY <1>3 DEF TickEnd
<1>4. ASSUME NEW p \in todo, TickCondemn(p) PROVE OverdueIsDoomed'
  BY <1>4 DEF TickCondemn
<1>5. ASSUME NEW p \in todo, TickPing(p) PROVE OverdueIsDoomed'
  <2>1. ASSUME NEW q \in Connected, connections'[q].missed > MissedLimit
        PROVE  q # p /\ connections'[q] = connections[q]
    <3>1. CASE q = p
      <4>1. connections'[q].missed = Missed(q)
        BY <1>5, <1>a, <3>1 DEF TickPing, ActiveConn
      <4> QED
        BY <1>5, <1>a, <2>1, <3>1, <4>1 DEF TickPing, Silent, Missed, ActiveConn
    <3>2. CASE q # p
      BY <1>5, <3>2 DEF TickPing
    <3> QED
      BY <3>1, <3>2
  <2>2. Connected' = Connected
    BY <1>5 DEF TickPing
  <2> QED
    BY <1>5, <2>1, <2>2 DEF TickPing
<1>6. ASSUME NEW p \in doomed, TickDrop(p) PROVE OverdueIsDoomed'
  BY <1>6 DEF TickDrop, Without
<1>7. CASE TimePasses
  <2>1. \A p \in Connected : connections'[p].missed = connections[p].missed
    BY <1>7, <1>a DEF TimePasses, ActiveConn
  <2> QED
    BY <1>1, <1>7, <2>1 DEF TimePasses
<1>8. ASSUME NEW s \in Sessions, TableTask(s) PROVE OverdueIsDoomed'
  <2>1. tick' = tick /\ todo' = todo /\ doomed' = doomed
    BY <1>8 DEF TableTask, Register, Evict, Insert, Refresh, Cleanup, heart
  <2>2. ASSUME NEW p \in Connected'
        PROVE  \/ connections'[p].missed = 0
               \/ p \in Connected /\ connections'[p] = connections[p]
    <3>1. CASE Insert(s)
      BY <3>1 DEF Insert
    <3>2. CASE Refresh(s)
      BY <1>a, <3>2 DEF Refresh, ActiveConn
    <3>3. CASE Register(s) \/ Evict(s) \/ Cleanup(s)
      <4>1. connections' = connections \/ \E x : connections' = Without(x)
        BY <3>3 DEF Register, Evict, Cleanup
      <4>2. ASSUME NEW x, connections' = Without(x)
            PROVE  p \in Connected /\ connections'[p] = connections[p]
        BY <2>2, <4>2 DEF Without
      <4> QED
        BY <2>2, <4>1, <4>2
    <3> QED
      BY <1>8, <3>1, <3>2, <3>3 DEF TableTask
  <2> QED
    BY <2>1, <2>2
<1>9. ASSUME NEW m \in Messages, LockTask(m) PROVE OverdueIsDoomed'
  BY <1>9 DEF LockTask, SendAcquire, ReportSent, ReportFailed, heart
<1>10. CASE LeavesTable
  BY <1>10 DEF LeavesTable
<1> QED
  BY <1>2, <1>3, <1>4, <1>5, <1>6, <1>7, <1>8, <1>9, <1>10, StepKinds DEF TickStep

\* CapacityBound and InsertHasRoom, with what Cardinality needs.
CapacityInv == IsFiniteSet(Connected) /\ CapacityBound /\ InsertHasRoom

\* The table grows only by Insert, which has room.
LEMMA CapacityStep ==
  TypeOK /\ LockDiscipline /\ CapacityInv /\ [Next]_vars => CapacityInv'
<1> SUFFICES ASSUME TypeOK, LockDiscipline, CapacityInv, [Next]_vars PROVE CapacityInv'
  OBVIOUS
<1> USE NamesAssumption, LimitsAssumption
    DEF NamesAssumption, LimitsAssumption, CapacityInv, CapacityBound, InsertHasRoom
<1>a. Cardinality(Connected) \in Nat
  BY FS_CardinalityType
<1>1. ASSUME Connected' = Connected,
             \A s \in Sessions : pc'[s] = "insert" => pc[s] = "insert"
      PROVE  CapacityInv'
  BY <1>1
<1>2. ASSUME NEW p, connections' = Without(p)
      PROVE  /\ IsFiniteSet(Connected') /\ Cardinality(Connected') <= Cardinality(Connected)
             /\ p \in Connected => Cardinality(Connected') = Cardinality(Connected) - 1
             /\ Cardinality(Connected') \in Nat
  <2>1. Connected' = Connected \ {p}
    BY <1>2 DEF Without, Connected
  <2> QED
    BY <1>a, <2>1, FS_RemoveElement, FS_CardinalityType
<1>3. CASE TimePasses \/ TickStart \/ TickEnd
  BY <1>1, <1>3 DEF TimePasses, TickStart, TickEnd, Connected, session
<1>4. ASSUME NEW p \in todo, TickCondemn(p) \/ TickPing(p) PROVE CapacityInv'
  <2>1. Connected' = Connected
    BY <1>4 DEF TickCondemn, TickPing, Connected, TypeOK, TableType
  <2> QED
    BY <1>1, <1>4, <2>1 DEF TickCondemn, TickPing, session
<1>5. ASSUME NEW p \in doomed, TickDrop(p) PROVE CapacityInv'
  BY <1>2, <1>5, <1>a DEF TickDrop, session
<1>6. ASSUME NEW s \in Sessions, Register(s) PROVE CapacityInv'
  BY <1>6, <1>a DEF Register, Connected, TypeOK, SessionType
<1>7. ASSUME NEW s \in Sessions, Evict(s) PROVE CapacityInv'
  <2>1. PICK p \in Connected : connections' = Without(p)
    BY <1>7 DEF Evict, LeastRecentlyUsed
  <2>2. IsFiniteSet(Connected') /\ Cardinality(Connected') < MaxConnections
    BY <1>2, <1>a, <2>1
  <2> QED
    BY <2>2, <1>a, <1>2, <2>1
<1>8. ASSUME NEW s \in Sessions, Insert(s) PROVE CapacityInv'
  <2>1. Connected' = Connected \cup {peer[s]}
    BY <1>8 DEF Insert, Connected
  <2>2. /\ IsFiniteSet(Connected') /\ Cardinality(Connected') \in Nat
        /\ Cardinality(Connected') <= Cardinality(Connected) + 1
    BY <1>a, <2>1, FS_AddElement, FS_CardinalityType
  <2>3. Cardinality(Connected) < MaxConnections
    BY <1>8 DEF Insert
  <2>4. \A t \in Sessions : pc'[t] # "insert"
    BY <1>8 DEF Insert, LockDiscipline, TypeOK, SessionType
  <2> QED
    BY <1>a, <2>2, <2>3, <2>4
<1>9. ASSUME NEW s \in Sessions, Refresh(s) PROVE CapacityInv'
  BY <1>1, <1>9 DEF Refresh, Connected, TypeOK, SessionType
<1>10. ASSUME NEW s \in Sessions, Cleanup(s) PROVE CapacityInv'
  BY <1>2, <1>10, <1>a DEF Cleanup, TypeOK, SessionType
<1>11. ASSUME NEW m \in Messages, LockTask(m) PROVE CapacityInv'
  BY <1>1, <1>11 DEF LockTask, SendAcquire, ReportSent, ReportFailed, Connected, session
<1>12. CASE LeavesTable
  BY <1>1, <1>12 DEF LeavesTable, Connected
<1> QED
  BY <1>3, <1>4, <1>5, <1>6, <1>7, <1>8, <1>9, <1>10, <1>11, <1>12, StepKinds
     DEF TickStep, TableTask

\* A session leaves its loop only with its entry.
LEMMA LiveStep == TypeOK /\ EntryIsLive /\ [Next]_vars => EntryIsLive'
<1> SUFFICES ASSUME TypeOK, EntryIsLive, [Next]_vars PROVE EntryIsLive'
  OBVIOUS
<1> USE NamesAssumption DEF NamesAssumption, EntryIsLive, Live, LoopPc
<1>a. \A p \in Connected : connections[p] \in ActiveConn
  BY DEF TypeOK, TableType
<1>1. ASSUME \A p \in Connected' : p \in Connected /\ connections'[p].session = connections[p].session,
             \A s \in Sessions : Live(s) => Live(s)' /\ peer'[s] = peer[s]
      PROVE  EntryIsLive'
  BY <1>1, <1>a DEF ActiveConn
<1>2. CASE TimePasses
  BY <1>1, <1>2, <1>a DEF TimePasses, ActiveConn, Connected, session
<1>3. CASE TickStart \/ TickEnd \/ \E m \in Messages : LockTask(m)
  BY <1>1, <1>3 DEF TickStart, TickEnd, LockTask, SendAcquire, ReportSent, ReportFailed,
                    Connected, session
<1>4. ASSUME NEW p \in todo, TickCondemn(p) \/ TickPing(p) PROVE EntryIsLive'
  <2>1. \/ connections' = connections
        \/ connections' = [connections EXCEPT ![p].missed = Missed(p)]
    BY <1>4, Zenon DEF TickCondemn, TickPing
  <2>2. \A q \in Connected' :
          q \in Connected /\ connections'[q].session = connections[q].session
    BY <1>a, <2>1 DEF ActiveConn, Connected
  <2>3. pc' = pc /\ peer' = peer
    BY <1>4 DEF TickCondemn, TickPing, session
  <2> QED
    BY <1>1, <2>2, <2>3
<1>5. ASSUME NEW p, connections' = Without(p)
      PROVE  \A q \in Connected' : q \in Connected /\ q # p /\ connections'[q] = connections[q]
  BY <1>5 DEF Without, Connected
<1>6. ASSUME NEW p \in doomed, TickDrop(p) PROVE EntryIsLive'
  BY <1>1, <1>5, <1>6 DEF TickDrop, session
<1>7. ASSUME NEW s \in Sessions, Register(s) PROVE EntryIsLive'
  BY <1>1, <1>7 DEF Register, Connected, TypeOK, SessionType
<1>8. ASSUME NEW s \in Sessions, Evict(s) PROVE EntryIsLive'
  <2>1. PICK p \in Connected : connections' = Without(p)
    BY <1>8 DEF Evict, LeastRecentlyUsed
  <2>2. \A t \in Sessions : Live(t) => Live(t)' /\ peer'[t] = peer[t]
    BY <1>8 DEF Evict, TypeOK, SessionType
  <2> QED
    BY <1>1, <1>5, <2>1, <2>2
<1>9. ASSUME NEW s \in Sessions, Insert(s) PROVE EntryIsLive'
  <2>1. Live(s)' /\ peer' = peer /\ \A t \in Sessions : Live(t) => Live(t)'
    BY <1>9 DEF Insert, TypeOK, SessionType
  <2>2. ASSUME NEW p \in Connected'
        PROVE  \/ p = peer[s] /\ connections'[p].session = s
               \/ p \in Connected /\ connections'[p] = connections[p]
    BY <1>9 DEF Insert, Connected
  <2> QED
    BY <1>a, <2>1, <2>2 DEF ActiveConn
<1>10. ASSUME NEW s \in Sessions, Refresh(s) PROVE EntryIsLive'
  <2>a. \A c \in ActiveConn : [c EXCEPT !.age = 0, !.missed = 0].session = c.session
    BY DEF ActiveConn
  <2>b. \A p \in Connected' :
          /\ p \in Connected
          /\ connections'[p] \in {connections[p], [connections[p] EXCEPT !.age = 0, !.missed = 0]}
    BY <1>10 DEF Refresh, Connected
  <2>1. \A p \in Connected' :
          p \in Connected /\ connections'[p].session = connections[p].session
    BY <1>a, <2>a, <2>b
  <2>2. \A t \in Sessions : Live(t) => Live(t)' /\ peer'[t] = peer[t]
    BY <1>10 DEF Refresh, TypeOK, SessionType
  <2> QED
    BY <1>1, <2>1, <2>2
\* The session whose task ends has no entry left: its entry could only be the
\* one of its own peer.
<1>11. ASSUME NEW s \in Sessions, Cleanup(s) PROVE EntryIsLive'
  <2>1. \A p \in Connected' : /\ p \in Connected /\ p # peer[s]
                              /\ connections'[p] = connections[p]
    BY <1>5, <1>11 DEF Cleanup
  <2>2. peer' = peer /\ \A t \in Sessions : t # s /\ Live(t) => Live(t)'
    BY <1>11 DEF Cleanup, TypeOK, SessionType
  <2> QED
    BY <1>a, <2>1, <2>2 DEF ActiveConn
<1>12. CASE LeavesTable
  BY <1>1, <1>12 DEF LeavesTable, Connected
<1> QED
  BY <1>2, <1>3, <1>4, <1>6, <1>7, <1>8, <1>9, <1>10, <1>11, <1>12, StepKinds
     DEF TickStep, TableTask

-----------------------------------------------------------------------------
(* The theorems.                                                           *)

\* The inductive invariant: capacity needs the lock (nobody inserts between the
\* look at the size and the insert), and the lock needs every send to be resumed
\* by one setup only, which needs the types.
IInv ==
    /\ TypeOK /\ OneSetupPerSend /\ LockDiscipline
    /\ TickSeesTable /\ OverdueIsDoomed /\ CapacityInv /\ EntryIsLive

\* The empty table.
LEMMA InitIInv == Init => IInv
<1> SUFFICES ASSUME Init PROVE IInv
  OBVIOUS
<1>1. Connected = {}
  BY DEF Init, Connected
<1>2. CapacityInv
  BY <1>1, FS_EmptySet, LimitsAssumption
     DEF CapacityInv, CapacityBound, InsertHasRoom, Init, LimitsAssumption
<1>3. OneSetupPerSend /\ LockDiscipline /\ TickSeesTable /\ OverdueIsDoomed /\ EntryIsLive
  BY <1>1, NamesAssumption
     DEF NamesAssumption, Init, OneSetupPerSend, LockDiscipline, TickSeesTable, OverdueIsDoomed,
         EntryIsLive
<1> QED
  BY <1>2, <1>3, InitType DEF IInv

\* Every step keeps the invariant.
LEMMA StepIInv == IInv /\ [Next]_vars => IInv'
<1>1. TypeOK /\ [Next]_vars => TypeOK'
  BY TableStep, SessionStep, OutStep, SendingStep, HeartStep, EventsStep, UIStep DEF TypeOK
<1> QED
  BY <1>1, SetupStep, LockStep, TickSeesStep, OverdueStep, CapacityStep, LiveStep DEF IInv

\* The inductive invariant: the table, its lock and the tasks fit together in
\* every reachable state of connection_manager.rs.
THEOREM Invariance == Spec => []IInv
BY InitIInv, StepIInv, PTL DEF Spec

\* The table never exceeds MAX_ACTIVE_CONNECTIONS, whatever the limit, however
\* many setups race for the lock.
THEOREM Capacity == Spec => []CapacityBound
<1>1. IInv => CapacityBound
  BY DEF IInv, CapacityInv
<1> QED
  BY <1>1, Invariance, PTL

\* An entry's channel is open and leads to the entry's peer.
THEOREM EntriesLive == Spec => []EntryIsLive
<1>1. IInv => EntryIsLive
  BY DEF IInv
<1> QED
  BY <1>1, Invariance, PTL

\* Critical sections exclude each other, across all their awaits.
THEOREM MutualExclusion == Spec => []LockDiscipline
<1>1. IInv => LockDiscipline
  BY DEF IInv
<1> QED
  BY <1>1, Invariance, PTL

\* A peer silent for too long is always already being dropped.
THEOREM OverdueDropped == Spec => []OverdueIsDoomed
<1>1. IInv => OverdueIsDoomed
  BY DEF IInv
<1> QED
  BY <1>1, Invariance, PTL

\* What a heartbeat pass has still to visit or drop is in the table, across all
\* the awaits of the pass.
THEOREM PassSeesTable == Spec => []TickSeesTable
<1>1. IInv => TickSeesTable
  BY DEF IInv
<1> QED
  BY <1>1, Invariance, PTL

\* A send waits for one setup under way, or for none.
THEOREM OneSetup == Spec => []OneSetupPerSend
<1>1. IInv => OneSetupPerSend
  BY DEF IInv
<1> QED
  BY <1>1, Invariance, PTL
=============================================================================
