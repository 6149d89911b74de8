--------------------------- MODULE MessageProofs ---------------------------
(***************************************************************************)
(* What becomes of a message the user sends, for every number of peers,    *)
(* sessions and messages: it is carried once and to its recipient, and     *)
(* sending implements MessageLifecycle.                                    *)
(***************************************************************************)
EXTENDS ConnectionManagerProofs

-----------------------------------------------------------------------------
(* Places.                                                                 *)

\* The place i of session s has message m: 0 is the hand of its task, i > 0 a
\* slot of its channel, so that what is taken from the channel moves by one.
Slots == 0..OutCap
Carries(s, i, m) == IF i = 0 THEN cur[s] = m ELSE Holds(s, i, m)
InFlight(m) == \E s \in Sessions, i \in Slots : Carries(s, i, m)

\* A send that has put its message in a channel.
HandedPc == {"accept", "sent"}

\* A task has a message in hand only to write it, and a session without an entry
\* has an empty channel: an identity is used again with nothing left in it.
Tidy ==
    /\ \A s \in Sessions : cur[s] \in Messages => pc[s] = "write"
    /\ \A s \in Sessions : pc[s] \in {"free", "handshake"} => out[s] = <<>>

\* The send that is about to queue, lock in hand, still has its entry.
QueueSeesTable == \A m \in Messages : spc[m] = "queue" => to[m] \in Connected

\* A message is in one place.
OnePlace ==
    \A m \in Messages, s, t \in Sessions, i, j \in Slots :
        Carries(s, i, m) /\ Carries(t, j, m) => s = t /\ i = j

\* What a session carries is for its peer, was accepted, and not yet written.
ForItsPeer ==
    \A m \in Messages, s \in Sessions, i \in Slots :
        Carries(s, i, m) => peer[s] = to[m] /\ spc[m] \in HandedPc /\ m \notin written

\* Only an accepted message is ever written.
WrittenAccepted == \A m \in written : spc[m] \in HandedPc

CarryInv == QueueSeesTable /\ Tidy /\ OnePlace /\ ForItsPeer /\ WrittenAccepted

\* Where a send stands, as far as its message is not in flight.
Stage(m) ==
    CASE spc[m] = "none"                                   -> "idle"
      [] spc[m] \in {"check", "setup", "acquire", "queue"} -> "pending"
      [] spc[m] \in {"reject", "failed"}                   -> "rejected"
      [] spc[m] \in HandedPc                               -> "handed"

-----------------------------------------------------------------------------
(* Channels.                                                               *)

\* What an append puts into a channel, and where.
LEMMA AppendHolds ==
  ASSUME OutType, NEW x \in Sessions, NEW k \in Packet,
         out' = [out EXCEPT ![x] = Append(@, k)],
         NEW s \in Sessions, NEW i \in Slots \ {0}, NEW m
  PROVE  Holds(s, i, m)' <=> Holds(s, i, m) \/ (s = x /\ i = Len(out[x]) + 1 /\ m = k)
<1> USE DEF OutType, Holds, Slots
<1>0. i \in Nat /\ i >= 1
  BY LimitsAssumption DEF LimitsAssumption
<1>1. CASE s = x
  <2>1. out[x] \in Seq(Packet) /\ Len(out[x]) \in Nat /\ out'[x] = Append(out[x], k)
    BY <1>1
  <2>2. Len(out'[x]) = Len(out[x]) + 1
    BY <2>1
  <2>3. CASE i <= Len(out[x])
    <3>1. out'[x][i] = out[x][i]
      BY <1>0, <2>1, <2>3
    <3> QED
      BY <1>0, <1>1, <2>1, <2>2, <2>3, <3>1
  <2>4. CASE i = Len(out[x]) + 1
    <3>1. out'[x][i] = k
      BY <2>1, <2>4
    <3> QED
      BY <1>0, <1>1, <2>1, <2>2, <2>4, <3>1
  <2>5. CASE i > Len(out[x]) + 1
    BY <1>0, <1>1, <2>1, <2>2, <2>5
  <2> QED
    BY <1>0, <2>1, <2>3, <2>4, <2>5
<1>2. CASE s # x
  BY <1>2
<1> QED
  BY <1>1, <1>2

\* Taking the head moves every packet by one place.
LEMMA TailHolds ==
  ASSUME OutType, NEW s \in Sessions, out[s] # <<>>, out' = [out EXCEPT ![s] = Tail(@)],
         NEW i \in Slots \ {0}, NEW m
  PROVE  Holds(s, i, m)' <=> i + 1 \in Slots /\ Holds(s, i + 1, m)
<1> USE DEF OutType, Holds, Slots
<1>0. i \in Nat /\ i >= 1 /\ OutCap \in Nat
  BY LimitsAssumption DEF LimitsAssumption
<1>1. /\ out[s] \in Seq(Packet) /\ Len(out[s]) \in Nat /\ Len(out[s]) <= OutCap
      /\ out'[s] = Tail(out[s])
  OBVIOUS
<1>2. Len(out'[s]) = Len(out[s]) - 1
  BY <1>1
<1>3. i <= Len(out'[s]) => out'[s][i] = out[s][i + 1]
  BY <1>0, <1>1, <1>2
<1> QED
  BY <1>0, <1>1, <1>2, <1>3

\* The head is in the first place.
LEMMA HeadHolds ==
  ASSUME OutType, NEW s \in Sessions, out[s] # <<>>, NEW m
  PROVE  1 \in Slots /\ (Head(out[s]) = m <=> Holds(s, 1, m))
BY LimitsAssumption DEF LimitsAssumption, OutType, Holds, Slots

-----------------------------------------------------------------------------
(* The lock, hands and new sessions.                                       *)

\* How a send goes on: what a step may do to one that is not its own.
Waits(m)  ==
    spc[m] \in {"check", "setup"} /\ spc'[m] \in {"setup", "acquire"} /\ to'[m] = to[m]
Stands(m) == spc'[m] = spc[m] /\ to'[m] = to[m]

LEMMA SendMoves ==
  ASSUME IInv, [Next]_vars, NEW m \in Messages
  PROVE  \/ Stands(m) \/ Waits(m)
         \/ \E p \in Peers : Send(m, p)
         \/ SendAcquire(m) \/ Queue(m) \/ ReportSent(m) \/ ReportFailed(m)
<1> USE NamesAssumption DEF NamesAssumption, IInv, TypeOK, SendingType, Stands, Waits
<1>1. CASE UNCHANGED sending
  BY <1>1 DEF sending
<1>2. ASSUME NEW s \in Sessions, HandshakeFails(s) \/ Announce(s) PROVE Stands(m) \/ Waits(m)
  <2>1. CASE by[s] = Nobody
    BY <1>2, <2>1 DEF HandshakeFails, Announce, Resume
  <2>2. CASE by[s] # Nobody
    BY <1>2, <2>2 DEF HandshakeFails, Announce, Resume, OneSetupPerSend
  <2> QED
    BY <2>1, <2>2
<1>3. ASSUME NEW n \in Messages, n # m, SendTask(n) \/ \E p \in Peers : Send(n, p)
      PROVE  Stands(m)
  BY <1>3 DEF SendTask, NoDial, Dial, SendAcquire, Queue, ReportSent, ReportFailed, Send, At
<1>4. CASE NoDial(m) \/ \E s \in Sessions : Dial(m, s)
  BY <1>4 DEF NoDial, Dial, At
<1>5. CASE \/ TimePasses \/ Heartbeat \/ HandleEvent
           \/ \E s \in Sessions, p \in Peers : OpenChat(s, p) \/ Accept(s, p)
  BY <1>1, <1>5 DEF TimePasses, Heartbeat, TickStart, TickCondemn, TickPing, TickDrop, TickEnd,
                    HandleEvent, OpenChat, Accept
<1>6. ASSUME NEW s \in Sessions, Register(s) \/ Evict(s) \/ Insert(s) \/ Loop(s)
      PROVE  Stands(m)
  <2>1. UNCHANGED sending
    BY <1>6 DEF Register, Evict, Insert, Loop, TakePacket, WriteDone, WriteFails, ReadFails,
                ReadPacket, Refresh, Reply, Deliver, Cleanup, Close
  <2> QED
    BY <2>1 DEF sending
<1>7. CASE UNCHANGED vars
  BY <1>1, <1>7 DEF vars
<1> QED
  BY <1>2, <1>3, <1>4, <1>5, <1>6, <1>7 DEF Next, User, Setup, SendTask

\* While a send holds the lock nobody else changes the table.
LEMMA QueueSeesStep == IInv /\ QueueSeesTable /\ [Next]_vars => QueueSeesTable'
<1> SUFFICES ASSUME IInv, QueueSeesTable, [Next]_vars,
                    NEW m \in Messages, spc'[m] = "queue"
             PROVE  to'[m] \in Connected'
  BY DEF QueueSeesTable
<1> USE NamesAssumption DEF NamesAssumption, IInv, TypeOK, SendingType
<1>1. CASE SendAcquire(m)
  BY <1>1 DEF SendAcquire, At, Connected
<1>2. /\ \A p \in Peers : ~Send(m, p)
      /\ ~Queue(m) /\ ~ReportSent(m) /\ ~ReportFailed(m) /\ ~Waits(m)
  BY DEF Send, Queue, ReportSent, ReportFailed, Waits, At
<1>3. CASE Stands(m)
  <2>1. spc[m] = "queue" /\ to'[m] = to[m] /\ to[m] \in Connected /\ lock = m
    BY <1>3 DEF Stands, QueueSeesTable, LockDiscipline
  <2>2. CASE TickStep
    <3>1. TimePasses
      BY <2>1, <2>2 DEF TickStep, TickStart, TickEnd, TickCondemn, TickPing, TickDrop,
                        LockDiscipline
    <3> QED
      BY <2>1, <3>1 DEF TimePasses, Connected
  <2>3. \A s \in Sessions : ~TableTask(s)
    BY <2>1 DEF TableTask, Register, Evict, Insert, Refresh, Cleanup, LockDiscipline
  <2>4. ASSUME NEW n \in Messages, LockTask(n) PROVE Connected' = Connected
    BY <2>4 DEF LockTask, SendAcquire, ReportSent, ReportFailed, Connected
  <2>5. CASE LeavesTable
    BY <2>1, <2>5 DEF LeavesTable, Connected
  <2> QED
    BY <2>1, <2>2, <2>3, <2>4, <2>5, StepKinds
<1> QED
  BY <1>1, <1>2, <1>3, SendMoves

\* Nothing is put into a session before it has its entry, and it ends empty.
LEMMA TidyStep == IInv /\ QueueSeesTable /\ Tidy /\ [Next]_vars => Tidy'
<1> SUFFICES ASSUME IInv, QueueSeesTable, Tidy, [Next]_vars PROVE Tidy'
  OBVIOUS
<1> USE NamesAssumption, LimitsAssumption
    DEF NamesAssumption, LimitsAssumption, IInv, TypeOK, SessionType, OutType,
        SetupPc, LoopPc, Tidy
<1>1. CASE UNCHANGED <<pc, cur, out>>
  BY <1>1
<1>2. ASSUME NEW s \in Sessions, Setup(s) PROVE Tidy'
  BY <1>2 DEF Setup, HandshakeFails, Register, Evict, Insert, Announce
<1>3. ASSUME NEW s \in Sessions, NEW p \in Peers \cup {Nobody}, NEW w, Handshake(s, p, w),
             UNCHANGED <<out, cur>>
      PROVE  Tidy'
  BY <1>3 DEF Handshake
<1>4. ASSUME NEW s \in Sessions, WriteDone(s) \/ WriteFails(s) \/ ReadFails(s) \/ Deliver(s)
      PROVE  Tidy'
  <2>1. CASE WriteDone(s) \/ WriteFails(s)
    BY <2>1 DEF WriteDone, WriteFails, Continue
  <2>2. CASE ReadFails(s)
    BY <2>2 DEF ReadFails
  <2>3. CASE Deliver(s)
    BY <2>3 DEF Deliver, Continue
  <2> QED
    BY <1>4, <2>1, <2>2, <2>3
<1>5. ASSUME NEW s \in Sessions, Refresh(s) \/ Cleanup(s) \/ Close(s) PROVE Tidy'
  BY <1>5 DEF Refresh, Cleanup, Close
<1>6. ASSUME NEW s \in Sessions, TakePacket(s) \/ Reply(s) PROVE Tidy'
  BY <1>6 DEF TakePacket, Reply, Continue
<1>7. ASSUME NEW s \in Sessions, NEW k \in Incoming, ReadPacket(s, k) PROVE Tidy'
  BY <1>7 DEF ReadPacket
<1>8. ASSUME NEW p \in Connected, NEW k, UNCHANGED <<pc, cur>>,
             out' = [out EXCEPT ![connections[p].session] = Append(@, k)]
      PROVE  Tidy'
  <2>1. PICK x : x = connections[p].session /\ pc[x] \notin {"free", "handshake"}
    BY DEF EntryIsLive
  <2> QED
    BY <1>8, <2>1
<1>9. ASSUME NEW p \in todo, TickPing(p) PROVE Tidy'
  <2>1. p \in Connected
    BY <1>9 DEF TickPing, TickSeesTable
  <2> QED
    BY <1>8, <1>9, <2>1 DEF TickPing
<1>10. ASSUME NEW m \in Messages, Queue(m) PROVE Tidy'
  <2>1. to[m] \in Connected
    BY <1>10 DEF Queue, At, QueueSeesTable
  <2> QED
    BY <1>8, <1>10, <2>1 DEF Queue
<1>11. ASSUME NEW m \in Messages, NEW s \in Sessions, Dial(m, s) PROVE Tidy'
  <2>1. to[m] \in Peers
    BY <1>11 DEF Dial, At, SendingType
  <2> QED
    BY <1>3, <1>11, <2>1 DEF Dial
<1>12. ASSUME NEW s \in Sessions, NEW p \in Peers, OpenChat(s, p) \/ Accept(s, p) PROVE Tidy'
  BY <1>3, <1>12 DEF OpenChat, Accept
<1>13. ASSUME NEW m \in Messages,
              \/ NoDial(m) \/ SendAcquire(m) \/ ReportSent(m) \/ ReportFailed(m)
              \/ \E p \in Peers : Send(m, p)
       PROVE  Tidy'
  BY <1>1, <1>13 DEF NoDial, SendAcquire, ReportSent, ReportFailed, Send, session
<1>14. CASE \/ TimePasses \/ TickStart \/ TickEnd \/ HandleEvent \/ UNCHANGED vars
            \/ \E p : TickCondemn(p) \/ TickDrop(p)
  BY <1>1, <1>14 DEF TimePasses, TickStart, TickEnd, HandleEvent, TickCondemn, TickDrop,
                     session, vars
<1> QED
  BY <1>2, <1>4, <1>5, <1>6, <1>7, <1>9, <1>10, <1>11, <1>12, <1>13, <1>14
     DEF Next, Heartbeat, User, Loop, SendTask
-----------------------------------------------------------------------------
(* Moves of messages.                                                      *)

\* A step that moves no message: packets of the protocol come and go, and a
\* session changes its peer only while it carries nothing.
StillCarried ==
    /\ written' = written
    /\ \A m \in Messages, s \in Sessions, i \in Slots :
          /\ Carries(s, i, m)' <=> Carries(s, i, m)
          /\ Carries(s, i, m) => peer'[s] = peer[s]

\* An append of a Ping or a Pong moves none.
LEMMA PingMovesNone ==
  ASSUME TypeOK, NEW x \in Sessions, NEW k \in {"Ping", "Pong"},
         out' = [out EXCEPT ![x] = Append(@, k)], peer' = peer, written' = written,
         \A s \in Sessions, m \in Messages : cur'[s] = m <=> cur[s] = m
  PROVE  StillCarried
<1> SUFFICES ASSUME NEW m \in Messages, NEW s \in Sessions, NEW i \in Slots
             PROVE  Carries(s, i, m)' <=> Carries(s, i, m)
  BY DEF StillCarried
<1>1. CASE i = 0
  BY <1>1 DEF Carries
<1>2. CASE i # 0
  <2>1. k \in Packet /\ k # m
    BY NamesAssumption DEF NamesAssumption, Packet
  <2>2. Holds(s, i, m)' <=> Holds(s, i, m)
    BY <1>2, <2>1, AppendHolds DEF TypeOK
  <2> QED
    BY <1>2, <2>2 DEF Carries
<1> QED
  BY <1>1, <1>2

\* The steps that move messages are those of the queue and of the task.
LEMMA MoveKinds ==
  ASSUME IInv, QueueSeesTable, Tidy, [Next]_vars
  PROVE  \/ \E m \in Messages : Queue(m)
         \/ \E s \in Sessions : TakePacket(s) \/ WriteDone(s) \/ WriteFails(s) \/ Close(s)
         \/ StillCarried
<1> USE NamesAssumption, LimitsAssumption
    DEF NamesAssumption, LimitsAssumption, IInv, TypeOK, SessionType
<1>1. ASSUME UNCHANGED <<out, written>>,
             \A s \in Sessions, m \in Messages : cur'[s] = m <=> cur[s] = m,
             \A s \in Sessions : pc[s] \notin {"free", "handshake"} => peer'[s] = peer[s]
      PROVE  StillCarried
  <2>1. \A m \in Messages, s \in Sessions, i \in Slots : Carries(s, i, m)' <=> Carries(s, i, m)
    BY <1>1 DEF Carries, Holds
  <2>2. ASSUME NEW m \in Messages, NEW s \in Sessions, NEW i \in Slots, Carries(s, i, m)
        PROVE  pc[s] \notin {"free", "handshake"}
    <3>1. CASE i = 0
      BY <2>2, <3>1 DEF Carries, Tidy
    <3>2. CASE i # 0
      <4>1. i \in Nat /\ i >= 1 /\ i <= Len(out[s])
        BY <2>2, <3>2 DEF Carries, Holds, Slots
      <4>2. out[s] # <<>>
        BY <4>1
      <4> QED
        BY <4>2 DEF Tidy
    <3> QED
      BY <3>1, <3>2
  <2> QED
    BY <1>1, <2>1, <2>2 DEF StillCarried
<1>2. ASSUME NEW p \in todo, TickPing(p) PROVE StillCarried
  <2>1. connections[p].session \in Sessions
    BY <1>2 DEF TickPing, TickSeesTable, TableType, ActiveConn, HeartType
  <2> QED
    BY <1>2, <2>1, PingMovesNone DEF TickPing
<1>3. ASSUME NEW s \in Sessions, Reply(s) PROVE StillCarried
  <2>1. \A t \in Sessions, m \in Messages : cur'[t] = m <=> cur[t] = m
    BY <1>3 DEF Reply, Continue, Tidy
  <2> QED
    BY <1>3, <2>1, PingMovesNone DEF Reply
<1>4. ASSUME NEW s \in Sessions, Setup(s) PROVE StillCarried
  BY <1>1, <1>4 DEF Setup, HandshakeFails, Register, Evict, Insert, Announce
<1>5. ASSUME NEW s \in Sessions, NEW k \in Incoming, ReadPacket(s, k) PROVE StillCarried
  <2>1. \A t \in Sessions, m \in Messages : cur'[t] = m <=> cur[t] = m
    BY <1>5 DEF ReadPacket, Tidy
  <2> QED
    BY <1>1, <1>5, <2>1 DEF ReadPacket
<1>6. ASSUME NEW s \in Sessions, Deliver(s) PROVE StillCarried
  <2>1. \A t \in Sessions, m \in Messages : cur'[t] = m <=> cur[t] = m
    BY <1>6 DEF Deliver, Continue, Tidy
  <2> QED
    BY <1>1, <1>6, <2>1 DEF Deliver
<1>7. ASSUME NEW s \in Sessions, ReadFails(s) \/ Refresh(s) \/ Cleanup(s) PROVE StillCarried
  BY <1>1, <1>7 DEF ReadFails, Refresh, Cleanup
<1>8. ASSUME NEW s \in Sessions, NEW p, NEW w, Handshake(s, p, w),
             UNCHANGED <<out, cur, written>>
      PROVE  StillCarried
  BY <1>1, <1>8 DEF Handshake
<1>9. ASSUME NEW s \in Sessions,
             \/ \E p \in Peers : OpenChat(s, p) \/ Accept(s, p)
             \/ \E m \in Messages : Dial(m, s)
      PROVE  StillCarried
  BY <1>8, <1>9 DEF OpenChat, Accept, Dial
<1>10. ASSUME NEW m \in Messages,
              \/ NoDial(m) \/ SendAcquire(m) \/ ReportSent(m) \/ ReportFailed(m)
              \/ \E p \in Peers : Send(m, p)
       PROVE  StillCarried
  BY <1>1, <1>10 DEF NoDial, SendAcquire, ReportSent, ReportFailed, Send, session
<1>11. CASE \/ TimePasses \/ TickStart \/ TickEnd \/ HandleEvent \/ UNCHANGED vars
            \/ \E p : TickCondemn(p) \/ TickDrop(p)
  BY <1>1, <1>11 DEF TimePasses, TickStart, TickEnd, HandleEvent, TickCondemn, TickDrop,
                     session, vars
<1> QED
  BY <1>2, <1>3, <1>4, <1>5, <1>6, <1>7, <1>9, <1>10, <1>11
     DEF Next, Heartbeat, User, Loop, SendTask
\* The place a message is queued to.
Entry(n) == connections[to[n]].session

\* Queueing adds one place, in the channel of the recipient's entry.
LEMMA QueueMoves ==
  ASSUME IInv, QueueSeesTable, NEW n \in Messages, Queue(n)
  PROVE  /\ Entry(n) \in Sessions /\ peer[Entry(n)] = to[n]
         /\ Len(out[Entry(n)]) + 1 \in Slots \ {0}
         /\ \A m \in Messages, s \in Sessions, i \in Slots :
              Carries(s, i, m)' <=> \/ Carries(s, i, m)
                                    \/ m = n /\ s = Entry(n) /\ i = Len(out[Entry(n)]) + 1
<1> USE DEF IInv, TypeOK
<1>1. to[n] \in Connected
  BY DEF Queue, At, QueueSeesTable
<1>2. Entry(n) \in Sessions /\ peer[Entry(n)] = to[n]
  BY <1>1 DEF Entry, EntryIsLive, TableType, ActiveConn
<1>3. Len(out[Entry(n)]) < OutCap /\ out' = [out EXCEPT ![Entry(n)] = Append(@, n)]
  BY DEF Queue, Entry
<1>4. Len(out[Entry(n)]) \in Nat
  BY <1>2 DEF OutType
<1>5. Len(out[Entry(n)]) + 1 \in Slots \ {0}
  BY <1>3, <1>4, LimitsAssumption DEF LimitsAssumption, Slots
<1>6. ASSUME NEW m \in Messages, NEW s \in Sessions, NEW i \in Slots
      PROVE  Carries(s, i, m)' <=> \/ Carries(s, i, m)
                                   \/ m = n /\ s = Entry(n) /\ i = Len(out[Entry(n)]) + 1
  <2>1. CASE i = 0
    BY <1>5, <2>1 DEF Carries, Queue
  <2>2. CASE i # 0
    <3>1. n \in Packet
      BY DEF Packet
    <3>2. Holds(s, i, m)' <=>
            Holds(s, i, m) \/ (s = Entry(n) /\ i = Len(out[Entry(n)]) + 1 /\ m = n)
      BY <1>2, <1>3, <2>2, <3>1, AppendHolds
    <3> QED
      BY <2>2, <3>2 DEF Carries
  <2> QED
    BY <2>1, <2>2
<1> QED
  BY <1>2, <1>5, <1>6

\* Taking the head of the channel moves what the session carries by one place.
LEMMA TakeMoves ==
  ASSUME TypeOK, Tidy, NEW s \in Sessions, TakePacket(s),
         NEW m \in Messages, NEW t \in Sessions, NEW i \in Slots
  PROVE  Carries(t, i, m)' <=> IF t = s THEN i + 1 \in Slots /\ Carries(s, i + 1, m)
                                        ELSE Carries(t, i, m)
<1> USE DEF TypeOK, SessionType
<1>0. i \in Nat
  BY LimitsAssumption DEF LimitsAssumption, Slots
<1>1. CASE t # s
  BY <1>1 DEF TakePacket, Carries, Holds, OutType
<1>2. CASE t = s /\ i = 0
  <2>1. cur'[s] = Head(out[s]) /\ out[s] # <<>>
    BY DEF TakePacket
  <2>2. 1 \in Slots /\ (Head(out[s]) = m <=> Holds(s, 1, m))
    BY <2>1, HeadHolds
  <2> QED
    BY <1>2, <2>1, <2>2 DEF Carries
<1>3. CASE t = s /\ i # 0
  <2>1. Holds(s, i, m)' <=> i + 1 \in Slots /\ Holds(s, i + 1, m)
    BY <1>3, TailHolds DEF TakePacket
  <2> QED
    BY <1>0, <1>3, <2>1 DEF Carries
<1> QED
  BY <1>1, <1>2, <1>3

\* A write, done or failed, takes the message from the hand.
LEMMA WriteMoves ==
  ASSUME TypeOK, NEW s \in Sessions, WriteDone(s) \/ WriteFails(s),
         NEW m \in Messages, NEW t \in Sessions, NEW i \in Slots
  PROVE  Carries(t, i, m)' <=> Carries(t, i, m) /\ ~(t = s /\ i = 0)
BY NamesAssumption
   DEF NamesAssumption, TypeOK, SessionType, WriteDone, WriteFails, Continue, Carries, Holds

\* A session that ends drops everything it carries.
LEMMA CloseMoves ==
  ASSUME TypeOK, Tidy, NEW s \in Sessions, Close(s),
         NEW m \in Messages, NEW t \in Sessions, NEW i \in Slots
  PROVE  Carries(t, i, m)' <=> Carries(t, i, m) /\ t # s
<1> USE DEF TypeOK, SessionType
<1>0. i \in Nat
  BY LimitsAssumption DEF LimitsAssumption, Slots
<1>1. CASE t # s
  BY <1>1 DEF Close, Carries, Holds, OutType
<1>2. CASE t = s /\ i = 0
  BY <1>2 DEF Close, Carries, Tidy
<1>3. CASE t = s /\ i # 0
  <2>1. out'[s] = <<>>
    BY DEF Close, OutType
  <2>2. Len(<<>>) = 0
    OBVIOUS
  <2> QED
    BY <1>0, <1>3, <2>1, <2>2 DEF Carries, Holds
<1> QED
  BY <1>1, <1>2, <1>3

\* A send that has handed its message over stays so.
LEMMA HandedStays ==
  ASSUME IInv, [Next]_vars, NEW m \in Messages, spc[m] \in HandedPc
  PROVE  spc'[m] \in HandedPc /\ to'[m] = to[m]
<1>1. ReportSent(m) => spc'[m] = "sent" /\ to' = to
  BY DEF ReportSent, At, IInv, TypeOK, SendingType
<1>2. /\ \A p \in Peers : ~Send(m, p)
      /\ ~SendAcquire(m) /\ ~Queue(m) /\ ~ReportFailed(m) /\ ~Waits(m)
  BY DEF HandedPc, Send, SendAcquire, Queue, ReportFailed, At, Waits
<1> QED
  BY <1>1, <1>2, SendMoves DEF Stands, HandedPc

\* Messages stay in one place on their way, and on their way to the recipient.
LEMMA CarryStep == IInv /\ CarryInv /\ [Next]_vars => CarryInv'
<1> SUFFICES ASSUME IInv, CarryInv, [Next]_vars
             PROVE  OnePlace' /\ ForItsPeer' /\ WrittenAccepted'
  BY QueueSeesStep, TidyStep DEF CarryInv
<1> USE DEF CarryInv
<1>0. TypeOK
  BY DEF IInv
<1>1. CASE StillCarried
  <2>1. OnePlace'
    BY <1>1 DEF StillCarried, OnePlace, Slots
  <2>2. ForItsPeer'
    BY <1>1, HandedStays DEF StillCarried, ForItsPeer, Slots
  <2>3. WrittenAccepted'
    BY <1>0, <1>1, HandedStays DEF StillCarried, WrittenAccepted, TypeOK, UIType
  <2> QED
    BY <2>1, <2>2, <2>3
<1>2. ASSUME NEW n \in Messages, Queue(n) PROVE OnePlace' /\ ForItsPeer' /\ WrittenAccepted'
  <2>1. spc[n] \notin HandedPc /\ spc'[n] \in HandedPc /\ UNCHANGED <<to, peer, written>>
    BY <1>0, <1>2 DEF Queue, At, HandedPc, TypeOK, SendingType
  <2>2. \A s \in Sessions, i \in Slots : ~Carries(s, i, n)
    BY <2>1 DEF ForItsPeer
  <2>3. OnePlace'
    BY <1>2, <2>2, QueueMoves DEF OnePlace, Slots
  <2>4. ForItsPeer'
    BY <1>2, <2>1, QueueMoves, HandedStays DEF ForItsPeer, WrittenAccepted, Slots
  <2>5. WrittenAccepted'
    BY <1>0, <2>1, HandedStays DEF WrittenAccepted, TypeOK, UIType
  <2> QED
    BY <2>3, <2>4, <2>5
<1>3. ASSUME NEW s \in Sessions, TakePacket(s)
      PROVE  OnePlace' /\ ForItsPeer' /\ WrittenAccepted'
  <2>1. UNCHANGED <<to, spc, peer, written>>
    BY <1>3 DEF TakePacket, sending
  <2>2. \A i \in Slots : i \in Int
    BY DEF Slots
  <2>3. OnePlace'
    BY <1>0, <1>3, <2>2, TakeMoves DEF OnePlace, Slots
  <2>4. ForItsPeer'
    BY <1>0, <1>3, <2>1, TakeMoves DEF ForItsPeer, Slots
  <2> QED
    BY <2>1, <2>3, <2>4 DEF WrittenAccepted
<1>4. ASSUME NEW s \in Sessions, WriteDone(s) \/ WriteFails(s)
      PROVE  OnePlace' /\ ForItsPeer' /\ WrittenAccepted'
  <2>1. /\ UNCHANGED <<to, spc, peer>>
        /\ written' \in {written, written \cup ({cur[s]} \cap Messages)}
    BY <1>4 DEF WriteDone, WriteFails, sending
  <2>2. 0 \in Slots
    BY LimitsAssumption DEF LimitsAssumption, Slots
  <2>3. ASSUME NEW m \in Messages, cur[s] = m
        PROVE  Carries(s, 0, m)
    BY <2>3 DEF Carries
  <2>4. OnePlace'
    BY <1>0, <1>4, WriteMoves DEF OnePlace, Slots
  <2>5. ForItsPeer'
    BY <1>0, <1>4, <2>1, <2>2, <2>3, WriteMoves DEF OnePlace, ForItsPeer, Slots
  <2>6. WrittenAccepted'
    BY <2>1, <2>2, <2>3 DEF ForItsPeer, WrittenAccepted
  <2> QED
    BY <2>4, <2>5, <2>6
<1>5. ASSUME NEW s \in Sessions, Close(s) PROVE OnePlace' /\ ForItsPeer' /\ WrittenAccepted'
  <2>1. UNCHANGED <<to, spc, written>> /\ \A t \in Sessions : t # s => peer'[t] = peer[t]
    BY <1>0, <1>5 DEF Close, sending, TypeOK, SessionType
  <2>2. OnePlace'
    BY <1>0, <1>5, CloseMoves DEF OnePlace, Slots
  <2>3. ForItsPeer'
    BY <1>0, <1>5, <2>1, CloseMoves DEF ForItsPeer, Slots
  <2> QED
    BY <2>1, <2>2, <2>3 DEF WrittenAccepted
<1> QED
  BY <1>1, <1>2, <1>3, <1>4, <1>5, MoveKinds
-----------------------------------------------------------------------------
(* The first theorem.                                                      *)

\* Nothing is carried at the start.
LEMMA InitCarry == Init => CarryInv
<1> SUFFICES ASSUME Init PROVE CarryInv
  OBVIOUS
<1>1. \A s \in Sessions : out[s] = <<>> /\ cur[s] = Nobody
  BY DEF Init
<1>2. ASSUME NEW s \in Sessions, NEW i \in Slots, NEW m \in Messages
      PROVE  ~Carries(s, i, m)
  <2>1. CASE i = 0
    BY <1>1, <2>1, NamesAssumption DEF NamesAssumption, Carries
  <2>2. CASE i # 0
    <3>1. i \in Nat /\ i >= 1 /\ Len(out[s]) = 0
      BY <1>1, <2>2, LimitsAssumption DEF LimitsAssumption, Slots
    <3> QED
      BY <2>2, <3>1 DEF Carries, Holds
  <2> QED
    BY <2>1, <2>2
<1>3. Tidy
  BY <1>1, NamesAssumption DEF NamesAssumption, Tidy
<1> QED
  BY <1>2, <1>3 DEF Init, CarryInv, QueueSeesTable, OnePlace, ForItsPeer, WrittenAccepted

\* In every reachable state a message is in one place and on its way to its peer.
LEMMA CarriageInvariance == Spec => [](IInv /\ CarryInv)
BY InitIInv, InitCarry, StepIInv, CarryStep, PTL DEF Spec

\* Places counted as CarriedOnceToRecipient counts them.
LEMMA PlacesCounted ==
  ASSUME OnePlace, NEW m \in Messages
  PROVE  /\ Cardinality(InHand(m)) + Cardinality(Queued(m)) <= 1
         /\ HandedOver(m) <=> InFlight(m)
<1>0. \A i : i \in 1..OutCap <=> i \in Slots /\ i # 0
  BY LimitsAssumption DEF LimitsAssumption, Slots
<1>1. 0 \in Slots
  BY LimitsAssumption DEF LimitsAssumption, Slots
<1>2. \A s \in Sessions : s \in InHand(m) <=> Carries(s, 0, m)
  BY DEF InHand, Carries
<1>3. ASSUME NEW q
      PROVE  q \in Queued(m) <=> \E s \in Sessions, i \in Slots \ {0} :
                                    q = <<s, i>> /\ Carries(s, i, m)
  BY <1>0 DEF Queued, Carries
<1>4. HandedOver(m) <=> InFlight(m)
  <2>1. ASSUME NEW s \in InHand(m) PROVE InFlight(m)
    BY <1>1, <1>2 DEF InFlight, InHand
  <2>2. ASSUME NEW q \in Queued(m) PROVE InFlight(m)
    BY <1>3 DEF InFlight
  <2>3. ASSUME NEW s \in Sessions, NEW i \in Slots, Carries(s, i, m) PROVE HandedOver(m)
    <3>1. CASE i = 0
      BY <1>2, <2>3, <3>1 DEF HandedOver
    <3>2. CASE i # 0
      BY <1>3, <2>3, <3>2 DEF HandedOver
    <3> QED
      BY <3>1, <3>2
  <2> QED
    BY <2>1, <2>2, <2>3 DEF HandedOver, InFlight
<1>5. CASE ~InFlight(m)
  <2>1. InHand(m) = {} /\ Queued(m) = {}
    BY <1>4, <1>5 DEF HandedOver
  <2> QED
    BY <1>4, <2>1, FS_EmptySet
<1>6. ASSUME NEW s \in Sessions, NEW i \in Slots, Carries(s, i, m)
      PROVE  Cardinality(InHand(m)) + Cardinality(Queued(m)) <= 1
  <2>1. \A t \in Sessions, j \in Slots : Carries(t, j, m) => t = s /\ j = i
    BY <1>6 DEF OnePlace
  <2>2. CASE i = 0
    <3>1. InHand(m) = {s}
      BY <1>1, <1>2, <1>6, <2>1, <2>2 DEF InHand
    <3>2. Queued(m) = {}
      BY <1>3, <2>1, <2>2
    <3> QED
      BY <3>1, <3>2, FS_EmptySet, FS_Singleton
  <2>3. CASE i # 0
    <3>1. InHand(m) = {}
      BY <1>1, <1>2, <2>1, <2>3 DEF InHand
    <3>2. Queued(m) = {<<s, i>>}
      BY <1>3, <1>6, <2>1, <2>3
    <3>3. Cardinality(Queued(m)) = 1
      BY <3>2, FS_Singleton, Zenon
    <3>4. Cardinality(InHand(m)) = 0
      BY <3>1, FS_EmptySet, Zenon
    <3> QED
      BY <3>3, <3>4
  <2> QED
    BY <2>2, <2>3
<1> QED
  BY <1>4, <1>5, <1>6 DEF InFlight

\* FR-MSG-06: however many sessions, evictions and replaced entries there are, a
\* message is in one channel or one hand at a time, is not carried any more once
\* it is written, and never in the hands of another peer's session.
THEOREM CarriedOnce == Spec => []CarriedOnceToRecipient
<1>1. IInv /\ CarryInv => CarriedOnceToRecipient
  <2> SUFFICES ASSUME CarryInv, NEW m \in Messages
               PROVE  /\ Cardinality(InHand(m)) + Cardinality(Queued(m)) <= 1
                      /\ m \in written => ~HandedOver(m)
                      /\ \A s \in InHand(m) \cup {q[1] : q \in Queued(m)} : peer[s] = to[m]
    BY DEF CarriedOnceToRecipient
  <2>1. /\ Cardinality(InHand(m)) + Cardinality(Queued(m)) <= 1
        /\ HandedOver(m) <=> InFlight(m)
    BY PlacesCounted DEF CarryInv
  <2>2. m \in written => ~InFlight(m)
    BY DEF CarryInv, ForItsPeer, InFlight
  <2>3. 0 \in Slots /\ 1..OutCap \subseteq Slots \ {0}
    BY LimitsAssumption DEF LimitsAssumption, Slots
  <2>4. ASSUME NEW s \in InHand(m) PROVE peer[s] = to[m]
    BY <2>3 DEF InHand, CarryInv, ForItsPeer, Carries
  <2>5. ASSUME NEW q \in Queued(m) PROVE peer[q[1]] = to[m]
    <3>1. q[1] \in Sessions /\ q[2] \in Slots \ {0} /\ Holds(q[1], q[2], m)
      BY <2>3 DEF Queued
    <3> QED
      BY <3>1 DEF CarryInv, ForItsPeer, Carries
  <2> QED
    BY <2>1, <2>2, <2>4, <2>5
<1> QED
  BY <1>1, CarriageInvariance, PTL
-----------------------------------------------------------------------------
(* What the user is shown.                                                 *)

\* Event i of the channel tells how the send of m went.
Verdict(i, m) == events[i].kind \in {"Sent", "Failed"} /\ events[i].of = m

\* There is one at most under way.
OneVerdict ==
    \A m \in Messages : \A i, j \in 1..Len(events) : Verdict(i, m) /\ Verdict(j, m) => i = j

\* It is the outcome of a send that has ended, and nothing was shown before it.
VerdictIsOutcome ==
    \A m \in Messages : \A i \in 1..Len(events) : Verdict(i, m) =>
        /\ status[m] = "Pending"
        /\ spc[m] = IF events[i].kind = "Sent" THEN "sent" ELSE "failed"

\* A message is Pending from the call of send to its end at least.
StatusFollows ==
    \A m \in Messages :
        /\ spc[m] = "none" <=> status[m] = "None"
        /\ spc[m] \notin {"none", "sent", "failed"} => status[m] = "Pending"

ShownInv == OneVerdict /\ VerdictIsOutcome /\ StatusFollows

\* A step that is not the start or the end of the send of m.
Midway(m) ==
    spc'[m] = spc[m] \/ {spc[m], spc'[m]} \cap {"none", "sent", "failed"} = {}

\* A step that neither brings nor takes a verdict: the other events.
Silence ==
    /\ status' = status
    /\ \E kind \in {"Online", "Offline", "Received"} : \E x :
         events' \in {events, Append(events, Event(kind, x))}
    /\ \A m \in Messages : Midway(m)

\* Verdicts come from the two reports and go to HandleEvent.
LEMMA VerdictKinds ==
  ASSUME IInv, [Next]_vars
  PROVE  \/ \E m \in Messages : ReportSent(m) \/ ReportFailed(m) \/ \E p \in Peers : Send(m, p)
         \/ HandleEvent
         \/ Silence
<1> USE DEF IInv, TypeOK, SendingType, Midway, Event, Emit
<1>1. CASE UNCHANGED <<events, ui, sending>>
  BY <1>1 DEF Silence, ui, sending
<1>2. ASSUME NEW kind \in {"Online", "Offline", "Received"}, NEW x, Emit(kind, x), UNCHANGED ui,
             \A m \in Messages : Midway(m)
      PROVE  Silence
  BY <1>2 DEF Silence, ui
<1>3. ASSUME NEW s \in Sessions, HandshakeFails(s) \/ Announce(s) PROVE Silence
  <2>1. ASSUME NEW m \in Messages PROVE Midway(m)
    <3>1. CASE by[s] = Nobody
      BY <1>3, <3>1 DEF HandshakeFails, Announce, Resume
    <3>2. CASE by[s] # Nobody
      BY <1>3, <3>2 DEF HandshakeFails, Announce, Resume, OneSetupPerSend
    <3> QED
      BY <3>1, <3>2
  <2>2. CASE HandshakeFails(s)
    BY <2>1, <2>2 DEF HandshakeFails, Silence, ui
  <2>3. CASE Announce(s)
    BY <1>2, <2>1, <2>3 DEF Announce
  <2> QED
    BY <1>3, <2>2, <2>3
<1>4. ASSUME NEW m \in Messages,
             NoDial(m) \/ SendAcquire(m) \/ Queue(m) \/ \E s \in Sessions : Dial(m, s)
      PROVE  Silence
  <2>1. UNCHANGED <<events, ui>>
    BY <1>4 DEF NoDial, SendAcquire, Queue, Dial
  <2>2. \A n \in Messages : Midway(n)
    BY <1>4 DEF NoDial, SendAcquire, Queue, Dial, At
  <2> QED
    BY <2>1, <2>2 DEF Silence, ui
<1>5. ASSUME NEW p, TickDrop(p) PROVE Silence
  <2>1. \A n \in Messages : Midway(n)
    BY <1>5 DEF TickDrop, sending
  <2> QED
    BY <1>2, <1>5, <2>1 DEF TickDrop
<1>6. ASSUME NEW s \in Sessions, Evict(s) \/ Deliver(s) \/ Close(s) PROVE Silence
  <2>1. \A n \in Messages : Midway(n)
    BY <1>6 DEF Evict, Deliver, Close, sending
  <2> QED
    BY <1>2, <1>6, <2>1 DEF Evict, Deliver, Close
<1>7. CASE \/ TimePasses \/ TickStart \/ TickEnd \/ UNCHANGED vars
           \/ \E p : TickCondemn(p) \/ TickPing(p)
           \/ \E s \in Sessions, p \in Peers : OpenChat(s, p) \/ Accept(s, p)
  BY <1>1, <1>7 DEF TimePasses, TickStart, TickEnd, TickCondemn, TickPing, OpenChat, Accept, vars
<1>8. ASSUME NEW s \in Sessions,
             \/ Register(s) \/ Insert(s) \/ TakePacket(s) \/ WriteDone(s) \/ WriteFails(s)
             \/ ReadFails(s) \/ Refresh(s) \/ Reply(s) \/ Cleanup(s)
             \/ \E k \in Incoming : ReadPacket(s, k)
      PROVE  Silence
  <2>1. UNCHANGED <<events, ui, sending>>
    BY <1>8 DEF Register, Insert, TakePacket, WriteDone, WriteFails, ReadFails, Refresh, Reply,
                Cleanup, ReadPacket
  <2> QED
    BY <2>1 DEF Silence, ui, sending
<1> QED
  BY <1>3, <1>4, <1>5, <1>6, <1>7, <1>8 DEF Next, Heartbeat, User, Setup, Loop, SendTask

\* An event added to the channel is its last; those before it stay.
LEMMA EventAdded ==
  ASSUME TypeOK, NEW kind, NEW x, events' = Append(events, Event(kind, x))
  PROVE  /\ Len(events') = Len(events) + 1 /\ Len(events) \in Nat
         /\ \A i \in 1..Len(events) : events'[i] = events[i]
         /\ events'[Len(events')] = [kind |-> kind, of |-> x]
<1>1. events \in Seq(NetworkEvent)
  BY DEF TypeOK, EventsType
<1> QED
  BY <1>1 DEF Event

\* The user is told once how a send went, and after it was shown as Pending.
LEMMA ShownStep == IInv /\ ShownInv /\ [Next]_vars => ShownInv'
<1> SUFFICES ASSUME IInv, ShownInv, [Next]_vars PROVE ShownInv'
  OBVIOUS
<1> USE DEF ShownInv
<1>0. TypeOK
  BY DEF IInv
<1>a. spc \in [Messages -> SendPc] /\ Len(events) \in Nat
      /\ status \in [Messages -> {"None", "Pending", "Sent", "Failed"}]
  BY <1>0 DEF TypeOK, SendingType, EventsType, UIType
<1>1. CASE Silence
  <2>1. \A m \in Messages : Midway(m) /\ status'[m] = status[m]
    BY <1>1 DEF Silence
  <2>2. /\ Len(events') \in Nat /\ Len(events') >= Len(events)
        /\ \A i \in 1..Len(events') : \A m :
              Verdict(i, m)' <=> i <= Len(events) /\ Verdict(i, m)
        /\ \A i \in 1..Len(events) : events'[i] = events[i]
    <3>1. PICK kind, x :
            /\ kind \in {"Online", "Offline", "Received"}
            /\ events' \in {events, Append(events, Event(kind, x))}
      BY <1>1 DEF Silence
    <3>2. CASE events' = events
      BY <1>a, <3>2 DEF Verdict
    <3>3. CASE events' = Append(events, Event(kind, x))
      <4>a. /\ Len(events') = Len(events) + 1
            /\ \A i \in 1..Len(events) : events'[i] = events[i]
            /\ events'[Len(events')] = [kind |-> kind, of |-> x]
        BY <1>0, <3>3, EventAdded
      <4>1. /\ Len(events') = Len(events) + 1
            /\ \A i \in 1..Len(events) : events'[i] = events[i]
            /\ events'[Len(events')].kind \notin {"Sent", "Failed"}
        BY <3>1, <4>a
      <4>2. ASSUME NEW i \in 1..Len(events'), NEW m
            PROVE  Verdict(i, m)' <=> i <= Len(events) /\ Verdict(i, m)
        <5>1. CASE i <= Len(events)
          BY <1>a, <4>1, <5>1 DEF Verdict
        <5>2. CASE i = Len(events')
          BY <1>a, <4>1, <5>2 DEF Verdict
        <5> QED
          BY <1>a, <4>1, <5>1, <5>2
      <4> QED
        BY <1>a, <4>1, <4>2
    <3> QED
      BY <3>1, <3>2, <3>3
  <2>3. OneVerdict'
    BY <1>a, <2>2 DEF OneVerdict
  <2>4. VerdictIsOutcome'
    <3> SUFFICES ASSUME NEW m \in Messages, NEW i \in 1..Len(events'), Verdict(i, m)'
                 PROVE  /\ status'[m] = "Pending"
                        /\ spc'[m] = IF events'[i].kind = "Sent" THEN "sent" ELSE "failed"
      BY DEF VerdictIsOutcome
    <3>1. i \in 1..Len(events) /\ Verdict(i, m) /\ events'[i] = events[i]
      BY <1>a, <2>2
    <3>2. /\ status[m] = "Pending"
          /\ spc[m] = IF events[i].kind = "Sent" THEN "sent" ELSE "failed"
      BY <3>1 DEF VerdictIsOutcome
    <3>3. spc'[m] = spc[m]
      BY <2>1, <3>2 DEF Midway
    <3> QED
      BY <2>1, <3>1, <3>2, <3>3
  <2>5. StatusFollows'
    BY <2>1 DEF StatusFollows, Midway
  <2> QED
    BY <2>3, <2>4, <2>5
<1>2. ASSUME NEW m \in Messages, ReportSent(m) \/ ReportFailed(m) PROVE ShownInv'
  <2>1. PICK kind \in {"Sent", "Failed"} :
          /\ events' = Append(events, Event(kind, m))
          /\ spc[m] \in {"accept", "reject"}
          /\ spc' = [spc EXCEPT ![m] = IF kind = "Sent" THEN "sent" ELSE "failed"]
          /\ status' = status
    BY <1>2 DEF ReportSent, ReportFailed, Emit, At, ui
  <2>2. /\ Len(events') = Len(events) + 1
        /\ \A i \in 1..Len(events) : events'[i] = events[i]
        /\ events'[Len(events')] = [kind |-> kind, of |-> m]
    BY <1>0, <2>1, EventAdded
  <2>3. \A i \in 1..Len(events) : ~Verdict(i, m)
    BY <2>1 DEF VerdictIsOutcome
  <2>4. \A i \in 1..Len(events') : \A n :
          Verdict(i, n)' <=> \/ i <= Len(events) /\ Verdict(i, n)
                             \/ i = Len(events') /\ n = m
    BY <1>a, <2>2 DEF Verdict
  <2>5. OneVerdict'
    BY <1>a, <2>2, <2>3, <2>4 DEF OneVerdict
  <2>6. VerdictIsOutcome'
    BY <1>a, <2>1, <2>2, <2>3, <2>4 DEF VerdictIsOutcome, StatusFollows
  <2>7. StatusFollows'
    BY <1>a, <2>1 DEF StatusFollows
  <2> QED
    BY <2>5, <2>6, <2>7
<1>3. ASSUME NEW m \in Messages, NEW p \in Peers, Send(m, p) PROVE ShownInv'
  <2>1. /\ spc[m] = "none" /\ spc' = [spc EXCEPT ![m] = "check"]
        /\ status' = [status EXCEPT ![m] = "Pending"] /\ events' = events
    BY <1>3 DEF Send, At
  <2>2. \A i \in 1..Len(events) : ~Verdict(i, m)
    BY <2>1 DEF VerdictIsOutcome
  <2>3. OneVerdict'
    BY <2>1 DEF OneVerdict, Verdict
  <2>4. VerdictIsOutcome'
    BY <1>a, <2>1, <2>2 DEF VerdictIsOutcome, Verdict
  <2>5. StatusFollows'
    BY <1>a, <2>1 DEF StatusFollows
  <2> QED
    BY <2>3, <2>4, <2>5
<1>4. CASE HandleEvent
  <2>1. /\ events \in Seq(NetworkEvent) /\ events # <<>> /\ events' = Tail(events)
        /\ spc' = spc
    BY <1>0, <1>4 DEF HandleEvent, TypeOK, EventsType, sending
  <2>2. /\ Len(events') = Len(events) - 1 /\ Len(events) \in Nat \ {0}
        /\ \A i \in 1..Len(events') : events'[i] = events[i + 1]
        /\ Head(events) = events[1]
    BY <2>1
  <2>3. \A i \in 1..Len(events') : \A n : Verdict(i, n)' <=> Verdict(i + 1, n)
    BY <2>2 DEF Verdict
  <2>4. \A i \in 1..Len(events') : i + 1 \in 1..Len(events)
    BY <2>2
  <2>5. status' = IF events[1].kind \in {"Sent", "Failed"}
                    THEN [status EXCEPT ![events[1].of] = events[1].kind] ELSE status
    BY <1>4, <2>2 DEF HandleEvent
  <2>6. ASSUME NEW n \in Messages
        PROVE  \/ status'[n] = status[n]
               \/ Verdict(1, n) /\ status'[n] \in {"Sent", "Failed"}
    BY <1>a, <2>5 DEF Verdict
  <2>7. OneVerdict'
    BY <2>2, <2>3, <2>4 DEF OneVerdict
  <2>8. VerdictIsOutcome'
    <3> SUFFICES ASSUME NEW n \in Messages, NEW i \in 1..Len(events'), Verdict(i, n)'
                 PROVE  /\ status'[n] = "Pending"
                        /\ spc'[n] = IF events'[i].kind = "Sent" THEN "sent" ELSE "failed"
      BY DEF VerdictIsOutcome
    <3>1. Verdict(i + 1, n) /\ i + 1 \in 1..Len(events) /\ i + 1 # 1 /\ 1 \in 1..Len(events)
      BY <2>2, <2>3, <2>4
    <3>2. ~Verdict(1, n)
      BY <3>1 DEF OneVerdict
    <3> QED
      BY <2>1, <2>2, <2>6, <3>1, <3>2 DEF VerdictIsOutcome
  <2>9. StatusFollows'
    <3>1. 1 \in 1..Len(events)
      BY <2>2
    <3>2. \A n \in Messages : Verdict(1, n) => spc[n] \in {"sent", "failed"}
      BY <3>1 DEF VerdictIsOutcome
    <3> QED
      BY <2>1, <2>6, <3>2 DEF StatusFollows
  <2> QED
    BY <2>7, <2>8, <2>9
<1> QED
  BY <1>1, <1>2, <1>3, <1>4, VerdictKinds
-----------------------------------------------------------------------------
(* Sending implements MessageLifecycle.                                    *)

\* The fate of a message, read off its places and the stage of its send.
FateIs ==
    \A m \in Messages :
        /\ Fate(m) = IF m \in written THEN "written"
                     ELSE IF InFlight(m) THEN "handed"
                     ELSE IF Stage(m) = "handed" THEN "lost" ELSE Stage(m)
        /\ m \in written => ~InFlight(m)
        /\ m \in written \/ InFlight(m) => Stage(m) = "handed"
        /\ Stage(m) \in {"idle", "pending", "rejected", "handed"}

LEMMA FateFact == IInv /\ CarryInv => FateIs
<1> SUFFICES ASSUME IInv, CarryInv, NEW m \in Messages
             PROVE  /\ Fate(m) = IF m \in written THEN "written"
                                 ELSE IF InFlight(m) THEN "handed"
                                 ELSE IF Stage(m) = "handed" THEN "lost" ELSE Stage(m)
                    /\ m \in written => ~InFlight(m)
                    /\ m \in written \/ InFlight(m) => Stage(m) = "handed"
                    /\ Stage(m) \in {"idle", "pending", "rejected", "handed"}
  BY DEF FateIs
<1>1. spc[m] \in SendPc
  BY DEF IInv, TypeOK, SendingType
<1>2. HandedOver(m) <=> InFlight(m)
  BY PlacesCounted DEF CarryInv
<1>3. m \in written \/ InFlight(m) => spc[m] \in HandedPc
  BY DEF CarryInv, ForItsPeer, WrittenAccepted, InFlight
<1>4. m \in written => ~InFlight(m)
  BY DEF CarryInv, ForItsPeer, InFlight
<1>5. /\ spc[m] = "none" => Stage(m) = "idle"
      /\ spc[m] \in {"check", "setup", "acquire", "queue"} => Stage(m) = "pending"
      /\ spc[m] \in {"reject", "failed"} => Stage(m) = "rejected"
      /\ spc[m] \in HandedPc => Stage(m) = "handed"
  BY DEF Stage, HandedPc
<1>6. Stage(m) \in {"idle", "pending", "rejected", "handed"}
  BY <1>1, <1>5 DEF SendPc, HandedPc
<1>7. Fate(m) = IF m \in written THEN "written"
                ELSE IF InFlight(m) THEN "handed"
                ELSE IF Stage(m) = "handed" THEN "lost" ELSE Stage(m)
  <2>1. CASE m \in written
    BY <2>1 DEF Fate
  <2>2. CASE m \notin written /\ InFlight(m)
    BY <1>2, <2>2 DEF Fate
  <2>3. CASE m \notin written /\ ~InFlight(m)
    BY <1>1, <1>2, <2>3 DEF Fate, Stage, SendPc, HandedPc
  <2> QED
    BY <2>1, <2>2, <2>3
<1> QED
  BY <1>3, <1>4, <1>5, <1>6, <1>7

\* The mapped state.
fates == [m \in Messages |-> Fate(m)]
LifecycleStep == [Lifecycle!Next]_<<fates, status>>

\* A step that keeps places, writes and stages keeps the fate of a message.
Same(m) ==
    /\ InFlight(m)' <=> InFlight(m)
    /\ m \in written' <=> m \in written
    /\ Stage(m)' = Stage(m)

LEMMA SameFate ==
  ASSUME FateIs, FateIs', NEW m \in Messages, Same(m)
  PROVE  Fate(m)' = Fate(m)
BY DEF FateIs, Same

\* A step that keeps them all is no step of the lifecycle.
LEMMA AllSame ==
  ASSUME FateIs, FateIs', \A m \in Messages : Same(m), status' = status
  PROVE  LifecycleStep
<1>1. fates' = fates
  BY SameFate DEF fates
<1> QED
  BY <1>1 DEF LifecycleStep

\* A step that gives one message another fate.
LEMMA OneBecomes ==
  ASSUME FateIs, FateIs', NEW m \in Messages, \A n \in Messages \ {m} : Same(n)
  PROVE  fates' = [fates EXCEPT ![m] = Fate(m)']
<1>1. \A n \in Messages \ {m} : Fate(n)' = Fate(n)
  BY SameFate
<1> QED
  BY <1>1 DEF fates

\* Stages change by the send's own steps only.
LEMMA StageKept ==
  ASSUME IInv, [Next]_vars, NEW m \in Messages,
         \A p \in Peers : ~Send(m, p), ~SendAcquire(m), ~Queue(m)
  PROVE  Stage(m)' = Stage(m)
<1> USE DEF Stage, HandedPc
<1>1. CASE Stands(m)
  BY <1>1 DEF Stands
<1>2. CASE Waits(m)
  BY <1>2 DEF Waits
<1>3. CASE ReportSent(m) \/ ReportFailed(m)
  <2>1. \/ spc[m] = "accept" /\ spc'[m] = "sent"
        \/ spc[m] = "reject" /\ spc'[m] = "failed"
    BY <1>3 DEF ReportSent, ReportFailed, At, IInv, TypeOK, SendingType
  <2> QED
    BY <2>1
<1> QED
  BY <1>1, <1>2, <1>3, SendMoves

\* The status changes by a new message and by an event only.
LEMMA StatusKept ==
  ASSUME IInv, [Next]_vars, ~HandleEvent, \A m \in Messages, p \in Peers : ~Send(m, p)
  PROVE  status' = status
BY VerdictKinds DEF Silence, ReportSent, ReportFailed, ui
\* No message moves while no session does and nothing is queued.
LEMMA NoMove ==
  ASSUME IInv, CarryInv, [Next]_vars, pc' = pc, \A n \in Messages : ~Queue(n)
  PROVE  /\ written' = written
         /\ \A m \in Messages : InFlight(m)' <=> InFlight(m)
<1>1. \A s \in Sessions : ~TakePacket(s) /\ ~WriteDone(s) /\ ~WriteFails(s) /\ ~Close(s)
  BY DEF TakePacket, WriteDone, WriteFails, Close, Continue, IInv, TypeOK, SessionType
<1>2. StillCarried
  BY <1>1, MoveKinds DEF CarryInv
<1> QED
  BY <1>2 DEF StillCarried, InFlight, Slots

\* A stream that ends, or a write that fails, loses what was in its hands.
LEMMA LostTogether ==
  ASSUME FateIs, FateIs', written' = written, status' = status,
         NEW lost \in SUBSET {m \in Messages : InFlight(m)},
         \A m \in Messages : Stage(m)' = Stage(m),
         \A m \in Messages : InFlight(m)' <=> InFlight(m) /\ m \notin lost
  PROVE  LifecycleStep
<1>1. \A m \in lost : Fate(m) = "handed" /\ Fate(m)' = "lost"
  BY DEF FateIs
<1>2. \A m \in Messages \ lost : Fate(m)' = Fate(m)
  BY SameFate DEF Same
<1>3. lost \in SUBSET {m \in Messages : fates[m] = "handed"}
  BY <1>1 DEF fates
<1>4. fates' = [m \in Messages |-> IF m \in lost THEN "lost" ELSE fates[m]]
  BY <1>1, <1>2 DEF fates
<1> QED
  BY <1>3, <1>4 DEF LifecycleStep, Lifecycle!Next, Lifecycle!Lose, fates

\* The user sends a message.
LEMMA SendSubmits ==
  ASSUME IInv, CarryInv, [Next]_vars, FateIs, FateIs',
         NEW m \in Messages, NEW p \in Peers, Send(m, p)
  PROVE  LifecycleStep
<1>1. /\ spc[m] = "none" /\ spc'[m] = "check" /\ pc' = pc
      /\ \A n \in Messages \ {m} : spc'[n] = spc[n]
      /\ status' = [status EXCEPT ![m] = "Pending"]
  BY DEF Send, At, session, IInv, TypeOK, SendingType
<1>2. \A n \in Messages : ~Queue(n)
  BY <1>1 DEF Queue, At, IInv, TypeOK, SendingType
<1>3. written' = written /\ \A n \in Messages : InFlight(n)' <=> InFlight(n)
  BY <1>1, <1>2, NoMove
<1>4. Stage(m) = "idle" /\ Stage(m)' = "pending"
  BY <1>1 DEF Stage, HandedPc
<1>5. Fate(m) = "idle" /\ Fate(m)' = "pending"
  BY <1>3, <1>4 DEF FateIs
<1>6. \A n \in Messages \ {m} : Same(n)
  BY <1>1, <1>3 DEF Same, Stage, HandedPc
<1>7. fates[m] = "idle" /\ fates' = [fates EXCEPT ![m] = "pending"]
  BY <1>5, <1>6, OneBecomes DEF fates
<1> QED
  BY <1>1, <1>7
     DEF LifecycleStep, Lifecycle!Next, Lifecycle!Submit, Lifecycle!Become, fates

\* The look at the table rejects the message, or decides nothing yet.
LEMMA AcquireRejects ==
  ASSUME IInv, CarryInv, [Next]_vars, FateIs, FateIs', NEW m \in Messages, SendAcquire(m)
  PROVE  LifecycleStep
<1>1. /\ spc[m] = "acquire" /\ spc'[m] \in {"queue", "reject"} /\ pc' = pc
      /\ \A n \in Messages \ {m} : spc'[n] = spc[n]
      /\ status' = status
  BY DEF SendAcquire, At, session, ui, IInv, TypeOK, SendingType
<1>2. \A n \in Messages : ~Queue(n)
  BY <1>1 DEF Queue, At, IInv, TypeOK, SendingType
<1>3. written' = written /\ \A n \in Messages : InFlight(n)' <=> InFlight(n)
  BY <1>1, <1>2, NoMove
<1>4. \A n \in Messages \ {m} : Same(n)
  BY <1>1, <1>3 DEF Same, Stage, HandedPc
<1>5. Stage(m) = "pending"
  BY <1>1 DEF Stage, HandedPc
<1>6. CASE spc'[m] = "queue"
  <2>1. Same(m)
    BY <1>3, <1>5, <1>6 DEF Same, Stage, HandedPc
  <2> QED
    BY <1>1, <1>4, <2>1, AllSame
<1>7. CASE spc'[m] = "reject"
  <2>1. Stage(m)' = "rejected"
    BY <1>7 DEF Stage, HandedPc
  <2>2. Fate(m) = "pending" /\ Fate(m)' = "rejected"
    BY <1>3, <1>5, <2>1 DEF FateIs
  <2>3. fates[m] = "pending" /\ fates' = [fates EXCEPT ![m] = "rejected"]
    BY <1>4, <2>2, OneBecomes DEF fates
  <2> QED
    BY <1>1, <2>3 DEF LifecycleStep, Lifecycle!Next, Lifecycle!Reject, Lifecycle!Become, fates
<1> QED
  BY <1>1, <1>6, <1>7

\* The UI shows the outcome of a send, or an event that is none.
LEMMA EventShows ==
  ASSUME IInv, CarryInv, ShownInv, [Next]_vars, FateIs, FateIs', HandleEvent
  PROVE  LifecycleStep
<1>1. /\ events \in Seq(NetworkEvent) /\ events # <<>> /\ spc' = spc /\ pc' = pc
  BY DEF HandleEvent, session, sending, IInv, TypeOK, EventsType
<1>2. \A n \in Messages : ~Queue(n)
  BY <1>1 DEF Queue, At, IInv, TypeOK, SendingType
<1>3. written' = written /\ \A n \in Messages : InFlight(n)' <=> InFlight(n)
  BY <1>1, <1>2, NoMove
<1>4. \A n \in Messages : Same(n)
  BY <1>1, <1>3 DEF Same, Stage, HandedPc
<1>5. fates' = fates
  BY <1>4, SameFate DEF fates
<1>6. 1 \in 1..Len(events) /\ Head(events) = events[1] /\ events[1] \in NetworkEvent
  BY <1>1
<1>7. status' = IF events[1].kind \in {"Sent", "Failed"}
                  THEN [status EXCEPT ![events[1].of] = events[1].kind] ELSE status
  BY <1>6 DEF HandleEvent
<1>8. CASE events[1].kind \notin {"Sent", "Failed"}
  BY <1>5, <1>7, <1>8 DEF LifecycleStep
<1>9. CASE events[1].kind \in {"Sent", "Failed"}
  <2>1. PICK m \in Messages : events[1].of = m
    BY <1>6, <1>9 DEF NetworkEvent
  <2>2. /\ status[m] = "Pending"
        /\ spc[m] = IF events[1].kind = "Sent" THEN "sent" ELSE "failed"
    BY <1>6, <1>9, <2>1 DEF ShownInv, VerdictIsOutcome, Verdict
  <2>3. CASE events[1].kind = "Sent"
    <3>1. Stage(m) = "handed"
      BY <2>2, <2>3 DEF Stage, HandedPc
    <3>2. fates[m] \in {"handed", "written", "lost"}
      BY <3>1 DEF FateIs, fates
    <3>3. status' = [status EXCEPT ![m] = "Sent"]
      BY <1>7, <2>1, <2>3
    <3> QED
      BY <1>5, <2>2, <3>2, <3>3 DEF LifecycleStep, Lifecycle!Next, Lifecycle!Show, fates
  <2>4. CASE events[1].kind = "Failed"
    <3>1. Stage(m) = "rejected"
      BY <2>2, <2>4 DEF Stage, HandedPc
    <3>2. fates[m] = "rejected"
      BY <3>1 DEF FateIs, fates
    <3>3. status' = [status EXCEPT ![m] = "Failed"]
      BY <1>7, <2>1, <2>4
    <3> QED
      BY <1>5, <2>2, <3>2, <3>3 DEF LifecycleStep, Lifecycle!Next, Lifecycle!Show, fates
  <2> QED
    BY <1>9, <2>3, <2>4
<1> QED
  BY <1>8, <1>9
\* The handover, and the moves and ends of what was handed over.
LEMMA TransportMoves ==
  ASSUME IInv, CarryInv, [Next]_vars, FateIs, FateIs', status' = status,
         \A m \in Messages : ~SendAcquire(m) /\ \A p \in Peers : ~Send(m, p)
  PROVE  LifecycleStep
<1> USE DEF CarryInv
<1>0. TypeOK
  BY DEF IInv
<1>a. ASSUME \A m \in Messages : ~Queue(m)
      PROVE  \A m \in Messages : Stage(m)' = Stage(m)
  BY <1>a, StageKept
<1>b. 0 \in Slots
  BY LimitsAssumption DEF LimitsAssumption, Slots
<1>1. ASSUME NEW n \in Messages, Queue(n) PROVE LifecycleStep
  <2>1. /\ spc[n] = "queue" /\ spc'[n] = "accept" /\ written' = written
        /\ \A m \in Messages \ {n} : spc'[m] = spc[m]
    BY <1>0, <1>1 DEF Queue, At, TypeOK, SendingType
  <2>2. \A m \in Messages \ {n} : InFlight(m)' <=> InFlight(m)
    BY <1>1, QueueMoves DEF InFlight, Slots
  <2>3. \A m \in Messages \ {n} : Same(m)
    BY <2>1, <2>2 DEF Same, Stage
  <2>4. InFlight(n)'
    BY <1>1, QueueMoves DEF InFlight, Slots
  <2>5. Stage(n) = "pending"
    BY <2>1 DEF Stage, HandedPc
  <2>6. Fate(n) = "pending" /\ Fate(n)' = "handed"
    BY <2>4, <2>5 DEF FateIs
  <2>7. fates[n] = "pending" /\ fates' = [fates EXCEPT ![n] = "handed"]
    BY <2>3, <2>6, OneBecomes DEF fates
  <2> QED
    BY <2>7 DEF LifecycleStep, Lifecycle!Next, Lifecycle!HandOver, Lifecycle!Become, fates
<1>2. ASSUME NEW s \in Sessions, TakePacket(s) PROVE LifecycleStep
  <2>1. written' = written /\ spc' = spc /\ pc[s] = "select"
    BY <1>2 DEF TakePacket, sending
  <2>2. ASSUME NEW m \in Messages PROVE InFlight(m)' <=> InFlight(m)
    <3>1. ASSUME NEW t \in Sessions, NEW i \in Slots, Carries(t, i, m)' PROVE InFlight(m)
      BY <1>0, <1>2, <3>1, TakeMoves DEF InFlight
    <3>2. ASSUME NEW t \in Sessions, NEW i \in Slots, Carries(t, i, m)
          PROVE  \E j \in Slots : Carries(t, j, m)'
      <4>1. CASE t # s
        BY <1>0, <1>2, <3>2, <4>1, TakeMoves
      <4>2. CASE t = s
        <5>1. i # 0
          BY <2>1, <3>2, <4>2 DEF Carries, Tidy
        <5>2. i - 1 \in Slots /\ (i - 1) + 1 = i
          BY <5>1, LimitsAssumption DEF LimitsAssumption, Slots
        <5>3. Carries(t, i - 1, m)'
          BY <1>0, <1>2, <3>2, <4>2, <5>2, TakeMoves
        <5> QED
          BY <5>2, <5>3
      <4> QED
        BY <4>1, <4>2
    <3> QED
      BY <3>1, <3>2 DEF InFlight, Slots
  <2> QED
    BY <2>1, <2>2, AllSame DEF Same, Stage
<1>3. ASSUME NEW s \in Sessions, WriteDone(s) \/ WriteFails(s), cur[s] \notin Messages
      PROVE  LifecycleStep
  <2>1. spc' = spc /\ written' = written
    BY <1>3 DEF WriteDone, WriteFails, sending
  <2>2. \A m \in Messages : ~Carries(s, 0, m)
    BY <1>3 DEF Carries
  <2>3. \A m \in Messages : InFlight(m)' <=> InFlight(m)
    BY <1>0, <1>3, <2>2, WriteMoves DEF InFlight, Slots
  <2> QED
    BY <2>1, <2>3, AllSame DEF Same, Stage
<1>4. ASSUME NEW s \in Sessions, WriteDone(s) \/ WriteFails(s), NEW n \in Messages, cur[s] = n
      PROVE  LifecycleStep
  <2>1. spc' = spc
    BY <1>4 DEF WriteDone, WriteFails, sending
  <2>2. Carries(s, 0, n)
    BY <1>4 DEF Carries
  <2>3. InFlight(n)
    BY <1>b, <2>2 DEF InFlight
  <2>4. \A m \in Messages : InFlight(m)' <=> InFlight(m) /\ m # n
    <3>1. \A t \in Sessions, i \in Slots : Carries(t, i, n) => t = s /\ i = 0
      BY <1>b, <2>2 DEF OnePlace
    <3>2. \A m \in Messages : Carries(s, 0, m) => m = n
      BY <1>4 DEF Carries
    <3> QED
      BY <1>0, <1>4, <3>1, <3>2, WriteMoves DEF InFlight, Slots
  <2>5. CASE WriteDone(s)
    <3>1. written' = written \cup {n}
      BY <1>4, <2>5 DEF WriteDone
    <3>2. \A m \in Messages \ {n} : Same(m)
      BY <2>1, <2>4, <3>1 DEF Same, Stage
    <3>3. Fate(n) = "handed" /\ Fate(n)' = "written"
      BY <2>3, <3>1 DEF FateIs
    <3>4. fates[n] = "handed" /\ fates' = [fates EXCEPT ![n] = "written"]
      BY <3>2, <3>3, OneBecomes DEF fates
    <3> QED
      BY <3>4 DEF LifecycleStep, Lifecycle!Next, Lifecycle!Write, Lifecycle!Become, fates
  <2>6. CASE WriteFails(s)
    <3>1. written' = written
      BY <2>6 DEF WriteFails
    <3>2. {n} \in SUBSET {m \in Messages : InFlight(m)}
      BY <2>3
    <3> QED
      BY <2>1, <2>4, <3>1, <3>2, LostTogether DEF Stage
  <2> QED
    BY <1>4, <2>5, <2>6
<1>5. ASSUME NEW s \in Sessions, Close(s) PROVE LifecycleStep
  <2> DEFINE lost == {m \in Messages : \E i \in Slots : Carries(s, i, m)}
  <2>1. spc' = spc /\ written' = written
    BY <1>5 DEF Close, sending
  <2>2. lost \in SUBSET {m \in Messages : InFlight(m)}
    BY DEF InFlight
  <2>3. ASSUME NEW m \in Messages PROVE InFlight(m)' <=> InFlight(m) /\ m \notin lost
    <3>1. \A t \in Sessions, i \in Slots : Carries(t, i, m)' <=> Carries(t, i, m) /\ t # s
      BY <1>0, <1>5, CloseMoves
    <3>2. InFlight(m)' <=> \E t \in Sessions \ {s}, i \in Slots : Carries(t, i, m)
      BY <3>1 DEF InFlight, Slots
    <3> QED
      BY <3>2 DEF InFlight, OnePlace
  <2> HIDE DEF lost
  <2> QED
    BY <2>1, <2>2, <2>3, LostTogether DEF Stage
<1>6. CASE StillCarried
  <2>1. ASSUME \A m \in Messages : ~Queue(m) PROVE LifecycleStep
    <3>1. \A m \in Messages : InFlight(m)' <=> InFlight(m)
      BY <1>6 DEF StillCarried, InFlight, Slots
    <3> QED
      BY <1>6, <1>a, <2>1, <3>1, AllSame DEF StillCarried, Same
  <2> QED
    BY <1>1, <2>1
<1> QED
  BY <1>1, <1>2, <1>3, <1>4, <1>5, <1>6, MoveKinds

\* Every step of the connection manager is one of the lifecycle, or none.
LEMMA LifecycleSteps ==
  ASSUME IInv, CarryInv, ShownInv, [Next]_vars, FateIs, FateIs'
  PROVE  LifecycleStep
<1>1. CASE \E m \in Messages, p \in Peers : Send(m, p)
  BY <1>1, SendSubmits
<1>2. CASE \E m \in Messages : SendAcquire(m)
  BY <1>2, AcquireRejects
<1>3. CASE HandleEvent
  BY <1>3, EventShows
<1>4. CASE /\ ~HandleEvent
           /\ \A m \in Messages : ~SendAcquire(m) /\ \A p \in Peers : ~Send(m, p)
  BY <1>4, StatusKept, TransportMoves
<1> QED
  BY <1>1, <1>2, <1>3, <1>4

\* Nothing is sent or shown at the start.
LEMMA InitLifecycle == Init => ShownInv /\ Lifecycle!Init
<1> SUFFICES ASSUME Init PROVE ShownInv /\ Lifecycle!Init
  OBVIOUS
<1>1. ShownInv
  BY DEF Init, ShownInv, OneVerdict, VerdictIsOutcome, StatusFollows, Verdict
<1>2. IInv /\ CarryInv
  BY InitIInv, InitCarry
<1>3. \A m \in Messages : Stage(m) = "idle"
  BY DEF Init, Stage, HandedPc
<1>4. \A m \in Messages : Fate(m) = "idle"
  BY <1>2, <1>3, FateFact DEF FateIs, Init
<1> QED
  BY <1>1, <1>4 DEF Init, Lifecycle!Init

\* FR-MSG-06, FR-MSG-08: for any number of messages, peers and sessions, sending
\* keeps the promise of MessageLifecycle: one try, one outcome, one verdict.
THEOREM SendingIsLifecycle == Spec => ImplementsLifecycle
<1>1. Init => IInv /\ CarryInv /\ ShownInv /\ Lifecycle!Init
  BY InitIInv, InitCarry, InitLifecycle
<1>2. IInv /\ CarryInv /\ ShownInv /\ [Next]_vars => (IInv /\ CarryInv /\ ShownInv)'
  BY StepIInv, CarryStep, ShownStep
<1>3. IInv /\ CarryInv /\ ShownInv /\ [Next]_vars /\ FateIs /\ FateIs'
        => [Lifecycle!Next]_<<[m \in Messages |-> Fate(m)], status>>
  BY LifecycleSteps DEF LifecycleStep, fates
<1> QED
  BY <1>1, <1>2, <1>3, FateFact, PTL DEF Spec, ImplementsLifecycle, Lifecycle!Spec
=============================================================================
