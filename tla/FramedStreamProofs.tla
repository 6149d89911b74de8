------------------------- MODULE FramedStreamProofs -------------------------
(***************************************************************************)
(* Reading frames from a stream, for every size of header and frame, every *)
(* number of frames and every way the bytes arrive.  As long as no read is *)
(* dropped half way the reader stands where the next frame begins; once    *)
(* one is, it stands past the beginning of the frame it waits for, and     *)
(* never gets back.                                                        *)
(***************************************************************************)
EXTENDS FramedStream, TLAPS

\* Where the frame after the first n begins.
NextAt(n) == IF n = 0 THEN 0 ELSE After(frames[n])

\* The frames follow one another without gaps.
Layout ==
    /\ \A k \in DOMAIN frames : frames[k].at = NextAt(k - 1) /\ After(frames[k]) <= Total
    /\ \A j, k \in DOMAIN frames : k < j => After(frames[k]) <= frames[j].at

\* The frames delivered are the first ones.
Delivery ==
    /\ Len(delivered) <= Len(frames)
    /\ \A i \in DOMAIN delivered : delivered[i] = i
    /\ counter = Len(delivered)
    /\ ~torn => read = delivered

Closing == limit # None => arrived <= limit /\ limit <= Total

InStep ==
    ~torn /\ Reading =>
      /\ start = NextAt(Len(delivered))
      /\ need # None => /\ Len(delivered) < Len(frames)
                        /\ need = frames[Len(delivered) + 1].len

OutOfStep ==
    torn => /\ Len(delivered) < Len(frames)
            /\ start > frames[Len(delivered) + 1].at

Inv == TypeOK /\ Layout /\ Delivery /\ Closing /\ InStep /\ OutOfStep /\ FailsOnlyTorn

-----------------------------------------------------------------------------
(* The frames.                                                             *)

\* What is known of one frame.
LEMMA FrameFacts ==
    ASSUME TypeOK, NEW k \in DOMAIN frames
    PROVE  /\ frames[k].at \in Nat /\ frames[k].len \in 1..MaxLen
           /\ After(frames[k]) \in Nat /\ frames[k].at < After(frames[k])
           /\ After(frames[k]) = frames[k].at + HeaderLen + frames[k].len
           /\ k \in Nat \ {0} /\ k <= Len(frames)
<1> USE StreamAssumption DEF StreamAssumption
<1>1. frames[k] \in Frame /\ k \in 1..Len(frames) /\ Len(frames) \in Nat
  BY DEF TypeOK
<1>2. frames[k].at \in Nat /\ frames[k].len \in 1..MaxLen
  BY <1>1 DEF Frame
<1> QED
  BY <1>1, <1>2 DEF After

\* The end of the frames is a position.
LEMMA TotalType == TypeOK => Total \in Nat
<1> SUFFICES ASSUME TypeOK PROVE Total \in Nat
  OBVIOUS
<1>1. CASE frames = <<>>
  BY <1>1 DEF Total
<1>2. CASE frames # <<>>
  <2>1. Len(frames) \in DOMAIN frames
    BY <1>2 DEF TypeOK
  <2> QED
    BY <1>2, <2>1, FrameFacts DEF Total
<1> QED
  BY <1>1, <1>2

\* Bytes past the beginning of the next frame are bytes of it.
LEMMA NextExists ==
    ASSUME TypeOK, Layout, Delivery, NEW b \in Nat, b > NextAt(Len(delivered)), b <= Total
    PROVE  /\ Len(delivered) < Len(frames) /\ Len(delivered) + 1 \in DOMAIN frames
           /\ frames[Len(delivered) + 1].at = NextAt(Len(delivered))
<1> DEFINE n == Len(delivered)
<1>1. n \in Nat /\ Len(frames) \in Nat /\ n <= Len(frames) /\ DOMAIN frames = 1..Len(frames)
  BY DEF TypeOK, Delivery
<1>2. n # Len(frames)
  <2> SUFFICES ASSUME n = Len(frames) PROVE FALSE
    OBVIOUS
  <2>1. Total = NextAt(n)
    BY <1>1 DEF Total, NextAt, TypeOK
  <2> QED
    BY <2>1, TotalType
<1>3. n + 1 \in DOMAIN frames /\ (n + 1) - 1 = n
  BY <1>1, <1>2
<1>4. frames[n + 1].at = NextAt(n)
  <2>1. frames[n + 1].at = NextAt((n + 1) - 1)
    BY <1>3 DEF Layout
  <2> QED
    BY <1>3, <2>1, Zenon
<1>5. n < Len(frames)
  BY <1>1, <1>2
<1> QED
  BY <1>3, <1>4, <1>5, Zenon

\* No two frames begin at the same place.
LEMMA FrameIsOnly ==
    ASSUME TypeOK, Layout, NEW j \in DOMAIN frames, NEW k \in DOMAIN frames,
           frames[j].at = frames[k].at
    PROVE  j = k
<1>1. CASE k < j
  BY <1>1, FrameFacts DEF Layout
<1>2. CASE j < k
  BY <1>2, FrameFacts DEF Layout
<1> QED
  BY <1>1, <1>2, FrameFacts

\* Types of what a header says and of the bytes taken.
LEMMA LengthsType ==
    ASSUME TypeOK, NEW n \in Lengths(start) PROVE n \in Nat
<1> USE StreamAssumption DEF StreamAssumption
<1>1. CASE FramesAt(start) = {}
  BY <1>1 DEF Lengths
<1>2. CASE FramesAt(start) # {}
  <2>1. PICK k \in FramesAt(start) : n = frames[k].len
    BY <1>2 DEF Lengths
  <2>2. k \in DOMAIN frames
    BY <2>1 DEF FramesAt
  <2> QED
    BY <2>1, <2>2, FrameFacts
<1> QED
  BY <1>1, <1>2

LEMMA ChunkFacts ==
    ASSUME TypeOK, NEW to \in Nat, Chunk(to)
    PROVE  at' \in Nat /\ at < at' /\ at' <= to /\ at' <= arrived
BY DEF Chunk, TypeOK

-----------------------------------------------------------------------------
(* Every step.                                                             *)

\* A frame written leaves those before it and their order.
LEMMA WriteStep ==
    ASSUME Inv, NEW n \in 1..MaxLen, Write(n)
    PROVE  Inv'
<1> USE StreamAssumption DEF StreamAssumption
<1> DEFINE new == [at |-> Total, len |-> n]
           L == Len(frames)
<1>1. /\ frames \in Seq(Frame) /\ L \in Nat /\ DOMAIN frames = 1..L
      /\ new \in Frame /\ new.at = Total /\ new.len = n /\ Total \in Nat
  BY TotalType DEF Inv, TypeOK, Frame
<1>2. /\ frames' \in Seq(Frame) /\ Len(frames') = L + 1 /\ DOMAIN frames' = 1 .. L + 1
      /\ frames'[L + 1] = new /\ \A k \in 1..L : frames'[k] = frames[k]
      /\ L < MaxFrames
  BY <1>1 DEF Write
<1>3. After(new) = Total + HeaderLen + n /\ After(new) \in Nat /\ After(new) > Total
  BY <1>1 DEF After
<1>4. Total' = After(new)
  BY <1>2 DEF Total, After
<1> HIDE DEF new
<1>5. \A k \in 1..L : After(frames'[k]) = After(frames[k]) /\ After(frames[k]) <= Total
                      /\ After(frames[k]) \in Nat
  BY <1>1, <1>2, FrameFacts DEF Inv, Layout
<1>6. \A k \in 0..L : NextAt(k)' = NextAt(k)
  BY <1>2, <1>5 DEF NextAt, After
<1>7. Total = NextAt(L)
  BY <1>1 DEF Total, NextAt
<1>8. Layout'
  <2>1. ASSUME NEW k \in 1..L + 1
        PROVE  frames'[k].at = NextAt(k - 1)' /\ After(frames'[k]) <= Total'
    <3>1. CASE k = L + 1
      BY <1>1, <1>2, <1>3, <1>4, <1>6, <1>7, <3>1
    <3>2. CASE k \in 1..L
      BY <1>1, <1>2, <1>3, <1>4, <1>5, <1>6, <3>2 DEF Inv, Layout
    <3> QED
      BY <1>1, <3>1, <3>2
  <2>2. ASSUME NEW j \in 1..L + 1, NEW k \in 1..L + 1, k < j
        PROVE  After(frames'[k]) <= frames'[j].at
    <3>1. k \in 1..L
      BY <1>1, <2>2
    <3>2. CASE j = L + 1
      BY <1>1, <1>2, <1>5, <3>1, <3>2
    <3>3. CASE j \in 1..L
      BY <1>1, <1>2, <1>5, <2>2, <3>1, <3>3 DEF Inv, Layout
    <3> QED
      BY <1>1, <3>2, <3>3
  <2>3. \A f \in Frame : After(f)' = After(f)
    BY DEF After
  <2> QED
    BY <1>2, <2>1, <2>2 DEF Layout, After
<1>9. /\ UNCHANGED <<arrived, limit, start, at, need, counter, delivered, read, end, torn>>
      /\ limit = None
  BY DEF Write, reader, handled
<1>10. TypeOK'
  BY <1>1, <1>2, <1>3, <1>4, <1>9 DEF Inv, TypeOK
<1>11. Delivery' /\ Closing' /\ FailsOnlyTorn'
  BY <1>1, <1>2, <1>9 DEF Inv, Delivery, Closing, FailsOnlyTorn
<1>12. Len(delivered) \in 0..L
  BY <1>1 DEF Inv, Delivery, TypeOK
<1>13. InStep'
  BY <1>1, <1>2, <1>6, <1>9, <1>12 DEF Inv, InStep, Reading
<1>14. OutOfStep'
  BY <1>1, <1>2, <1>9, <1>12 DEF Inv, OutOfStep
<1> QED
  BY <1>8, <1>10, <1>11, <1>13, <1>14 DEF Inv

\* What the steps of the reader leave alone.
LEMMA SameFrames ==
    ASSUME UNCHANGED frames, TypeOK
    PROVE  /\ Total' = Total
           /\ \A k : NextAt(k)' = NextAt(k)
           /\ Layout' <=> Layout
BY DEF Total, After, NextAt, Layout

\* In step, with bytes of the next frame: that frame, and no other, begins here.
LEMMA FrameHere ==
    ASSUME Inv, ~torn, Reading, NEW b \in Nat, b > start, b <= arrived
    PROVE  /\ Len(delivered) < Len(frames) /\ Len(delivered) + 1 \in DOMAIN frames
           /\ frames[Len(delivered) + 1].at = start
           /\ FramesAt(start) = {Len(delivered) + 1}
<1>1. start = NextAt(Len(delivered)) /\ b <= Total
  BY TotalType DEF Inv, InStep, TypeOK
<1>2. /\ Len(delivered) < Len(frames) /\ Len(delivered) + 1 \in DOMAIN frames
      /\ frames[Len(delivered) + 1].at = start
  BY <1>1, NextExists DEF Inv
<1>3. \A k \in FramesAt(start) : k = Len(delivered) + 1
  BY <1>2, FrameIsOnly DEF Inv, FramesAt
<1> QED
  BY <1>2, <1>3 DEF FramesAt

\* The steps that read keep the invariant.
LEMMA ReadHeaderStep == Inv /\ ReadHeader => Inv'
<1> SUFFICES ASSUME Inv, ReadHeader PROVE Inv'
  OBVIOUS
<1> USE StreamAssumption DEF StreamAssumption
<1>1. /\ UNCHANGED <<frames, arrived, limit, start, counter, delivered, read, torn>>
      /\ end = None /\ need = None
  BY DEF ReadHeader, Reading, handled
<1>2. BodyAt \in Nat /\ BodyAt > start
  BY DEF BodyAt, Inv, TypeOK
<1>3. at' \in Nat /\ at < at' /\ at' <= BodyAt /\ at' <= arrived
  BY <1>2, ChunkFacts DEF ReadHeader, Inv
<1>4. /\ Total' = Total /\ Layout' /\ Delivery' /\ Closing' /\ OutOfStep'
      /\ NextAt(Len(delivered))' = NextAt(Len(delivered))
  BY <1>1, SameFrames DEF Inv, Delivery, Closing, OutOfStep
<1>5. start < at' /\ start <= at
  BY <1>3 DEF Inv, TypeOK
<1>6. CASE at' < BodyAt
  <2>1. UNCHANGED <<need, end>>
    BY <1>6 DEF ReadHeader
  <2>2. TypeOK'
    BY <1>1, <1>3, <1>4, <1>5, <2>1 DEF Inv, TypeOK
  <2> QED
    BY <1>1, <1>4, <2>1, <2>2 DEF Inv, InStep, Reading, FailsOnlyTorn
<1>7. CASE ~(at' < BodyAt)
  <2>1. PICK n \in Lengths(start) :
          need' = n /\ end' = IF n > MaxLen THEN "TooLong" ELSE end
    BY <1>7 DEF ReadHeader
  <2>2. n \in Nat
    BY LengthsType DEF Inv
  <2>3. TypeOK'
    BY <1>1, <1>3, <1>4, <1>5, <2>1, <2>2 DEF Inv, TypeOK, Ends
  <2>4. ASSUME ~torn
        PROVE  /\ Len(delivered) < Len(frames) /\ n = frames[Len(delivered) + 1].len
               /\ n <= MaxLen
    <3>1. /\ Len(delivered) < Len(frames) /\ Len(delivered) + 1 \in DOMAIN frames
          /\ FramesAt(start) = {Len(delivered) + 1}
      BY <1>1, <1>3, <1>5, <2>4, FrameHere DEF Reading
    <3>2. n = frames[Len(delivered) + 1].len
      BY <3>1 DEF Lengths
    <3> QED
      BY <3>1, <3>2, FrameFacts DEF Inv
  <2>5. InStep'
    BY <1>1, <1>4, <2>1, <2>4 DEF Inv, InStep, Reading
  <2>6. FailsOnlyTorn'
    BY <1>1, <2>1, <2>2, <2>4 DEF FailsOnlyTorn
  <2> QED
    BY <1>4, <2>3, <2>5, <2>6 DEF Inv
<1> QED
  BY <1>6, <1>7

LEMMA ReadBodyStep == Inv /\ ReadBody => Inv'
<1> SUFFICES ASSUME Inv, ReadBody PROVE Inv'
  OBVIOUS
<1> USE StreamAssumption DEF StreamAssumption
<1>1. UNCHANGED <<frames, arrived, limit, start, need, counter, delivered, read, end, torn>>
  BY DEF ReadBody, handled
<1>2. BodyAt + need \in Nat
  BY DEF ReadBody, BodyAt, Inv, TypeOK
<1>3. at' \in Nat /\ at < at' /\ at' <= arrived
  BY <1>2, ChunkFacts DEF ReadBody, Inv
<1>4. Total' = Total /\ Layout' /\ NextAt(Len(delivered))' = NextAt(Len(delivered))
  BY <1>1, SameFrames DEF Inv
<1>5. TypeOK'
  BY <1>1, <1>3, <1>4 DEF Inv, TypeOK
<1> QED
  BY <1>1, <1>4, <1>5 DEF Inv, Delivery, Closing, InStep, OutOfStep, FailsOnlyTorn, Reading

\* Where a frame that begins and ends here is the only one, it is what was read.
LEMMA ReturnedIs ==
    ASSUME TypeOK, Layout, NEW k \in DOMAIN frames, Whole(k) PROVE Returned = k
<1>1. \A j \in DOMAIN frames : Whole(j) => j = k
  BY FrameIsOnly DEF Whole
<1> QED
  BY <1>1 DEF Returned

\* In step, a whole frame is the next one: it is read and delivered.
LEMMA HandleInStep ==
    ASSUME Inv, Handle, ~torn
    PROVE  /\ Len(delivered) + 1 \in DOMAIN frames
           /\ delivered' = Append(delivered, Len(delivered) + 1)
           /\ counter' = counter + 1 /\ read' = Append(read, Len(delivered) + 1)
           /\ end' = end /\ at = After(frames[Len(delivered) + 1])
<1> USE StreamAssumption DEF StreamAssumption
<1> DEFINE n == Len(delivered)
<1>1. /\ end = None /\ need \in Nat /\ at = start + HeaderLen + need /\ start \in Nat
      /\ at \in Nat /\ at > start /\ at <= arrived
  BY DEF Handle, Reading, Complete, BodyAt, Inv, TypeOK
<1>2. /\ n < Len(frames) /\ n + 1 \in DOMAIN frames
      /\ frames[n + 1].at = start /\ FramesAt(start) = {n + 1}
  BY <1>1, FrameHere DEF Reading
<1>3. need = frames[n + 1].len
  BY <1>1 DEF Inv, InStep, Reading
<1>4. at = After(frames[n + 1])
  BY <1>1, <1>2, <1>3, FrameFacts DEF Inv
<1>5. Whole(n + 1) /\ Authentic(n + 1)
  BY <1>2, <1>4 DEF Whole, Authentic, Inv, Delivery
<1>6. PICK k \in DOMAIN frames : /\ Authentic(k) /\ delivered' = Append(delivered, k)
                               /\ counter' = counter + 1 /\ end' = end
  BY <1>2, <1>5 DEF Handle, Decrypt
<1>7. k = n + 1
  BY <1>6 DEF Authentic, Inv, Delivery
<1>8. read' = Append(read, n + 1)
  <2>1. Returned = n + 1
    BY <1>2, <1>5, ReturnedIs DEF Inv
  <2> QED
    BY <2>1 DEF Handle
<1> QED
  BY <1>2, <1>4, <1>6, <1>7, <1>8

\* Out of step nothing is.
LEMMA HandleOutOfStep ==
    ASSUME Inv, Handle, torn
    PROVE  delivered' = delivered /\ counter' = counter /\ read' = read
           /\ end' \in {end, "Decrypt"}
<1>1. \A k \in DOMAIN frames : ~Authentic(k)
  <2> SUFFICES ASSUME NEW k \in DOMAIN frames, Authentic(k) PROVE FALSE
    OBVIOUS
  <2>1. k = Len(delivered) + 1 /\ frames[k].at = start
    BY DEF Authentic, Whole, Inv, Delivery
  <2>2. start > frames[k].at
    BY <2>1 DEF Inv, OutOfStep
  <2> QED
    BY <2>1, <2>2 DEF Inv, TypeOK
<1> QED
  BY <1>1 DEF Handle, Decrypt

LEMMA HandleStep == Inv /\ Handle => Inv'
<1> SUFFICES ASSUME Inv, Handle PROVE Inv'
  OBVIOUS
<1> USE StreamAssumption DEF StreamAssumption
<1> DEFINE n == Len(delivered)
<1>1. /\ UNCHANGED <<frames, arrived, limit, at, torn>> /\ start' = at /\ need' = None
      /\ end = None
  BY DEF Handle, Reading
<1>2. Total' = Total /\ Layout' /\ \A k : NextAt(k)' = NextAt(k)
  BY <1>1, SameFrames DEF Inv
<1>3. n \in Nat /\ delivered \in Seq(Nat)
  BY DEF Inv, TypeOK
<1>4. CASE ~torn
  <2>1. /\ n + 1 \in DOMAIN frames /\ delivered' = Append(delivered, n + 1)
        /\ counter' = counter + 1 /\ read' = Append(read, n + 1)
        /\ end' = end /\ at = After(frames[n + 1])
    BY <1>4, HandleInStep
  <2>2. /\ delivered' \in Seq(Nat) /\ Len(delivered') = n + 1
        /\ \A i \in 1..n : delivered'[i] = delivered[i]
        /\ delivered'[n + 1] = n + 1 /\ DOMAIN delivered' = 1 .. n + 1
        /\ DOMAIN delivered = 1..n
    BY <1>3, <2>1
  <2>3. counter' = n + 1 /\ read' = delivered'
    BY <1>4, <2>1 DEF Inv, Delivery
  <2>8. TypeOK'
    BY <1>1, <1>2, <2>1, <2>2, <2>3 DEF Inv, TypeOK
  <2>4. n + 1 <= Len(frames)
    BY <2>1, FrameFacts DEF Inv
  <2>5. Delivery'
    BY <1>1, <1>3, <2>2, <2>3, <2>4 DEF Inv, Delivery
  <2>6. start' = NextAt(n + 1)
    BY <1>1, <1>3, <2>1 DEF NextAt
  <2>7. InStep' /\ OutOfStep' /\ FailsOnlyTorn' /\ Closing'
    BY <1>1, <1>2, <1>4, <2>1, <2>2, <2>6
       DEF Inv, InStep, OutOfStep, FailsOnlyTorn, Closing, Reading
  <2> QED
    BY <1>2, <2>5, <2>7, <2>8 DEF Inv
<1>5. CASE torn
  <2>1. /\ delivered' = delivered /\ counter' = counter /\ read' = read
        /\ end' \in {end, "Decrypt"}
    BY <1>5, HandleOutOfStep
  <2>2. TypeOK'
    BY <1>1, <1>2, <2>1 DEF Inv, TypeOK, Ends
  <2>3. n + 1 \in DOMAIN frames
    BY <1>3, <1>5 DEF Inv, OutOfStep, TypeOK
  <2>4. OutOfStep'
    BY <1>1, <1>5, <2>1, <2>3, FrameFacts DEF Inv, OutOfStep, TypeOK
  <2> QED
    BY <1>1, <1>2, <1>5, <2>1, <2>2, <2>4
       DEF Inv, Delivery, Closing, InStep, FailsOnlyTorn
<1> QED
  BY <1>4, <1>5

LEMMA CancelStep == Inv /\ Cancel => Inv'
<1> SUFFICES ASSUME Inv, Cancel PROVE Inv'
  OBVIOUS
<1> USE StreamAssumption DEF StreamAssumption
<1> DEFINE n == Len(delivered)
<1>1. /\ UNCHANGED <<frames, arrived, limit, at, counter, delivered, read, end>>
      /\ start' = at /\ need' = None /\ torn' = (torn \/ at > start) /\ end = None
  BY DEF Cancel, Reading, handled
<1>2. Total' = Total /\ Layout' /\ \A k : NextAt(k)' = NextAt(k)
  BY <1>1, SameFrames DEF Inv
<1>3. torn' \in BOOLEAN /\ torn \in BOOLEAN
  BY <1>1 DEF Inv, TypeOK
<1>4. TypeOK'
  BY <1>1, <1>2, <1>3 DEF Inv, TypeOK
<1>5. Delivery' /\ Closing' /\ FailsOnlyTorn'
  BY <1>1, <1>2 DEF Inv, Delivery, Closing, FailsOnlyTorn, Ends
<1>6. ASSUME ~torn' PROVE start' = start /\ ~torn
  <2>1. ~torn /\ ~(at > start)
    BY <1>1, <1>6, Zenon
  <2> QED
    BY <1>1, <2>1 DEF Inv, TypeOK
<1>7. InStep'
  BY <1>1, <1>2, <1>6 DEF Inv, InStep, Reading
<1>8. ASSUME torn' PROVE n < Len(frames) /\ at > frames[n + 1].at
  <2>1. CASE torn
    <3>1. n + 1 \in DOMAIN frames
      BY <2>1 DEF Inv, OutOfStep, TypeOK
    <3> QED
      BY <2>1, <3>1, FrameFacts DEF Inv, OutOfStep, TypeOK
  <2>2. CASE ~torn
    <3>1. at > start /\ at \in Nat /\ at <= arrived
      BY <1>1, <1>8, <2>2 DEF Inv, TypeOK
    <3> QED
      BY <1>1, <2>2, <3>1, FrameHere DEF Reading
  <2> QED
    BY <2>1, <2>2
<1>9. OutOfStep'
  BY <1>1, <1>8 DEF OutOfStep
<1> QED
  BY <1>2, <1>4, <1>5, <1>7, <1>9 DEF Inv

\* The other steps change neither the frames nor where the reader stands.
LEMMA OtherSteps == Inv /\ (Arrive \/ CloseRemote \/ ReadEof \/ GiveUp) => Inv'
<1> SUFFICES ASSUME Inv, Arrive \/ CloseRemote \/ ReadEof \/ GiveUp PROVE Inv'
  OBVIOUS
<1> USE StreamAssumption DEF StreamAssumption
<1>1. UNCHANGED <<frames, start, at, need, counter, delivered, read, torn>>
  BY DEF Arrive, CloseRemote, ReadEof, GiveUp, reader, handled
<1>2. /\ Total' = Total /\ Layout' /\ Total \in Nat
      /\ NextAt(Len(delivered))' = NextAt(Len(delivered))
  BY <1>1, SameFrames, TotalType DEF Inv
<1>3. Delivery' /\ OutOfStep'
  BY <1>1 DEF Inv, Delivery, OutOfStep
<1>4. /\ end' \in Ends \cup {None} /\ (Reading' => Reading)
      /\ (end' = end \/ end' \in {"Eof", "Write", "Stalled"})
  BY DEF Arrive, CloseRemote, ReadEof, GiveUp, Reading, Ends, Inv, TypeOK
<1>5. InStep' /\ FailsOnlyTorn'
  BY <1>1, <1>2, <1>4 DEF Inv, InStep, FailsOnlyTorn
<1>6. /\ arrived' \in Nat /\ arrived <= arrived' /\ arrived' <= Total
      /\ limit' \in Nat \cup {None} /\ Closing'
  <2>1. CASE Arrive
    BY <1>2, <2>1 DEF Arrive, Inv, TypeOK, Closing
  <2>2. CASE CloseRemote
    BY <1>2, <2>2 DEF CloseRemote, Inv, TypeOK, Closing
  <2>3. CASE ReadEof \/ GiveUp
    BY <1>2, <2>3 DEF ReadEof, GiveUp, Inv, TypeOK, Closing
  <2> QED
    BY <2>1, <2>2, <2>3
<1>7. TypeOK'
  BY <1>1, <1>2, <1>4, <1>6 DEF Inv, TypeOK
<1> QED
  BY <1>2, <1>3, <1>5, <1>6, <1>7 DEF Inv

\* The invariant is inductive.
LEMMA Invariance == Inv /\ [Next]_vars => Inv'
<1> SUFFICES ASSUME Inv, [Next]_vars PROVE Inv'
  OBVIOUS
<1>1. ASSUME NEW n \in 1..MaxLen, Write(n) PROVE Inv'
  BY <1>1, WriteStep
<1>2. CASE UNCHANGED vars
  <2>1. Total' = Total /\ Layout' /\ \A k : NextAt(k)' = NextAt(k)
    BY <1>2, SameFrames DEF Inv, vars
  <2> QED
    BY <1>2, <2>1 DEF vars, reader, Inv, TypeOK, Delivery, Closing, InStep, OutOfStep,
                      FailsOnlyTorn, Reading
<1> QED
  BY <1>1, <1>2, OtherSteps, ReadHeaderStep, ReadBodyStep, HandleStep, CancelStep
     DEF Next, Step

\* It holds at the start.
LEMMA InitInv == Init => Inv
<1> SUFFICES ASSUME Init PROVE Inv
  OBVIOUS
<1> USE StreamAssumption DEF StreamAssumption
<1>1. /\ frames = <<>> /\ delivered = <<>> /\ counter = 0 /\ read = <<>>
      /\ torn = FALSE /\ end = None /\ limit = None
  BY DEF Init
<1>2. /\ frames \in Seq(Frame) /\ DOMAIN frames = {} /\ Len(frames) = 0
      /\ delivered \in Seq(Nat) /\ DOMAIN delivered = {} /\ Len(delivered) = 0
      /\ read \in Seq(Nat) /\ counter \in Nat
  BY <1>1
<1>3. Total = 0 /\ arrived = 0 /\ start = 0 /\ at = 0 /\ need = None
  BY DEF Init, Total
<1>4. torn \in BOOLEAN /\ end \in Ends \cup {None} /\ limit \in Nat \cup {None}
  BY <1>1
<1>5. TypeOK
  BY <1>2, <1>3, <1>4 DEF TypeOK
<1>6. Layout /\ Delivery /\ Closing /\ OutOfStep
  BY <1>1, <1>2 DEF Layout, Delivery, Closing, OutOfStep
<1>7. InStep /\ FailsOnlyTorn
  BY <1>1, <1>2, <1>3 DEF InStep, NextAt, FailsOnlyTorn
<1> QED
  BY <1>5, <1>6, <1>7 DEF Inv

LEMMA Invariant == Spec => []Inv
BY InitInv, Invariance, PTL DEF Spec

-----------------------------------------------------------------------------
(* The theorems.                                                           *)

\* Types, and the reader behind the bytes that have arrived.
THEOREM TypeInvariant == Spec => []TypeOK
<1>1. Inv => TypeOK
  BY DEF Inv
<1> QED
  BY <1>1, Invariant, PTL

\* Only a read dropped half way makes decryption or a length fail.
THEOREM FailureIsTorn == Spec => []FailsOnlyTorn
<1>1. Inv => FailsOnlyTorn
  BY DEF Inv
<1> QED
  BY <1>1, Invariant, PTL

\* After such a read nothing is delivered.
THEOREM Deafness == Spec => TornIsDeaf
<1>1. ASSUME Inv, [Next]_vars PROVE [torn => delivered' = delivered]_vars
  <2> SUFFICES ASSUME torn PROVE delivered' = delivered
    OBVIOUS
  <2>1. CASE Handle
    BY <1>1, <2>1, HandleOutOfStep
  <2>2. CASE ~Handle
    BY <1>1, <2>2 DEF Next, Write, Arrive, CloseRemote, Step, ReadHeader, ReadBody, ReadEof,
                      Cancel, GiveUp, vars, handled
  <2> QED
    BY <2>1, <2>2
<1> QED
  BY <1>1, Invariant, PTL DEF Spec, TornIsDeaf

\* What read_frame returns are the frames written, whole, in order and once
\* each, until a read is dropped in the middle of one; each is decrypted.
THEOREM StreamIsPipe == Spec => ImplementsPipe
<1> USE StreamAssumption DEF StreamAssumption
<1> DEFINE pipe == <<Len(frames), read, end # None \/ torn>>
<1>1. Init => P!Init
  BY DEF Init, P!Init
<1>2. ASSUME Inv, [Next]_vars PROVE [P!Next]_pipe
  <2>1. ASSUME NEW n \in 1..MaxLen, Write(n) PROVE P!Write
    <3>1. Len(frames') = Len(frames) + 1
      BY <1>2, <2>1 DEF Write, Inv, TypeOK
    <3> QED
      BY <2>1, <3>1 DEF Write, P!Write, handled
  <2>2. CASE Handle
    <3>1. frames' = frames /\ end = None /\ torn' = torn
      BY <2>2 DEF Handle, Reading
    <3>2. CASE ~torn
      <4>1. /\ read' = Append(read, Len(delivered) + 1) /\ end' = end
            /\ Len(delivered) + 1 \in DOMAIN frames /\ read = delivered
        BY <1>2, <2>2, <3>2, HandleInStep DEF Inv, Delivery
      <4>2. Len(read) < Len(frames)
        BY <1>2, <4>1 DEF Inv, TypeOK
      <4> QED
        BY <3>1, <3>2, <4>1, <4>2 DEF P!Next, P!Take
    <3>3. CASE torn
      <4>1. read' = read
        BY <1>2, <2>2, <3>3, HandleOutOfStep
      <4> QED
        BY <3>1, <3>3, <4>1 DEF P!Next, P!Stop
    <3> QED
      BY <3>2, <3>3
  <2>3. CASE ReadHeader \/ ReadEof \/ GiveUp \/ Cancel
    <3>1. /\ frames' = frames /\ read' = read /\ (end' = end \/ end' # None)
          /\ torn' = torn \/ torn'
      BY <1>2, <2>3 DEF ReadHeader, ReadEof, GiveUp, Cancel, handled, Inv, TypeOK
    <3>2. CASE end' # None \/ torn'
      BY <3>1, <3>2 DEF P!Next, P!Stop
    <3>3. CASE end' = None /\ ~torn'
      <4>1. end = None /\ ~torn
        BY <2>3, <3>1, <3>3 DEF ReadHeader, ReadEof, GiveUp, Cancel
      <4> QED
        BY <3>1, <3>3, <4>1
    <3> QED
      BY <3>2, <3>3
  <2>4. CASE Arrive \/ CloseRemote \/ ReadBody \/ UNCHANGED vars
    BY <2>4 DEF Arrive, CloseRemote, ReadBody, vars, handled
  <2> QED
    BY <1>2, <2>1, <2>2, <2>3, <2>4 DEF Next, Step, P!Next
<1>3. Inv => (~torn => delivered = read)
  BY DEF Inv, Delivery
<1> QED
  BY <1>1, <1>2, <1>3, Invariant, PTL DEF Spec, ImplementsPipe, P!Spec
=============================================================================
