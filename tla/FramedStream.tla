---------------------------- MODULE FramedStream ----------------------------
(***************************************************************************)
(* network/framed.rs with the reading branch of the session loop of        *)
(* network/connection_manager.rs, over one direction of a TCP stream whose *)
(* other end runs the same code.                                           *)
(*                                                                         *)
(* Bytes are positions: a frame is a header of HeaderLen bytes that holds  *)
(* the length of its body.  What a header that starts in the middle of a   *)
(* frame says is arbitrary.  The Noise session is a counter at either end: *)
(* frames are encrypted in the order they are written, under the numbers   *)
(* 1, 2, ..., and a body decrypts if it is a whole frame with the number   *)
(* after those this end has decrypted.                                     *)
(***************************************************************************)
EXTENDS Naturals, Sequences

CONSTANTS
    HeaderLen,      \* bytes of the length, a u32
    MaxLen,         \* MAX_WIRE_FRAME_SIZE
    MaxFrames,      \* bound: frames written on one stream
    None            \* no length yet, no end yet

ASSUME StreamAssumption ==
    /\ HeaderLen \in Nat \ {0} /\ MaxLen \in Nat \ {0} /\ MaxFrames \in Nat
    /\ None \notin Nat /\ None \notin {"Eof", "Write", "Stalled", "Decrypt", "TooLong"}

VARIABLES
    frames,     \* frames the other end has written: where they start, their length
    arrived,    \* bytes that have arrived
    limit,      \* where the stream ends, once the other end has closed it
    start,      \* where the reader took up its present frame
    at,         \* the next byte it will get
    need,       \* the length it has read from the header
    counter,    \* of the receiving half of the Noise session
    delivered,  \* the frames decrypted and handled so far, by number
    end,        \* why the session loop was left
    torn,       \* history: has a read been dropped in the middle of a frame?
    read        \* history: until then, the frames read_frame has returned, by number

reader == <<start, at, need>>
handled == <<counter, delivered, read>>
vars   == <<frames, arrived, limit, start, at, need, counter, delivered, end, torn, read>>

Frame   == [at : Nat, len : 1..MaxLen]
Ends    == {"Eof", "Write", "Stalled", "Decrypt", "TooLong"}
After(f) == f.at + HeaderLen + f.len
Total   == IF frames = <<>> THEN 0 ELSE After(frames[Len(frames)])

Init ==
    /\ frames = <<>> /\ arrived = 0 /\ limit = None
    /\ start = 0 /\ at = 0 /\ need = None
    /\ counter = 0 /\ delivered = <<>> /\ end = None
    /\ torn = FALSE /\ read = <<>>

-----------------------------------------------------------------------------
(* The other end and the network.                                          *)

\* write_frame; a transport packet has at least its type byte.
Write(n) ==
    /\ limit = None /\ Len(frames) < MaxFrames
    /\ frames' = Append(frames, [at |-> Total, len |-> n])
    /\ UNCHANGED <<arrived, limit, reader, handled, end, torn>>

Arrive ==
    /\ \E n \in arrived + 1 .. (IF limit = None THEN Total ELSE limit) : arrived' = n
    /\ UNCHANGED <<frames, limit, reader, handled, end, torn>>

\* The other end goes away, possibly in the middle of a write.
CloseRemote ==
    /\ limit = None
    /\ limit' \in arrived .. Total
    /\ UNCHANGED <<frames, arrived, reader, handled, end, torn>>

-----------------------------------------------------------------------------
(* read_frame.                                                             *)

Reading  == end = None
BodyAt   == start + HeaderLen
Complete == need # None /\ at = BodyAt + need

FramesAt(p) == {k \in DOMAIN frames : frames[k].at = p}

\* Mutant: the length is taken to include the header.
LengthsWithHeader(p) ==
    IF FramesAt(p) = {} THEN 0 .. MaxLen + 1
    ELSE {frames[k].len + HeaderLen : k \in FramesAt(p)}

\* What a header read at p may say.
Lengths(p) ==
    IF FramesAt(p) = {} THEN 0 .. MaxLen + 1 ELSE {frames[k].len : k \in FramesAt(p)}

\* Mutant: a read is taken to fill its buffer.
ChunkWhole(to) == at < to /\ at < arrived /\ at' = to

\* Mutant: the bytes that follow are taken with the frame.
ChunkGreedy(to) == at < to /\ at < arrived /\ at' = arrived

\* The bytes on hand are taken, up to what the read asks for.
Chunk(to) == at < to /\ at < arrived /\ at' = IF to < arrived THEN to ELSE arrived

ReadHeader ==
    /\ Reading /\ need = None
    /\ Chunk(BodyAt)
    /\ IF at' < BodyAt THEN UNCHANGED <<need, end>>
       ELSE \E n \in Lengths(start) :
              /\ need' = n
              /\ end' = IF n > MaxLen THEN "TooLong" ELSE end
    /\ UNCHANGED <<frames, arrived, limit, start, handled, torn>>

ReadBody ==
    /\ Reading /\ need # None
    /\ Chunk(BodyAt + need)
    /\ UNCHANGED <<frames, arrived, limit, start, need, handled, end, torn>>

\* The stream ends before the read is satisfied.
ReadEof ==
    /\ Reading /\ ~Complete
    /\ limit # None /\ at = limit
    /\ end' = "Eof"
    /\ UNCHANGED <<frames, arrived, limit, reader, handled, torn>>

-----------------------------------------------------------------------------
(* The session loop.                                                       *)

\* read_frame has returned frame k, from its first byte to its last.
Whole(k) == frames[k].at = start /\ After(frames[k]) = at

\* Mutant: the counter of the cipher is not checked.
AuthenticUncounted(k) == Whole(k)

\* decrypt accepts it: the frame is whole, and its number is the session's next.
Authentic(k) == Whole(k) /\ k = counter + 1

\* The number of the frame that was read, 0 if it is none that was written.
Returned == IF \E k \in DOMAIN frames : Whole(k)
              THEN CHOOSE k \in DOMAIN frames : Whole(k) ELSE 0

\* The frame is decrypted and handled; refused by decrypt; or, out of step with
\* the frames written, empty or of another type, and skipped.
Decrypt ==
    \/ \E k \in DOMAIN frames :
          /\ Authentic(k)
          /\ counter' = counter + 1 /\ delivered' = Append(delivered, k)
          /\ end' = end
    \/ /\ \A k \in DOMAIN frames : ~Authentic(k)
       /\ end' = "Decrypt"
       /\ UNCHANGED <<counter, delivered>>
    \/ /\ FramesAt(start) = {}
       /\ UNCHANGED <<counter, delivered, end>>

\* Mutant: the length is kept from one read_frame to the next.
HandleKeepsLength ==
    /\ Reading /\ Complete
    /\ Decrypt
    /\ read' = IF torn THEN read ELSE Append(read, Returned)
    /\ start' = at /\ need' = need
    /\ UNCHANGED <<frames, arrived, limit, at, torn>>

\* read_frame returns.  Nothing is awaited before the frame is decrypted.
Handle ==
    /\ Reading /\ Complete
    /\ Decrypt
    /\ read' = IF torn THEN read ELSE Append(read, Returned)
    /\ start' = at /\ need' = None
    /\ UNCHANGED <<frames, arrived, limit, at, torn>>

\* A packet is ready in out_rx: select! takes that branch and drops the read.
Cancel ==
    /\ Reading /\ ~Complete
    /\ start' = at /\ need' = None
    /\ torn' = (torn \/ at > start)
    /\ UNCHANGED <<frames, arrived, limit, at, handled, end>>

\* Writing that packet fails, or handling a packet waits for ever on a channel.
GiveUp ==
    /\ Reading
    /\ end' \in {"Write", "Stalled"}
    /\ UNCHANGED <<frames, arrived, limit, reader, handled, torn>>

Step == ReadHeader \/ ReadBody \/ ReadEof \/ Handle

Next ==
    \/ \E n \in 1..MaxLen : Write(n)
    \/ Arrive
    \/ CloseRemote
    \/ Step
    \/ Cancel
    \/ GiveUp

\* Bytes arrive or the stream ends; the loop polls the read when they have.
Fairness == WF_vars(Arrive) /\ WF_vars(Step)

Spec     == Init /\ [][Next]_vars
FairSpec == Spec /\ Fairness

(***************************************************************************)
(* Properties                                                              *)
(***************************************************************************)

\* Types; and the reader is behind the bytes that have arrived.
TypeOK ==
    /\ frames \in Seq(Frame) /\ Len(frames) <= MaxFrames
    /\ arrived \in Nat /\ limit \in Nat \cup {None}
    /\ start \in Nat /\ at \in Nat /\ need \in Nat \cup {None}
    /\ counter \in Nat /\ delivered \in Seq(Nat) /\ read \in Seq(Nat)
    /\ end \in Ends \cup {None}
    /\ torn \in BOOLEAN
    /\ start <= at /\ at <= arrived /\ arrived <= Total

\* What read_frame returns, before the cipher has looked at it, are the frames
\* written, whole, in order and once each, however their bytes arrive, until a
\* read is dropped in the middle of a frame or the loop ends; and all that it
\* returns until then is decrypted and handled.
P == INSTANCE Pipe
       WITH written <- Len(frames), taken <- read, stopped <- (end # None \/ torn)
ImplementsPipe == P!Spec /\ [](~torn => delivered = read)

\* The reader loses its place only through a dropped read: if decryption or a
\* length fails between two ends that follow the protocol, a read_frame was
\* cancelled in the middle of a frame.
FailsOnlyTorn == end \in {"Decrypt", "TooLong"} => torn

\* After such a read nothing is delivered any more, not even frames that are
\* read from their first byte: the session looks alive and is deaf.
TornIsDeaf == [][torn => delivered' = delivered]_vars

\* Every frame written is delivered, unless the loop ends or has lost its place:
\* partial headers, split bodies and several frames at a time delay it only.
FramesDelivered ==
    \A k \in 1..MaxFrames :
        Len(frames) >= k ~> Len(delivered) >= k \/ torn \/ end # None

-----------------------------------------------------------------------------
(* What the requirements say and the code does not do.                     *)

\* FRD, acceptance: messages are "encrypted and decrypted successfully
\* end-to-end"; the reader never takes a frame it cannot decrypt.
DecryptsEverything == end \notin {"Decrypt", "TooLong"}
=============================================================================
