-------------------------------- MODULE Pipe --------------------------------
(***************************************************************************)
(* What a stream of frames promises the session loop that reads it: frames *)
(* come out in the order they went in, none twice and none skipped, until  *)
(* the stream stops, which it may do at any time and for good.  This is    *)
(* all ConnectionManager assumes of a stream.                              *)
(***************************************************************************)
EXTENDS Naturals, Sequences

VARIABLES
    written,    \* number of frames put in; they are numbered from 1
    taken,      \* the frames that came out, in that order
    stopped

Init == written = 0 /\ taken = <<>> /\ stopped = FALSE

Write == written' = written + 1 /\ UNCHANGED <<taken, stopped>>

Take ==
    /\ ~stopped /\ Len(taken) < written
    /\ taken' = Append(taken, Len(taken) + 1)
    /\ UNCHANGED <<written, stopped>>

Stop == stopped' = TRUE /\ UNCHANGED <<written, taken>>

Next == Write \/ Take \/ Stop

Spec == Init /\ [][Next]_<<written, taken, stopped>>
=============================================================================
