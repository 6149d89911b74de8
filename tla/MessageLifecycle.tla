-------------------------- MODULE MessageLifecycle --------------------------
(***************************************************************************)
(* What the code promises of sending, message by message: a message is     *)
(* tried once and either handed to a stream or rejected; one handed over   *)
(* is written or lost, a rejected one is neither; and the user is shown,   *)
(* after Pending and for good, which of the two it was: Sent for handed    *)
(* over, Failed for rejected.                                              *)
(*                                                                         *)
(* This is less than FR-MSG-05 and FR-MSG-06 of the FRD ask, for which     *)
(* Sent means written and a message lost in a failing write is Failed:     *)
(* ConnectionManager!SentIsNotLost says the least of that, and a run       *)
(* refutes it.                                                             *)
(***************************************************************************)
CONSTANT Messages

VARIABLES
    fate,   \* "idle", "pending", "handed", "written", "lost" or "rejected"
    shown   \* the status the user sees

Init ==
    /\ fate = [m \in Messages |-> "idle"]
    /\ shown = [m \in Messages |-> "None"]

Become(m, from, next) == fate[m] = from /\ fate' = [fate EXCEPT ![m] = next]

Submit(m) ==
    /\ Become(m, "idle", "pending")
    /\ shown' = [shown EXCEPT ![m] = "Pending"]

HandOver(m) == Become(m, "pending", "handed") /\ UNCHANGED shown
Reject(m)   == Become(m, "pending", "rejected") /\ UNCHANGED shown
Write(m)    == Become(m, "handed", "written") /\ UNCHANGED shown

\* A stream ends with what was handed to it and not written yet; nobody tells
\* the sender or the user.
Lose ==
    /\ \E lost \in SUBSET {m \in Messages : fate[m] = "handed"} :
         fate' = [m \in Messages |-> IF m \in lost THEN "lost" ELSE fate[m]]
    /\ UNCHANGED shown

\* The verdict is that of handing over, whatever became of the message since.
Show(m) ==
    /\ shown[m] = "Pending"
    /\ \/ fate[m] \in {"handed", "written", "lost"}
          /\ shown' = [shown EXCEPT ![m] = "Sent"]
       \/ fate[m] = "rejected" /\ shown' = [shown EXCEPT ![m] = "Failed"]
    /\ UNCHANGED fate

Next ==
    \/ \E m \in Messages :
         Submit(m) \/ HandOver(m) \/ Reject(m) \/ Write(m) \/ Show(m)
    \/ Lose

Spec == Init /\ [][Next]_<<fate, shown>>
=============================================================================
