------------------------------ MODULE Notifier ------------------------------
(***************************************************************************)
(* notifications/notifier.rs, as the UI calls it for every message that    *)
(* arrives.  Time is a number of ticks; an Instant is kept as its age.     *)
(* With the window in front on_message_received changes nothing.           *)
(***************************************************************************)
EXTENDS Naturals, Sequences, Maps

CONSTANTS
    Peers,
    Window,         \* RATE_LIMIT_SECS, in ticks
    MaxMessages     \* bound: messages of a peer in one run of the program

ASSUME NotifierAssumption == Window \in Nat \ {0} /\ MaxMessages \in Nat

VARIABLES
    status,     \* of the program: "Running" or "Panicked"
    focused,    \* is the window in front?
    limits,     \* rate_limits: the age of last_sent and the count, by peer
    told,       \* history: what the user was told of each message, by peer
    quiet       \* history: ticks since the last notification about a peer

vars == <<status, focused, limits, told, quiet>>

\* How often a message, sent into the background since the program started,
\* was shown itself and was counted.
Told   == [previews : Nat, summaries : Nat]
Untold == [previews |-> 0, summaries |-> 0]

NoneTold == [p \in Peers |-> <<>>]
AllQuiet == [p \in Peers |-> Window]

Init ==
    /\ status = "Running" /\ focused \in BOOLEAN
    /\ limits = Empty /\ told = NoneTold /\ quiet = AllQuiet

-----------------------------------------------------------------------------
Min2(a, b) == IF a < b THEN a ELSE b

Tick ==
    /\ limits' = [p \in DOMAIN limits |->
                     [limits[p] EXCEPT !.age = Min2(@ + 1, Window)]]
    /\ quiet' = [p \in Peers |-> Min2(quiet[p] + 1, Window)]
    /\ UNCHANGED <<status, focused, told>>

Focus ==
    /\ status = "Running" /\ focused' = ~focused
    /\ UNCHANGED <<status, limits, told, quiet>>

-----------------------------------------------------------------------------
(* on_message_received.                                                    *)

\* Mutant: the window is a tick short.
WithinShort(p) == p \in DOMAIN limits /\ limits[p].age + 1 < Window

Within(p) == p \in DOMAIN limits /\ limits[p].age < Window
Count(p)  == IF p \in DOMAIN limits THEN limits[p].count ELSE 0

Arrives(p) == status = "Running" /\ ~focused /\ Len(told[p]) < MaxMessages

\* Mutant: the message that opens a window is not counted.
NotifyZero(p) ==
    /\ limits' = With(limits, p, [age |-> 0, count |-> 0])
    /\ quiet' = [quiet EXCEPT ![p] = 0]

\* last_sent = now, count = 1, and a notification about p is shown.
Notify(p) ==
    /\ limits' = With(limits, p, [age |-> 0, count |-> 1])
    /\ quiet' = [quiet EXCEPT ![p] = 0]

\* Mutant: every message of a burst starts the window anew.
BatchSliding(p) ==
    /\ Arrives(p) /\ Within(p)
    /\ limits' = With(limits, p, [age |-> 0, count |-> limits[p].count + 1])
    /\ told' = [told EXCEPT ![p] = Append(@, Untold)]
    /\ UNCHANGED <<status, focused, quiet>>

Batch(p) ==
    /\ Arrives(p) /\ Within(p)
    /\ limits' = [limits EXCEPT ![p].count = @ + 1]
    /\ told' = [told EXCEPT ![p] = Append(@, Untold)]
    /\ UNCHANGED <<status, focused, quiet>>

\* The last n messages are among those the summary counts.
Summed(s, n) ==
    [i \in DOMAIN s |-> IF i + n > Len(s) THEN [s[i] EXCEPT !.summaries = @ + 1] ELSE s[i]]

\* Mutant: the summary leaves the count as it is.
SummariseKeeps(p) ==
    /\ Arrives(p) /\ ~Within(p) /\ Count(p) > 1
    /\ limits' = [limits EXCEPT ![p].age = 0]
    /\ quiet' = [quiet EXCEPT ![p] = 0]
    /\ told' = [told EXCEPT ![p] = Append(Summed(@, Count(p)), Untold)]
    /\ UNCHANGED <<status, focused>>

\* "... sent n messages": those before this one, which is in no notification yet.
Summarise(p) ==
    /\ Arrives(p) /\ ~Within(p) /\ Count(p) > 1
    /\ Notify(p)
    /\ told' = [told EXCEPT ![p] = Append(Summed(@, Count(p)), Untold)]
    /\ UNCHANGED <<status, focused>>

\* Mutant: a burst of two is not worth a summary.
PreviewSooner(p) ==
    /\ Arrives(p) /\ ~Within(p) /\ Count(p) <= 2
    /\ Notify(p)
    /\ told' = [told EXCEPT ![p] = Append(@, [Untold EXCEPT !.previews = 1])]
    /\ UNCHANGED <<status, focused>>

Preview(p) ==
    /\ Arrives(p) /\ ~Within(p) /\ Count(p) <= 1
    /\ Notify(p)
    /\ told' = [told EXCEPT ![p] = Append(@, [Untold EXCEPT !.previews = 1])]
    /\ UNCHANGED <<status, focused>>

\* The text is longer than 60 bytes and byte 60 is inside a character: the
\* slice panics, in the thread of the UI; what is in memory is lost with it.
Panic(p) ==
    /\ Arrives(p) /\ ~Within(p) /\ Count(p) <= 1
    /\ status' = "Panicked"
    /\ UNCHANGED <<focused, limits, told, quiet>>

\* The program ends, by itself or not, and is started again; the limits were
\* in memory only.
Restart ==
    /\ status' = "Running" /\ focused' \in BOOLEAN
    /\ limits' = Empty /\ told' = NoneTold /\ quiet' = AllQuiet

Next ==
    \/ Tick \/ Focus \/ Restart
    \/ \E p \in Peers : Batch(p) \/ Summarise(p) \/ Preview(p) \/ Panic(p)

Spec == Init /\ [][Next]_vars

(***************************************************************************)
(* Properties                                                              *)
(***************************************************************************)

Limit == [age : 0..Window, count : Nat \ {0}]

TypeOK ==
    /\ status \in {"Running", "Panicked"} /\ focused \in BOOLEAN
    /\ DOMAIN limits \subseteq Peers /\ \A p \in DOMAIN limits : limits[p] \in Limit
    /\ told \in [Peers -> Seq(Told)] /\ \A p \in Peers : Len(told[p]) <= MaxMessages
    /\ quiet \in [Peers -> 0..Window]

\* A message that arrives in the background raises a notification if, and only
\* if, the last one about its peer is a window ago: never sooner, and a peer that
\* writes without pause cannot put the next one off either.  A restart forgets.
Raised(p) ==
    \/ told'[p][Len(told'[p])].previews > 0
    \/ \E i \in DOMAIN told[p] : told'[p][i] # told[p][i]
OnePerWindow ==
    [][\A p \in Peers :
          Len(told'[p]) > Len(told[p]) => (Raised(p) <=> quiet[p] = Window)]_vars

\* No message is counted by two summaries, and no summary will count a message
\* that did not arrive, although the count outlives the windows and the focus.
CountedOnce ==
    \A p \in Peers :
        /\ Count(p) <= Len(told[p])
        /\ \A i \in DOMAIN told[p] :
              told[p][i].summaries <= IF i + Count(p) > Len(told[p]) THEN 0 ELSE 1

\* Messages that are counted wait for the next message of their peer: the last
\* burst of all is never told of (NoneMissed).  Once that next message has come,
\* one alone is passed over for good: the one that brought a summary about, which
\* is not in it, and then stayed alone in its window.  The messages on both sides
\* of it are told of, the one before in that summary, the one after by itself.
Silent(t) == t.previews = 0 /\ t.summaries = 0
OnlyTriggerMissed ==
    \A p \in Peers : \A i \in DOMAIN told[p] :
        i + Count(p) <= Len(told[p]) /\ Silent(told[p][i])
          => /\ i > 1 /\ told[p][i - 1].summaries = 1
             /\ i < Len(told[p]) /\ told[p][i + 1].previews > 0

-----------------------------------------------------------------------------
(* What the requirements say and the code does not do.                     *)

\* FR-NOT-02, "shall raise an OS-level notification on message receipt", read
\* with FR-NOT-03: once the window is over every message is previewed or counted.
NoneMissed ==
    \A p \in Peers :
        quiet[p] = Window => \A i \in DOMAIN told[p] : ~Silent(told[p][i])

\* FR-NOT-02: receiving a message in the background never ends the program.
NeverPanics == status = "Running"
=============================================================================
