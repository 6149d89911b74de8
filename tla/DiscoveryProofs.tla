-------------------------- MODULE DiscoveryProofs --------------------------
(***************************************************************************)
(* What the peer has recorded of the machine, for every number of resets   *)
(* and faults, any delay, loss and repetition of announcements, failing    *)
(* writes, and any limit of two peers or more.                             *)
(***************************************************************************)
EXTENDS Discovery, StartupProofs, FiniteSetTheorems

\* What is proved of the tracker, of the listening machine's.
Proved == INSTANCE PeerTrackerProofs
    WITH Fingerprints <- Prints, Hostnames <- {Host}, WriteOutcomes <- BOOLEAN

-----------------------------------------------------------------------------
(* The announcing machine.                                                 *)

\* Each step of the two machines is one of the announcing one, or none.
LEMMA AnnouncerSteps == [DiscoveryNext]_allVars => [Next]_vars
BY DEF DiscoveryNext, allVars, Local, Announce, Hear, Process, Meet, Rejoin

\* The announcing machine is the one of Startup: what StartupProofs says of that
\* one is true here too.
LEMMA AnnouncerIsStartup == DiscoverySpec => Spec
<1>1. DiscoveryInit => Init
  BY DEF DiscoveryInit
<1> QED
  BY <1>1, AnnouncerSteps, PTL DEF DiscoverySpec, Spec

LEMMA AnnouncerInv == DiscoverySpec => []Inv
BY AnnouncerIsStartup, Invariant, PTL

\* The causes of a change: what resets and recoveries there were.
Causes == resets + recoveries

\* Within a step the machine may get a cause or use one it has, and launches
\* under another fingerprint only if it has one.
LEMMA LaunchHasCause ==
  ASSUME Inv, [Next]_vars
  PROVE  /\ Causes \in Nat /\ Causes' \in Nat /\ Causes' >= Causes
         /\ \/ /\ advertised' \in {advertised, 0}
               /\ \/ used'.ed = used.ed /\ excused' = excused
                  \/ excused
                  \/ Causes' > Causes
            \/ /\ advertised' = used'.ed /\ used'.ed # 0 /\ ~excused'
               /\ excused \/ used.ed = 0 \/ used'.ed = used.ed
<1> USE DEF Causes
<1>a. TypeOK /\ resets \in Nat /\ recoveries \in Nat
  BY StartupAssumption DEF StartupAssumption, Inv, TypeOK
<1>1. CASE UNCHANGED vars
  BY <1>a, <1>1 DEF vars, process, history
<1>2. CASE Crash \/ Damage \/ Abort \/ Quit \/ Checkpoint
  BY <1>a, <1>2 DEF Crash, Damage, Abort, Quit, Checkpoint, Off, process, history
<1>3. CASE Start \/ Check \/ Open
  BY <1>a, <1>3 DEF Start, Check, Open, Goto, history
<1>4. CASE Recover
  BY <1>a, <1>4 DEF Recover, SetAside, LoseJournal, Goto
<1>5. CASE Load
  <2>1. CASE Saved
    <3>1. /\ advertised' = file.ed /\ used'.ed = file.ed /\ file.ed # 0 /\ ~excused'
          /\ resets' = resets /\ recoveries' = recoveries
      BY <1>5, <2>1 DEF Load, Launch, Saved
    <3>2. ~excused /\ used.ed # 0 => file.ed = used.ed
      BY DEF Inv, Kept, NoKeys
    <3> QED
      BY <1>a, <3>1, <3>2
  <2>2. CASE ~Saved
    BY <1>a, <1>5, <2>2 DEF Load, Generate
  <2> QED
    BY <2>1, <2>2
<1>6. CASE Create
  <2>1. CASE phase # "x"
    BY <1>a, <1>6, <2>1 DEF Create, Goto
  <2>2. CASE phase = "x"
    <3>1. /\ advertised' = fresh /\ used'.ed = fresh /\ ~excused'
          /\ resets' = resets /\ recoveries' = recoveries
      BY <1>6, <2>2 DEF Create, Goto, Launch
    <3>2. fresh # 0
      BY <1>a, <2>2 DEF Inv, Numbers, Creating, TypeOK
    <3>3. excused \/ used.ed = 0
      BY <2>2 DEF Inv, Kept, Creating, NoKeys
    <3> QED
      BY <1>a, <3>1, <3>2, <3>3
  <2> QED
    BY <2>1, <2>2
<1>7. CASE BeginReset \/ ResetFails
  BY <1>a, <1>7 DEF BeginReset, ResetFails, Generate, history
<1>8. CASE Reset
  <2>1. excused
    BY <1>8 DEF Reset, Inv, Progress, Resetting
  <2>2. advertised' = advertised /\ resets' = resets /\ recoveries' = recoveries
    BY <1>8 DEF Reset, Goto
  <2> QED
    BY <1>a, <2>1, <2>2
<1>9. ASSUME NEW n, SetNickname(n) PROVE used'.ed = used.ed /\ excused' = excused
                                        /\ advertised' = advertised /\ Causes' = Causes
  BY <1>a, <1>9 DEF SetNickname, TypeOK, State
<1>10. ASSUME NEW m, Store(m)
       PROVE  UNCHANGED <<used, excused, advertised, resets, recoveries>>
  BY <1>10 DEF Store, process, history
<1> QED
  BY <1>a, <1>1, <1>2, <1>3, <1>4, <1>5, <1>6, <1>7, <1>8, <1>9, <1>10 DEF Next, Launching

\* Every announcement is under keys that have been made.
Announced ==
    /\ advertised <= made
    /\ \A f \in air : f \in Nat \ {0} /\ f <= made

LEMMA AnnouncedStep == Inv /\ Announced /\ [DiscoveryNext]_allVars => Announced'
<1> SUFFICES ASSUME Inv, Announced, [DiscoveryNext]_allVars PROVE Announced'
  OBVIOUS
<1>1. [Next]_vars /\ Inv' /\ advertised \in Nat /\ made \in Nat
  BY AnnouncerSteps, Invariance DEF Inv, TypeOK
<1>2. made' \in Nat /\ made' >= made
  BY <1>1 DEF Next, Launching, Crash, Damage, Abort, Checkpoint, Quit, Start, Check, Recover,
      Open, Load, Create, BeginReset, Reset, ResetFails, Generate, SetNickname, Store, vars
<1>3. advertised' <= made'
  <2>1. advertised' \in {advertised, 0} \/ advertised' = used'.ed
    BY <1>1, LaunchHasCause
  <2>2. used'.ed <= made'
    BY <1>1 DEF Inv, Numbers
  <2> QED
    BY <1>1, <1>2, <2>1, <2>2 DEF Announced
<1>4. air' \subseteq air \cup ({advertised} \ {0})
  BY DEF DiscoveryNext, Local, Announce, Hear, Process, Meet, Rejoin, network, allVars
<1> QED
  BY <1>1, <1>2, <1>3, <1>4 DEF Announced

\* Prints leaves out no fingerprint that is ever announced: Hear can take each.
THEOREM PrintsSuffice == DiscoverySpec => [](air \cup {advertised} \subseteq Prints \cup {0})
<1>1. DiscoveryInit => Announced
  BY DEF DiscoveryInit, Init, Announced
<1>2. Inv /\ Announced /\ GeneratedOnce => air \cup {advertised} \subseteq Prints \cup {0}
  BY StartupAssumption
     DEF StartupAssumption, Inv, TypeOK, Announced, GeneratedOnce, Prints
<1> QED
  BY <1>1, <1>2, AnnouncedStep, AnnouncerInv, AnnouncerIsStartup, MadeOnce, PTL
     DEF DiscoverySpec

-----------------------------------------------------------------------------
(* Fingerprints in the world.                                              *)

\* Those that are announced, on their way or recorded.
Heard == {found[i] : i \in 1..Len(found)}
Known == (air \cup Heard \cup Tracker!Stored \cup {advertised}) \ {0}

\* The machine may yet launch under one that is none of them, without a further
\* cause: at its first launch, after a reset or recovery, or when the latest is
\* no longer known to anybody.
Owed == IF excused \/ used.ed \notin Known THEN 1 ELSE 0

Tally ==
    /\ found \in Seq(Int)
    /\ IsFiniteSet(Known)
    /\ Cardinality(Known) + Owed <= 1 + Causes

\* Nobody learns anything new.
LEMMA TallyKept ==
  ASSUME Inv, Tally, Causes \in Nat, Causes' \in Nat, Causes' >= Causes,
         Known' \subseteq Known, found' \in Seq(Int),
         \/ used'.ed = used.ed /\ excused' = excused
         \/ excused
         \/ Causes' > Causes
  PROVE  Tally'
<1>1. IsFiniteSet(Known) /\ IsFiniteSet(Known')
  BY FS_Subset DEF Tally
<1>2. /\ Cardinality(Known) \in Nat /\ Cardinality(Known') \in Nat
      /\ Cardinality(Known') <= Cardinality(Known)
  BY <1>1, FS_Subset, FS_CardinalityType
<1>3. Owed \in {0, 1} /\ Owed' \in {0, 1}
  BY DEF Owed
<1>4. Cardinality(Known) + Owed <= 1 + Causes
  BY DEF Tally
<1>5. CASE Owed' = 0 \/ Owed = 1 \/ Causes' > Causes
  BY <1>1, <1>2, <1>3, <1>4, <1>5 DEF Tally
<1>6. CASE Owed' = 1 /\ Owed = 0 /\ Causes' = Causes
  <2>1. used.ed \in Known /\ used.ed \notin Known'
    BY <1>6 DEF Owed
  <2>2. Known' \subseteq Known \ {used.ed} /\ IsFiniteSet(Known \ {used.ed})
    BY <1>1, <2>1, FS_Subset
  <2>3. Cardinality(Known \ {used.ed}) = Cardinality(Known) - 1
    BY <1>1, <2>1, FS_RemoveElement
  <2>4. Cardinality(Known') <= Cardinality(Known) - 1
    BY <2>2, <2>3, FS_Subset
  <2> QED
    BY <1>1, <1>2, <1>4, <1>6, <2>4 DEF Tally
<1> QED
  BY <1>3, <1>5, <1>6

\* A launch uses up what was owed.
LEMMA TallyLaunched ==
  ASSUME Inv, Tally, Causes \in Nat, Causes' \in Nat, Causes' >= Causes, found' \in Seq(Int),
         Known' \subseteq Known \cup {used'.ed}, used'.ed \in Known', ~excused',
         excused \/ used.ed = 0 \/ used'.ed = used.ed
  PROVE  Tally'
<1>1. IsFiniteSet(Known) /\ IsFiniteSet(Known \cup {used'.ed})
  BY FS_AddElement DEF Tally
<1>2. IsFiniteSet(Known') /\ Cardinality(Known') <= Cardinality(Known \cup {used'.ed})
  BY <1>1, FS_Subset
<1>3. /\ Cardinality(Known) \in Nat /\ Cardinality(Known') \in Nat
      /\ Cardinality(Known \cup {used'.ed}) \in Nat
      /\ Cardinality(Known \cup {used'.ed}) <= Cardinality(Known) + 1
  <2>1. /\ Cardinality(Known) \in Nat /\ Cardinality(Known') \in Nat
        /\ Cardinality(Known \cup {used'.ed}) \in Nat
    BY <1>1, <1>2, FS_CardinalityType
  <2>2. \/ Cardinality(Known \cup {used'.ed}) = Cardinality(Known)
        \/ Cardinality(Known \cup {used'.ed}) = Cardinality(Known) + 1
    BY <1>1, FS_AddElement
  <2> QED
    BY <2>1, <2>2
<1>4. Cardinality(Known) + Owed <= 1 + Causes /\ Owed' = 0 /\ Owed \in {0, 1}
  BY DEF Tally, Owed
<1>5. CASE Owed = 1
  BY <1>2, <1>3, <1>4, <1>5 DEF Tally
<1>6. CASE Owed = 0
  <2>1. ~excused /\ used.ed \in Known /\ used.ed # 0
    BY <1>6 DEF Owed, Known
  <2>2. Known \cup {used'.ed} = Known
    BY <2>1
  <2>3. Cardinality(Known') <= Cardinality(Known)
    BY <1>2, <2>2
  <2> QED
    BY <1>2, <1>3, <1>4, <2>3 DEF Tally
<1> QED
  BY <1>4, <1>5, <1>6

\* What the tracker does to its table when it takes an announcement.
LEMMA DiscoverStores ==
  ASSUME NEW f, NEW ok, Tracker!Discover(f, Host, ok)
  PROVE  Tracker!Stored' \subseteq Tracker!Stored \cup {f}
BY DEF Tracker!Discover, Tracker!Register, Tracker!RegisterKnown, Tracker!RegisterNew,
       Tracker!Upsert, Tracker!With, Tracker!Stored

LEMMA TallyStep == Inv /\ Tally /\ [DiscoveryNext]_allVars => Tally'
<1> SUFFICES ASSUME Inv, Tally, [DiscoveryNext]_allVars PROVE Tally'
  OBVIOUS
<1>a. found \in Seq(Int)
  BY DEF Tally
<1>1. Causes \in Nat /\ Causes' \in Nat /\ Causes' >= Causes
  BY AnnouncerSteps, LaunchHasCause
<1>2. ASSUME UNCHANGED vars, Known' \subseteq Known, found' \in Seq(Int) PROVE Tally'
  BY <1>1, <1>2, TallyKept DEF vars, history
<1>3. CASE Local
  <2>1. air' = air /\ Heard' = Heard /\ Tracker!Stored' = Tracker!Stored /\ found' = found
    BY <1>3 DEF Local, network, listener, Heard, Tracker!Stored
  <2>2. CASE advertised' \in {advertised, 0}
    <3>1. Known' \subseteq Known
      BY <2>1, <2>2 DEF Known
    <3>2. \/ used'.ed = used.ed /\ excused' = excused
          \/ excused
          \/ Causes' > Causes
          \/ /\ advertised' = used'.ed /\ used'.ed # 0 /\ ~excused'
             /\ excused \/ used.ed = 0 \/ used'.ed = used.ed
      BY AnnouncerSteps, LaunchHasCause
    <3>3. CASE advertised' = used'.ed /\ used'.ed # 0 /\ ~excused'
               /\ (excused \/ used.ed = 0 \/ used'.ed = used.ed)
      BY <1>1, <1>a, <2>1, <3>1, <3>3, TallyLaunched DEF Known
    <3> QED
      BY <1>1, <1>a, <2>1, <3>1, <3>2, <3>3, TallyKept
  <2>3. CASE advertised' \notin {advertised, 0}
    <3>1. /\ advertised' = used'.ed /\ used'.ed # 0 /\ ~excused'
          /\ excused \/ used.ed = 0 \/ used'.ed = used.ed
      BY <2>3, AnnouncerSteps, LaunchHasCause
    <3>2. Known' \subseteq Known \cup {used'.ed} /\ used'.ed \in Known'
      BY <2>1, <3>1 DEF Known
    <3> QED
      BY <1>1, <1>a, <2>1, <3>1, <3>2, TallyLaunched
  <2> QED
    BY <2>2, <2>3
<1>4. CASE Announce
  <2>1. Known' \subseteq Known
    BY <1>4 DEF Announce, Known, Heard, vars, process, listener, Tracker!Stored
  <2> QED
    BY <1>2, <1>4, <1>a, <2>1 DEF Announce
<1>5. ASSUME NEW f \in Prints, NEW online \in BOOLEAN, Meet(f, online) PROVE Tally'
  <2>1. rows' = rows /\ UNCHANGED <<vars, network>>
    BY <1>5 DEF Meet, Tracker!SetState
  <2>2. Known' \subseteq Known
    BY <2>1 DEF Known, Heard, vars, process, network, Tracker!Stored
  <2> QED
    BY <1>2, <1>a, <2>1, <2>2 DEF network
<1>6. ASSUME NEW f \in Prints, Hear(f) PROVE Tally'
  <2>0. f \in Int
    BY DEF Prints
  <2>1. found' = Append(found, f) /\ found' \in Seq(Int)
    BY <1>6, <1>a, <2>0 DEF Hear
  <2>2. Heard' \subseteq Heard \cup {f}
    BY <1>a, <2>0, <2>1 DEF Heard
  <2>3. Known' \subseteq Known
    BY <1>6, <2>2 DEF Hear, Known, vars, process, listener, Tracker!Stored
  <2> QED
    BY <1>2, <1>6, <2>1, <2>3 DEF Hear
<1>7. ASSUME NEW f \in Prints, NEW ok \in BOOLEAN, Process(f, ok) PROVE Tally'
  <2>1. /\ found # <<>> /\ Head(found) = f /\ found' = Tail(found)
        /\ UNCHANGED <<vars, air>>
    BY <1>7 DEF Process
  <2>2. found' \in Seq(Int) /\ f \in Heard /\ Heard' \subseteq Heard
    BY <1>a, <2>1 DEF Heard
  <2>3. Tracker!Stored' \subseteq Tracker!Stored \cup {f}
    BY <1>7, DiscoverStores DEF Process, listener, Tracker!Stored
  <2>4. Known' \subseteq Known
    BY <2>1, <2>2, <2>3 DEF Known, vars, process
  <2> QED
    BY <1>2, <2>1, <2>2, <2>4
<1>8. CASE Rejoin
  <2>1. found' = <<>> /\ found' \in Seq(Int) /\ rows' = rows /\ UNCHANGED <<vars, air>>
    BY <1>8 DEF Rejoin, Tracker!Restart
  <2>2. Heard' = {}
    BY <2>1 DEF Heard
  <2>3. Known' \subseteq Known
    BY <2>1, <2>2 DEF Known, Tracker!Stored, vars, process
  <2> QED
    BY <1>2, <2>1, <2>3
<1>9. CASE UNCHANGED allVars
  <2>1. Known' \subseteq Known
    BY <1>9 DEF allVars, Known, Heard, Tracker!Stored, vars, process, network, listener
  <2> QED
    BY <1>2, <1>9, <1>a, <2>1 DEF allVars, network
<1> QED
  BY <1>3, <1>4, <1>5, <1>6, <1>7, <1>8, <1>9 DEF DiscoveryNext

LEMMA InitTally == DiscoveryInit => Tally
<1> SUFFICES ASSUME DiscoveryInit PROVE Tally
  OBVIOUS
<1>1. /\ found = <<>> /\ air = {} /\ rows = [k \in {} |-> {}]
      /\ advertised = 0 /\ resets = 0 /\ recoveries = 0
  BY DEF DiscoveryInit, Init, Tracker!Init, Tracker!Empty
<1>2. found \in Seq(Int) /\ Heard = {} /\ Tracker!Stored = {}
  BY <1>1 DEF Heard, Tracker!Stored
<1>3. Known = {}
  BY <1>1, <1>2 DEF Known
<1>4. IsFiniteSet(Known) /\ Cardinality(Known) = 0
  BY <1>3, FS_EmptySet
<1> QED
  BY <1>1, <1>2, <1>4 DEF Tally, Owed, Causes

-----------------------------------------------------------------------------
(* The listening machine.                                                  *)

LEMMA TrackerConstants == Proved!TrackerAssumption
BY DiscoveryAssumption DEF DiscoveryAssumption, Proved!TrackerAssumption

LEMMA SameDiscover ==
  ASSUME NEW f, NEW ok \in BOOLEAN, Tracker!Discover(f, Host, ok)
  PROVE  Proved!Discover(f, Host, ok)
<1>1. \A map, k, value : Tracker!With(map, k, value) = Proved!With(map, k, value)
  BY DEF Tracker!With, Proved!With
<1>2. \A map, gone : Tracker!Drop(map, gone) = Proved!Drop(map, gone)
  BY DEF Tracker!Drop, Proved!Drop
<1>3. Tracker!Stored = Proved!Stored /\ Tracker!Tracked = Proved!Tracked
  BY DEF Tracker!Stored, Tracker!Tracked, Proved!Stored, Proved!Tracked
<1>4. \A p : Tracker!Upsert(f, p) = Proved!Upsert(f, p)
  BY <1>1, <1>3 DEF Tracker!Upsert, Proved!Upsert
<1>5. Tracker!NewPeers(Host) = Proved!NewPeers(Host)
  <2>1. Tracker!Namesakes(Host) = Proved!Namesakes(Host)
    BY <1>3 DEF Tracker!Namesakes, Proved!Namesakes
  <2> QED
    BY <2>1 DEF Tracker!NewPeers, Proved!NewPeers
<1>6. Tracker!Victims = Proved!Victims
  BY <1>3 DEF Tracker!Victims, Proved!Victims, Tracker!Cardinality, Proved!Cardinality
<1>7. CASE Tracker!RegisterKnown(f, Host, ok)
  <2>1. Tracker!Known(f, Host) = Proved!Known(f, Host)
    BY DEF Tracker!Known, Proved!Known
  <2>2. Proved!RegisterKnown(f, Host, ok)
    BY <1>1, <1>3, <1>4, <1>7, <2>1 DEF Tracker!RegisterKnown, Proved!RegisterKnown
  <2> QED
    BY <2>2 DEF Tracker!Discover, Proved!Discover, Proved!Register
<1>8. ASSUME NEW p \in Tracker!NewPeers(Host), Tracker!RegisterNew(f, p, ok)
      PROVE  Proved!Discover(f, Host, ok)
  <2>1. Proved!RegisterNew(f, p, ok)
    BY <1>1, <1>2, <1>3, <1>4, <1>6, <1>8 DEF Tracker!RegisterNew, Proved!RegisterNew
  <2> QED
    BY <1>5, <2>1 DEF Tracker!Discover, Proved!Discover, Proved!Register
<1> QED
  BY <1>7, <1>8 DEF Tracker!Discover, Tracker!Register

\* What the listening machine does is what a tracker may do.
LEMMA ListenerSteps == [DiscoveryNext]_allVars => [Proved!Next]_(Proved!vars)
<1> SUFFICES ASSUME [DiscoveryNext]_allVars PROVE [Proved!Next]_(Proved!vars)
  OBVIOUS
<1>1. ASSUME UNCHANGED listener PROVE UNCHANGED Proved!vars
  BY <1>1 DEF listener, Proved!vars
<1>2. CASE Local \/ Announce \/ UNCHANGED allVars
  BY <1>1, <1>2 DEF Local, Announce, allVars
<1>3. ASSUME NEW f \in Prints, Hear(f) PROVE UNCHANGED Proved!vars
  BY <1>1, <1>3 DEF Hear
<1>4. ASSUME NEW f \in Prints, NEW ok \in BOOLEAN, Process(f, ok)
      PROVE  [Proved!Next]_(Proved!vars)
  <2>1. CASE Tracker!Discover(f, Host, ok)
    <3>1. Proved!Discover(f, Host, ok)
      BY <2>1, SameDiscover
    <3> QED
      BY <3>1 DEF Proved!Next
  <2> QED
    BY <1>1, <1>4, <2>1 DEF Process
<1>6. ASSUME NEW f \in Prints, NEW online \in BOOLEAN, Meet(f, online)
      PROVE  [Proved!Next]_(Proved!vars)
  <2>1. Proved!SetState(f, online)
    BY <1>6 DEF Meet, Tracker!SetState, Tracker!Tracked, Proved!SetState, Proved!Tracked
  <2> QED
    BY <2>1 DEF Proved!Next
<1>5. CASE Rejoin
  <2>1. Proved!Restart
    BY <1>5 DEF Rejoin, Tracker!Restart, Tracker!Loaded, Tracker!Stored,
                Proved!Restart, Proved!Loaded, Proved!Stored
  <2> QED
    BY <2>1 DEF Proved!Next
<1> QED
  BY <1>2, <1>3, <1>4, <1>5, <1>6 DEF DiscoveryNext

LEMMA ListenerStarts == DiscoveryInit => Proved!Init
BY DEF DiscoveryInit, Tracker!Init, Tracker!Empty, Proved!Init, Proved!Empty

\* So the tracker's invariants hold of it.
LEMMA TrackerInv == DiscoverySpec => []Proved!IInv
<1>1. DiscoveryInit => Proved!IInv
  BY ListenerStarts, TrackerConstants, Proved!InitIInv
<1>2. Proved!IInv /\ [DiscoveryNext]_allVars => Proved!IInv'
  BY ListenerSteps, TrackerConstants, Proved!NextIInv
<1> QED
  BY <1>1, <1>2, PTL DEF DiscoverySpec

\* All it hears of is one machine.  It may forget peers, also for one that is then
\* not written, but not all of them, as its list is never full with one alone: so
\* it never takes another fingerprint for a peer without a history.
Untold == {f \in Tracker!Stored : rows[f].prev = None}

OneMachine ==
    /\ found \in Seq(Prints)
    /\ \A f \in Tracker!Tracked : peers[f].host = Host
    /\ \A f \in Tracker!Stored : rows[f].host = Host
    /\ Tracker!Tracked = {} => Tracker!Stored = {}
    /\ \A f, g \in Untold : f = g

Listener == Proved!IInv /\ OneMachine

\* The parts of the tracker's invariants that are needed.
LEMMA Records ==
  ASSUME Proved!IInv
  PROVE  /\ Tracker!Tracked \subseteq Tracker!Stored
         /\ Tracker!Tracked \subseteq Prints
         /\ peers \in [Tracker!Tracked -> Tracker!Peer]
         /\ rows \in [Tracker!Stored -> Tracker!Row]
BY DEF Proved!IInv, Proved!TypeOK, Proved!TrackedHasRow, Proved!Peer, Proved!Row,
       Proved!Names, Proved!ManualName, Proved!TrustStatus, Proved!Tracked, Proved!Stored,
       Tracker!Peer, Tracker!Row, Tracker!Names, Tracker!ManualName, Tracker!TrustStatus,
       Tracker!Tracked, Tracker!Stored

\* A row that is there keeps its history, a new one is as it was registered.
LEMMA UpsertKeeps ==
  ASSUME Proved!IInv, OneMachine, NEW f, NEW p \in Tracker!Peer, p.host = Host,
         rows' = Tracker!Upsert(f, p)
  PROVE  /\ \A g \in Tracker!Stored' : rows'[g].host = Host
         /\ \A g \in Tracker!Stored : rows'[g].prev = rows[g].prev
         /\ f \notin Tracker!Stored => rows'[f].prev = p.prev
         /\ Tracker!Stored' = Tracker!Stored \cup {f}
<1>1. /\ rows \in [Tracker!Stored -> Tracker!Row]
      /\ \A g \in Tracker!Stored : rows[g].host = Host
  BY Records DEF OneMachine
<1> DEFINE new == IF f \in Tracker!Stored THEN [rows[f] EXCEPT !.host = p.host]
                  ELSE [host |-> p.host, trust |-> p.trust, prev |-> p.prev]
<1>2. /\ new.host = Host
      /\ f \in Tracker!Stored => new.prev = rows[f].prev
      /\ f \notin Tracker!Stored => new.prev = p.prev
  BY <1>1 DEF Tracker!Row
<1>3. rows' = [l \in Tracker!Stored \cup {f} |-> IF l = f THEN new ELSE rows[l]]
  BY DEF Tracker!Upsert, Tracker!With, Tracker!Stored
<1> QED
  BY <1>1, <1>2, <1>3 DEF Tracker!Stored

\* An announcement of a tracked peer adds no row.
LEMMA HeardAgain ==
  ASSUME Listener, NEW f \in Prints, NEW ok, Tracker!RegisterKnown(f, Host, ok),
         found' \in Seq(Prints)
  PROVE  OneMachine'
<1>1. /\ Tracker!Tracked \subseteq Tracker!Stored
      /\ peers \in [Tracker!Tracked -> Tracker!Peer]
      /\ \A g \in Tracker!Tracked : peers[g].host = Host
      /\ f \in Tracker!Tracked
  BY Records DEF Listener, OneMachine, Tracker!RegisterKnown
<1>2. /\ Tracker!Known(f, Host) \in Tracker!Peer
      /\ Tracker!Known(f, Host).host = Host
  BY <1>1 DEF Tracker!Known, Tracker!Peer, Tracker!Names
<1>3. Tracker!Tracked' = Tracker!Tracked /\ \A g \in Tracker!Tracked' : peers'[g].host = Host
  BY <1>1, <1>2 DEF Tracker!RegisterKnown, Tracker!With, Tracker!Tracked
<1>4. rows' = IF ok THEN Tracker!Upsert(f, Tracker!Known(f, Host)) ELSE rows
  BY DEF Tracker!RegisterKnown
<1>5. /\ \A g \in Tracker!Stored' : rows'[g].host = Host
      /\ \A g \in Tracker!Stored : rows'[g].prev = rows[g].prev
      /\ Tracker!Stored' = Tracker!Stored
  <2>1. CASE ok
    BY <1>1, <1>2, <1>4, <2>1, UpsertKeeps DEF Listener
  <2>2. CASE ~ok
    BY <1>4, <2>2 DEF Listener, OneMachine, Tracker!Stored
  <2> QED
    BY <2>1, <2>2
<1>6. Untold' = Untold
  BY <1>5 DEF Untold
<1> QED
  BY <1>1, <1>3, <1>5, <1>6 DEF Listener, OneMachine

\* An eviction leaves a peer in the list.
LEMMA NotTheLast ==
  ASSUME Listener, NEW victim \in Tracker!Victims, Tracker!Tracked # {}
  PROVE  Tracker!Tracked \ victim # {}
<1>1. Tracker!Cardinality(Tracker!Tracked) = Cardinality(Tracker!Tracked)
  BY DEF Tracker!Cardinality, Cardinality
<1>2. CASE victim = {}
  BY <1>2
<1>3. CASE victim # {}
  <2>1. ~(Cardinality(Tracker!Tracked) < MaxTracked)
    BY <1>1, <1>3 DEF Tracker!Victims
  <2>2. PICK g : victim = {g}
    BY <1>1, <2>1 DEF Tracker!Victims
  <2>3. Cardinality({g}) = 1 /\ IsFiniteSet({g})
    BY FS_Singleton, Zenon
  <2>4. ASSUME Tracker!Tracked \subseteq {g} PROVE FALSE
    <3>1. Cardinality(Tracker!Tracked) <= 1 /\ Cardinality(Tracker!Tracked) \in Nat
      BY <2>3, <2>4, FS_Subset, FS_CardinalityType
    <3> QED
      BY <2>1, <3>1, DiscoveryAssumption DEF DiscoveryAssumption
  <2> QED
    BY <2>2, <2>4
<1> QED
  BY <1>2, <1>3

\* One that could not be written is not tracked; its victim is gone.
LEMMA NotWritten ==
  ASSUME Listener, NEW victim \in Tracker!Victims, rows' = rows,
         peers' = Tracker!Drop(peers, victim), found' \in Seq(Prints)
  PROVE  OneMachine'
<1>1. /\ Tracker!Tracked' = Tracker!Tracked \ victim
      /\ \A g \in Tracker!Tracked' : peers'[g] = peers[g]
  BY DEF Tracker!Drop, Tracker!Tracked
<1>2. Tracker!Stored' = Tracker!Stored /\ Untold' = Untold
  BY DEF Tracker!Stored, Untold
<1> QED
  BY <1>1, <1>2, NotTheLast DEF Listener, OneMachine

\* A new peer has a history, unless it is the first of all.
LEMMA HeardFirst ==
  ASSUME Listener, NEW f \in Prints, NEW p \in Tracker!NewPeers(Host),
         Tracker!RegisterNew(f, p, TRUE), found' \in Seq(Prints)
  PROVE  OneMachine'
<1>1. /\ Tracker!Tracked \subseteq Tracker!Stored
      /\ Tracker!Tracked \subseteq Prints /\ None \notin Prints
      /\ Tracker!Namesakes(Host) = Tracker!Tracked
  BY Records, DiscoveryAssumption
     DEF Listener, OneMachine, DiscoveryAssumption, Tracker!Namesakes
<1>2. /\ p \in Tracker!Peer /\ p.host = Host
      /\ p.prev = None => Tracker!Tracked = {}
  <2>1. CASE Tracker!Tracked = {}
    <3>1. p = [host |-> Host, active |-> TRUE, trust |-> "Trusted", prev |-> None]
      BY <1>1, <2>1 DEF Tracker!NewPeers
    <3> QED
      BY <2>1, <3>1 DEF Tracker!Peer, Tracker!Names, Tracker!TrustStatus
  <2>2. CASE Tracker!Tracked # {}
    <3>1. PICK g \in Tracker!Tracked :
            p = [host |-> Host, active |-> TRUE, trust |-> "IdentityChanged", prev |-> g]
      BY <1>1, <2>2 DEF Tracker!NewPeers
    <3> QED
      BY <1>1, <3>1 DEF Tracker!Peer, Tracker!Names, Tracker!TrustStatus
  <2> QED
    BY <2>1, <2>2
<1>3. PICK victim \in Tracker!Victims :
        peers' = Tracker!With(Tracker!Drop(peers, victim), f, p)
  BY DEF Tracker!RegisterNew
<1>4. /\ Tracker!Tracked' = (Tracker!Tracked \ victim) \cup {f}
      /\ \A g \in Tracker!Tracked' : peers'[g].host = Host
  BY <1>2, <1>3 DEF Tracker!With, Tracker!Drop, Tracker!Tracked, Listener, OneMachine
<1>5. rows' = Tracker!Upsert(f, p)
  BY DEF Tracker!RegisterNew
<1>6. /\ \A g \in Tracker!Stored' : rows'[g].host = Host
      /\ \A g \in Tracker!Stored : rows'[g].prev = rows[g].prev
      /\ f \notin Tracker!Stored => rows'[f].prev = p.prev
      /\ Tracker!Stored' = Tracker!Stored \cup {f}
  BY <1>2, <1>5, UpsertKeeps DEF Listener
<1>7. CASE Tracker!Tracked = {}
  <2>1. Tracker!Stored' = {f}
    BY <1>6, <1>7 DEF Listener, OneMachine
  <2> QED
    BY <1>4, <1>6, <2>1 DEF OneMachine, Untold
<1>8. CASE Tracker!Tracked # {}
  <2>1. Untold' \subseteq Untold
    BY <1>2, <1>6, <1>8 DEF Untold
  <2> QED
    BY <1>4, <1>6, <2>1 DEF Listener, OneMachine
<1> QED
  BY <1>7, <1>8

LEMMA OneMachineStep == Listener /\ [DiscoveryNext]_allVars => OneMachine'
<1> SUFFICES ASSUME Listener, [DiscoveryNext]_allVars PROVE OneMachine'
  OBVIOUS
<1>1. ASSUME UNCHANGED listener, found' \in Seq(Prints) PROVE OneMachine'
  BY <1>1 DEF Listener, OneMachine, Untold, listener, Tracker!Tracked, Tracker!Stored
<1>2. found \in Seq(Prints)
  BY DEF Listener, OneMachine
<1>3. CASE Local \/ Announce \/ UNCHANGED allVars
  BY <1>1, <1>2, <1>3 DEF Local, Announce, allVars, network
<1>4. ASSUME NEW f \in Prints, Hear(f) PROVE OneMachine'
  <2>1. UNCHANGED listener /\ found' = Append(found, f)
    BY <1>4 DEF Hear
  <2> QED
    BY <1>1, <1>2, <2>1
<1>5. ASSUME NEW f \in Prints, NEW ok \in BOOLEAN, Process(f, ok) PROVE OneMachine'
  <2>1. found' \in Seq(Prints)
    BY <1>2, <1>5 DEF Process
  <2>2. CASE UNCHANGED listener
    BY <1>1, <2>1, <2>2
  <2>3. CASE Tracker!RegisterKnown(f, Host, ok)
    BY <2>1, <2>3, HeardAgain
  <2>4. ASSUME NEW p \in Tracker!NewPeers(Host), Tracker!RegisterNew(f, p, ok)
        PROVE  OneMachine'
    <3>1. CASE ok = TRUE
      BY <2>1, <2>4, <3>1, HeardFirst
    <3>2. CASE ok = FALSE
      BY <2>1, <2>4, <3>2, NotWritten DEF Tracker!RegisterNew
    <3> QED
      BY <3>1, <3>2
  <2> QED
    BY <1>5, <2>2, <2>3, <2>4 DEF Process, Tracker!Discover, Tracker!Register
<1>7. ASSUME NEW f \in Prints, NEW online \in BOOLEAN, Meet(f, online) PROVE OneMachine'
  <2>1. found' \in Seq(Prints) /\ rows' = rows
    BY <1>2, <1>7 DEF Meet, network, Tracker!SetState
  <2>2. peers \in [Tracker!Tracked -> Tracker!Peer]
    BY Records DEF Listener
  <2>3. /\ Tracker!Tracked' = Tracker!Tracked
        /\ \A g \in Tracker!Tracked : peers'[g].host = peers[g].host
    BY <1>7, <2>2 DEF Meet, Tracker!SetState, Tracker!Tracked, Tracker!Peer
  <2>4. Tracker!Stored' = Tracker!Stored /\ Untold' = Untold
    BY <2>1 DEF Tracker!Stored, Untold
  <2> QED
    BY <2>1, <2>3, <2>4 DEF Listener, OneMachine
<1>6. CASE Rejoin
  <2>1. found' \in Seq(Prints) /\ rows' = rows /\ peers' = Tracker!Loaded
    BY <1>6 DEF Rejoin, Tracker!Restart
  <2>2. /\ Tracker!Stored' = Tracker!Stored /\ Tracker!Tracked' = Tracker!Stored
        /\ Untold' = Untold
        /\ \A g \in Tracker!Stored : peers'[g].host = rows[g].host
    BY <2>1 DEF Tracker!Loaded, Tracker!Stored, Tracker!Tracked, Untold
  <2> QED
    BY <2>1, <2>2 DEF Listener, OneMachine
<1> QED
  BY <1>3, <1>4, <1>5, <1>6, <1>7 DEF DiscoveryNext

LEMMA ListenerInv == DiscoverySpec => []Listener
<1>1. DiscoveryInit => OneMachine
  BY DEF DiscoveryInit, Tracker!Init, Tracker!Empty, OneMachine, Untold,
         Tracker!Tracked, Tracker!Stored
<1> QED
  BY <1>1, OneMachineStep, TrackerInv, PTL DEF DiscoverySpec, Listener

-----------------------------------------------------------------------------
(* The theorems.                                                           *)

\* FR-ID-08: no change goes by unseen.  Whatever the machine does to its
\* identity, in whatever order it is heard of and whatever register_peer evicts or
\* fails to write, a peer that hears of no other machine has put down as identity
\* changes all fingerprints but one.
THEOREM ChangesFlagged == DiscoverySpec => []EveryChangeFlagged
<1>1. Listener => EveryChangeFlagged
  <2> SUFFICES ASSUME Listener PROVE Cardinality(Untold) <= 1
    BY DEF EveryChangeFlagged, Untold
  <2>1. CASE Untold = {}
    BY <2>1, FS_EmptySet
  <2>2. ASSUME NEW f \in Untold PROVE Cardinality(Untold) <= 1
    <3>1. Untold = {f}
      BY <2>2 DEF Listener, OneMachine
    <3>2. Cardinality({f}) = 1
      BY FS_Singleton, Zenon
    <3> QED
      BY <3>1, <3>2
  <2> QED
    BY <2>1, <2>2
<1> QED
  BY <1>1, ListenerInv, PTL

\* FR-ID-08: there is no false alarm.  The peer has recorded no more
\* fingerprints than one and one for each reset and each recovery: crashes and
\* failures, at the first start too, never make one.
THEOREM ChangesCaused == DiscoverySpec => []ChangesHaveCause
<1>1. Inv /\ Tally /\ Listener => ChangesHaveCause
  <2> SUFFICES ASSUME Inv, Tally, Listener PROVE ChangesHaveCause
    OBVIOUS
  <2>1. Tracker!Stored \subseteq Known
    BY DEF Listener, Proved!IInv, Proved!TypeOK, Proved!Stored, Tracker!Stored, Known, Prints
  <2>2. /\ Cardinality(Tracker!Stored) \in Nat /\ Cardinality(Known) \in Nat
        /\ Cardinality(Tracker!Stored) <= Cardinality(Known)
    BY <2>1, FS_Subset, FS_CardinalityType DEF Tally
  <2>3. /\ resets \in Nat /\ recoveries \in Nat
        /\ Cardinality(Known) + Owed <= 1 + Causes /\ Owed \in {0, 1}
    BY StartupAssumption DEF Tally, Causes, Owed, Inv, TypeOK, StartupAssumption
  <2> QED
    BY <2>2, <2>3 DEF ChangesHaveCause, Causes
<1>2. DiscoverySpec => []Tally
  BY InitTally, TallyStep, AnnouncerInv, PTL DEF DiscoverySpec
<1> QED
  BY <1>1, <1>2, AnnouncerInv, ListenerInv, PTL
=============================================================================
