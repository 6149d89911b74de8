----------------------------- MODULE Discovery -----------------------------
(***************************************************************************)
(* Two machines.  The one of Startup announces itself by UDP beacons and   *)
(* mDNS; another one hears it and keeps its peers as PeerTracker does.     *)
(*                                                                         *)
(* Announcements are lost, repeated and overtake one another; the listener *)
(* may fail to write what it hears.  Beacons of a foreign format, and      *)
(* one's own, are discarded before they change anything.  The machines     *)
(* keep their host names and there is no third one: what evictions do to   *)
(* several hosts is PeerTracker's (KnownHostnameFlagged).  What the user   *)
(* of the listening machine decides changes no row that matters here.      *)
(***************************************************************************)
EXTENDS Startup, Sequences, FiniteSets

CONSTANTS
    Host,           \* the name the announcing machine has
    PeerCap,        \* capacity of the channel of discovered peers
    MaxTracked      \* MAX_TRACKED_PEERS: 200

\* Every fault and every reset makes at most one more fingerprint.
Prints == 1 .. 1 + MaxResets + MaxFaults

ASSUME DiscoveryAssumption ==
    /\ PeerCap \in Nat \ {0} /\ MaxTracked \in Nat \ {0, 1}
    /\ None \notin Prints

VARIABLES
    air,                            \* announcements that have been made
    found,                          \* the channel of discovered peers
    peers, rows, dialog, shown      \* the listening machine's tracker

Tracker == INSTANCE PeerTracker
    WITH Fingerprints <- Prints, Hostnames <- {Host}, WriteOutcomes <- BOOLEAN

network  == <<air, found>>
listener == <<peers, rows, dialog, shown>>
allVars  == <<vars, network, listener>>

DiscoveryInit == Init /\ air = {} /\ found = <<>> /\ Tracker!Init

-----------------------------------------------------------------------------
\* The announcing machine does anything but announce.
Local == Next /\ UNCHANGED <<network, listener>>

\* The fingerprint the services were started with, every 3 s and in answer to
\* queries, as long as the program runs.
Announce ==
    /\ advertised # 0
    /\ air' = air \cup {advertised}
    /\ UNCHANGED <<vars, found, listener>>

\* A receiver passes an announcement on, when the channel has room for it: at
\* once, late, again, or never, in which case it is lost.
Hear(f) ==
    /\ f \in air /\ Len(found) < PeerCap
    /\ found' = Append(found, f)
    /\ UNCHANGED <<vars, air, listener>>

\* Mutant: a name that is in the list is not looked at again.
ProcessByName(f, ok) ==
    /\ found # <<>> /\ Head(found) = f
    /\ found' = Tail(found)
    /\ IF Tracker!Namesakes(Host) = {}
         THEN Tracker!Discover(f, Host, ok)
         ELSE UNCHANGED listener
    /\ UNCHANGED <<vars, air>>

\* The UI thread takes the next one.  When the list is full of active peers a
\* new one is ignored; that it could not be written is logged.
Process(f, ok) ==
    /\ found # <<>> /\ Head(found) = f
    /\ found' = Tail(found)
    /\ IF f \in Tracker!Tracked \/ Tracker!Victims # {}
         THEN Tracker!Discover(f, Host, ok)
         ELSE UNCHANGED listener
    /\ UNCHANGED <<vars, air>>

\* A session with the peer opens or ends: PeerOnline, PeerOffline.
Meet(f, online) ==
    /\ Tracker!SetState(f, online)
    /\ UNCHANGED <<vars, network>>

\* The listening program ends and starts again.
Rejoin ==
    /\ Tracker!Restart
    /\ found' = <<>>
    /\ UNCHANGED <<vars, air>>

DiscoveryNext ==
    \/ Local
    \/ Announce
    \/ \E f \in Prints : Hear(f)
    \/ \E f \in Prints, ok \in BOOLEAN : Process(f, ok) \/ Meet(f, ok)
    \/ Rejoin

DiscoverySpec == DiscoveryInit /\ [][DiscoveryNext]_allVars

\* Announcing goes on and the listening UI takes what is in the channel; of the
\* announcements of one fingerprint, repeated for ever, one gets through, finds
\* the listening program up until the next frame and is written.
DiscoveryFairness ==
    /\ WF_allVars(Announce)
    /\ SF_allVars(\E f \in Prints : f = advertised /\ Hear(f))
    /\ WF_allVars(\E f \in Prints, ok \in BOOLEAN : Process(f, ok))
    /\ SF_allVars(\E f \in Prints : f = advertised /\ Process(f, TRUE))
FairDiscovery == DiscoverySpec /\ DiscoveryFairness

(***************************************************************************)
(* Properties                                                              *)
(***************************************************************************)

\* FR-ID-08: there is no false alarm.  Each fingerprint the peer has recorded,
\* beyond the first, is owed to a reset or to a recovery; crashes and failures
\* alone, the first start included, never show it another one.
ChangesHaveCause == Cardinality(Tracker!Stored) <= 1 + resets + recoveries

\* FR-ID-08: no change goes by unseen.  All fingerprints but the first were put
\* down as identity changes, whatever restarts, delays, resets, evictions and
\* failed writes came between: as long as there is no other host to keep instead,
\* an eviction leaves a namesake behind.
EveryChangeFlagged == Cardinality({f \in Tracker!Stored : rows[f].prev = None}) <= 1

\* A fingerprint that is announced for long enough gets to the peer, unless it
\* finds the list full of peers that are online time and again.
AnnouncedIsFound ==
    \A f \in Prints :
        []<>(advertised # f \/ f \in Tracker!Stored \/ Tracker!Victims = {})

-----------------------------------------------------------------------------
(* What the requirements say and the code does not do.                     *)

\* FR-ID-10: a reset "notifies peers via the identity-change mechanism".
ResetReachesPeers ==
    \A f \in Prints : mem.ed = f ~> f \in Tracker!Stored \/ mem.ed # f
=============================================================================
