---------------------------- MODULE PeerTracker ----------------------------
(***************************************************************************)
(* discovery/peer_tracker.rs over the peers table of the database, with    *)
(* the parts of app.rs that register peers and resolve identity changes.   *)
(*                                                                         *)
(* All of this runs on the UI thread with the database locked, so a call   *)
(* is one step; what it does to memory when its one SQL statement fails is *)
(* part of the step.  Addresses, nicknames and times are left out: the     *)
(* eviction of the peer seen longest ago may here take any Offline peer.   *)
(* The state column is left out too: load_from_db overwrites what it reads *)
(* there.                                                                  *)
(***************************************************************************)
EXTENDS Naturals, FiniteSets, Maps

CONSTANTS
    Fingerprints,
    Hostnames,          \* names that machines announce
    MaxTracked,         \* MAX_TRACKED_PEERS
    WriteOutcomes,      \* may a database write fail?  {TRUE}, or {TRUE, FALSE}
    None                \* no fingerprint

ASSUME TrackerAssumption ==
    /\ MaxTracked \in Nat \ {0}
    /\ WriteOutcomes \subseteq BOOLEAN
    /\ None \notin Fingerprints

VARIABLES
    peers,      \* the tracker's map: fingerprint -> Peer
    rows,       \* the peers table: fingerprint -> row
    dialog,     \* identity_changed_peer: the peer the open warning is about
    shown       \* the peer the user saw in it when the frame was last drawn

vars == <<peers, rows, dialog, shown>>

TrustStatus == {"Trusted", "IdentityChanged", "Blocked"}
\* Manual entry makes a name up from the fingerprint.
ManualName(f) == <<"Manual", f>>
Names == Hostnames \cup {ManualName(f) : f \in Fingerprints}
\* active: the state is not Offline.  Discovered and Online differ in the list
\* alone, and Connecting is never set.
Peer == [host : Names, active : BOOLEAN,
         trust : TrustStatus, prev : Fingerprints \cup {None}]
Row  == [host : Names, trust : TrustStatus, prev : Fingerprints \cup {None}]

Tracked == DOMAIN peers
Stored  == DOMAIN rows

Init ==
    /\ peers = Empty
    /\ rows = Empty
    /\ dialog = None
    /\ shown = None

-----------------------------------------------------------------------------
\* Mutant: the update overwrites every column.
UpsertAll(f, p) == With(rows, f, [host |-> p.host, trust |-> p.trust, prev |-> p.prev])

\* Mutant: the insert leaves out previous_fingerprint.
UpsertShort(f, p) ==
    With(rows, f, IF f \in Stored THEN [rows[f] EXCEPT !.host = p.host]
                  ELSE [host |-> p.host, trust |-> p.trust])

\* Database::upsert_peer: on a conflict trust_status and previous_fingerprint
\* are not among the columns that are set.
Upsert(f, p) ==
    With(rows, f, IF f \in Stored THEN [rows[f] EXCEPT !.host = p.host]
                  ELSE [host |-> p.host, trust |-> p.trust, prev |-> p.prev])

\* register_peer of a tracked fingerprint; memory is updated before the write.
Known(f, h) == [peers[f] EXCEPT !.host = h, !.active = TRUE]
RegisterKnown(f, h, ok) ==
    /\ f \in Tracked
    /\ peers' = With(peers, f, Known(f, h))
    /\ rows' = IF ok THEN Upsert(f, Known(f, h)) ELSE rows

\* Mutant: only peers that are not Offline are looked at.
NamesakesActive(h) == {g \in Tracked : peers[g].host = h /\ peers[g].active}

\* Tracked peers that have the hostname; the loop takes whichever it meets first.
Namesakes(h) == {g \in Tracked : peers[g].host = h}
NewPeers(h) ==
    IF Namesakes(h) = {}
      THEN {[host |-> h, active |-> TRUE, trust |-> "Trusted", prev |-> None]}
      ELSE {[host |-> h, active |-> TRUE, trust |-> "IdentityChanged", prev |-> g] :
              g \in Namesakes(h)}

\* Mutant: one peer too many.
VictimsLate ==
    IF Cardinality(Tracked) <= MaxTracked THEN {{}}
    ELSE {{g} : g \in {e \in Tracked : ~peers[e].active}}

\* The peer to make room for a new one, if there must be one.  When none is
\* Offline the discovery is ignored: no victim set, no step.
Victims ==
    IF Cardinality(Tracked) < MaxTracked THEN {{}}
    ELSE {{g} : g \in {e \in Tracked : ~peers[e].active}}

\* Mutant: the map is updated although the write failed.
RegisterNewUnchecked(f, p, ok) ==
    /\ f \notin Tracked
    /\ \E victim \in Victims : peers' = With(Drop(peers, victim), f, p)
    /\ rows' = IF ok THEN Upsert(f, p) ELSE rows

\* Mutant: an evicted peer is deleted from the table as well.
RegisterNewForgets(f, p, ok) ==
    /\ f \notin Tracked
    /\ \E victim \in Victims :
         /\ peers' = IF ok THEN With(Drop(peers, victim), f, p) ELSE Drop(peers, victim)
         /\ rows' = Drop(IF ok THEN Upsert(f, p) ELSE rows, victim)

\* register_peer of any other fingerprint.  The victim is gone even when the
\* write fails and the new peer is not tracked.
RegisterNew(f, p, ok) ==
    /\ f \notin Tracked
    /\ \E victim \in Victims :
         peers' = IF ok THEN With(Drop(peers, victim), f, p) ELSE Drop(peers, victim)
    /\ rows' = IF ok THEN Upsert(f, p) ELSE rows

Register(f, h, ok) ==
    RegisterKnown(f, h, ok) \/ \E p \in NewPeers(h) : RegisterNew(f, p, ok)

\* A discovery event (mDNS or UDP).  The peer that comes back with a pending
\* identity change opens the warning, over one that is open already.
Discover(f, h, ok) ==
    /\ Register(f, h, ok)
    /\ dialog' = IF ok /\ peers'[f].trust = "IdentityChanged" THEN f ELSE dialog
    /\ UNCHANGED shown

\* Manual entry; the result is not looked at.
AddManually(f, ok) ==
    /\ Register(f, ManualName(f), ok)
    /\ UNCHANGED <<dialog, shown>>

\* set_peer_state, on a PeerOnline or PeerOffline event.
SetState(f, online) ==
    /\ f \in Tracked
    /\ peers' = [peers EXCEPT ![f].active = online]
    /\ UNCHANGED <<rows, dialog, shown>>

\* The user clicks the warning sign in the peer list.
OpenWarning(f) ==
    /\ f \in Tracked /\ peers[f].trust = "IdentityChanged"
    /\ dialog' = f
    /\ UNCHANGED <<peers, rows, shown>>

\* A frame is drawn.
Draw == shown' = dialog /\ UNCHANGED <<peers, rows, dialog>>

\* The user closes the warning without a decision.
Dismiss == shown # None /\ dialog' = None /\ shown' = None /\ UNCHANGED <<peers, rows>>

\* The user clicks Trust or Block in the warning drawn last; resolve_identity_
\* change is called for the peer the dialog is about by now.
Resolve(trust, ok) ==
    /\ shown # None
    /\ peers' = IF dialog \notin Tracked THEN peers
                ELSE IF trust = "Blocked"
                  THEN [peers EXCEPT ![dialog].trust = trust, ![dialog].active = FALSE]
                  ELSE [peers EXCEPT ![dialog].trust = trust]
    /\ rows' = IF dialog \in Tracked /\ dialog \in Stored /\ ok
                 THEN [rows EXCEPT ![dialog].trust = trust] ELSE rows
    /\ dialog' = None /\ shown' = None

\* The program ends, at any moment, and starts again: load_from_db.
Loaded == [f \in Stored |-> [host |-> rows[f].host, active |-> FALSE,
                             trust |-> rows[f].trust, prev |-> rows[f].prev]]
Restart ==
    /\ peers' = Loaded
    /\ dialog' = None /\ shown' = None
    /\ UNCHANGED rows

Next ==
    \/ \E f \in Fingerprints, ok \in WriteOutcomes :
         (\E h \in Hostnames : Discover(f, h, ok)) \/ AddManually(f, ok)
    \/ \E f \in Fingerprints :
         (\E online \in BOOLEAN : SetState(f, online)) \/ OpenWarning(f)
    \/ Draw
    \/ Dismiss
    \/ \E trust \in {"Trusted", "Blocked"}, ok \in WriteOutcomes : Resolve(trust, ok)
    \/ Restart

Spec == Init /\ [][Next]_vars

(***************************************************************************)
(* Properties                                                              *)
(***************************************************************************)

TypeOK ==
    /\ Tracked \subseteq Fingerprints /\ peers \in [Tracked -> Peer]
    /\ Stored \subseteq Fingerprints /\ rows \in [Stored -> Row]
    /\ {dialog, shown} \subseteq Fingerprints \cup {None}

\* Every tracked peer has its row, also after writes that failed and after
\* evictions: a message of a peer in the list never breaks the foreign key of
\* the messages table.
TrackedHasRow == Tracked \subseteq Stored

\* A warning compares two different fingerprints, and the old one is a peer the
\* database still knows (it can be shown, and found after a restart).
WarningNamesOldPeer ==
    /\ \A f \in Tracked : peers[f].trust = "IdentityChanged" =>
          peers[f].prev # f /\ peers[f].prev \in Stored
    /\ \A f \in Stored : rows[f].trust = "IdentityChanged" =>
          rows[f].prev # f /\ rows[f].prev \in Stored

\* A stored identity change stays pending until the user decides in the dialog
\* about that very peer: no rediscovery, eviction or restart clears it (FR-ID-09).
WarningPersists ==
    [][\A f \in Stored :
         rows[f].trust = "IdentityChanged" /\ f # dialog
           => f \in Stored' /\ rows'[f].trust = "IdentityChanged"]_vars

\* Discovery never takes the map above MAX_TRACKED_PEERS, nor further above it
\* when a restart has loaded more.
DiscoveryWithinLimit ==
    [][Cardinality(Tracked') > Cardinality(Tracked)
         => Restart \/ Cardinality(Tracked') <= MaxTracked]_vars

-----------------------------------------------------------------------------
(* What the requirements say and the code does not do.                     *)

\* FR-PD-07 and peer_tracker.rs:73: no more than MAX_TRACKED_PEERS peers.
TrackedWithinLimit == Cardinality(Tracked) <= MaxTracked

\* FR-ID-09: a peer the user has blocked is blocked in the list.
BlockedStaysBlocked ==
    \A f \in Tracked : rows[f].trust = "Blocked" => peers[f].trust = "Blocked"

\* FR-ID-08: a fingerprint that is new and comes with the hostname of a known
\* peer is an identity change.
KnownHostnameFlagged ==
    [][\A f \in Stored' \ Stored :
         (\E g \in Stored : rows[g].host = rows'[f].host)
           => rows'[f].trust = "IdentityChanged"]_vars

\* FR-ID-09: the decision is about the change that was shown to the user.
DecisionAsShown ==
    [][\A f \in Stored :
         rows[f].trust = "IdentityChanged" /\ rows'[f].trust # "IdentityChanged"
           => f = shown]_vars
=============================================================================
