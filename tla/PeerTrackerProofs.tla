------------------------- MODULE PeerTrackerProofs -------------------------
(***************************************************************************)
(* Identity warnings and the tracker's limit, for every set of             *)
(* fingerprints and hostnames and every limit, with writes that may fail.  *)
(***************************************************************************)
EXTENDS PeerTracker, FiniteSetTheorems, TLAPS

\* The three invariants lean on one another: an evicted peer's row is what a
\* warning about its name still refers to.
IInv == TypeOK /\ TrackedHasRow /\ WarningNamesOldPeer

\* The empty map and the empty table.
LEMMA InitIInv == Init => IInv
BY DEF Init, IInv, TypeOK, TrackedHasRow, WarningNamesOldPeer, Empty, Tracked, Stored

-----------------------------------------------------------------------------
(* What a registration writes.                                             *)

\* The update of a row keeps trust and prev, and no other row is touched.
LEMMA UpsertRow ==
    ASSUME TypeOK, NEW f \in Fingerprints, NEW p \in Peer
    PROVE  /\ DOMAIN Upsert(f, p) = Stored \cup {f}
           /\ Upsert(f, p) \in [Stored \cup {f} -> Row]
           /\ \A g \in Stored : /\ Upsert(f, p)[g].trust = rows[g].trust
                                /\ Upsert(f, p)[g].prev = rows[g].prev
           /\ f \notin Stored => /\ Upsert(f, p)[f].trust = p.trust
                                 /\ Upsert(f, p)[f].prev = p.prev
<1> USE DEF TypeOK, Stored, Row, Peer
<1> DEFINE new == IF f \in Stored THEN [rows[f] EXCEPT !.host = p.host]
                  ELSE [host |-> p.host, trust |-> p.trust, prev |-> p.prev]
<1>1. /\ new \in Row
      /\ f \in Stored => new.trust = rows[f].trust /\ new.prev = rows[f].prev
      /\ f \notin Stored => new.trust = p.trust /\ new.prev = p.prev
  OBVIOUS
<1>2. Upsert(f, p) = [l \in Stored \cup {f} |-> IF l = f THEN new ELSE rows[l]]
  BY DEF Upsert, With
<1> QED
  BY <1>1, <1>2

\* A peer registered for the first time is trusted, or warns about a tracked peer.
LEMMA NewPeerType ==
    ASSUME TypeOK, NEW h \in Names, NEW p \in NewPeers(h)
    PROVE  /\ p \in Peer
           /\ p.trust = "IdentityChanged" => p.prev \in Tracked
<1>1. Tracked \subseteq Fingerprints
  BY DEF TypeOK
<1>2. CASE p = [host |-> h, active |-> TRUE, trust |-> "Trusted", prev |-> None]
  BY <1>2 DEF Peer, TrustStatus
<1>3. ASSUME NEW g \in Tracked,
             p = [host |-> h, active |-> TRUE, trust |-> "IdentityChanged", prev |-> g]
      PROVE  p \in Peer /\ p.prev \in Tracked
  BY <1>1, <1>3 DEF Peer, TrustStatus
<1> QED
  BY <1>2, <1>3 DEF NewPeers, Namesakes

\* A registration, of whatever kind, keeps the invariant.
LEMMA RegisterIInv ==
    ASSUME IInv, NEW f \in Fingerprints, NEW h \in Names, NEW ok \in WriteOutcomes,
           Register(f, h, ok)
    PROVE  /\ Tracked' \subseteq Fingerprints /\ peers' \in [Tracked' -> Peer]
           /\ Stored' \subseteq Fingerprints /\ rows' \in [Stored' -> Row]
           /\ TrackedHasRow' /\ WarningNamesOldPeer'
<1> USE DEF IInv, TypeOK, Tracked, Stored, TrackedHasRow
<1>1. CASE RegisterKnown(f, h, ok)
  <2> DEFINE known == Known(f, h)
  <2>1. /\ f \in Tracked /\ f \in Stored
        /\ known \in Peer
        /\ known.trust = peers[f].trust /\ known.prev = peers[f].prev
    BY <1>1 DEF RegisterKnown, Known, Peer
  <2>2. peers' = [l \in Tracked |-> IF l = f THEN known ELSE peers[l]]
    BY <1>1, <2>1 DEF RegisterKnown, With
  <2>3. /\ Tracked' = Tracked /\ peers' \in [Tracked -> Peer]
        /\ \A g \in Tracked : peers'[g].trust = peers[g].trust /\ peers'[g].prev = peers[g].prev
    BY <2>1, <2>2
  <2>4. /\ Stored' = Stored /\ rows' \in [Stored -> Row]
        /\ \A g \in Stored : rows'[g].trust = rows[g].trust /\ rows'[g].prev = rows[g].prev
    <3>1. CASE rows' = rows
      BY <3>1
    <3>2. CASE rows' = Upsert(f, known)
      <4>1. Stored \cup {f} = Stored
        BY <2>1
      <4> QED
        BY <2>1, <3>2, <4>1, UpsertRow
    <3> QED
      BY <1>1, <3>1, <3>2 DEF RegisterKnown
  <2> QED
    BY <2>3, <2>4 DEF WarningNamesOldPeer
<1>2. ASSUME NEW p \in NewPeers(h), RegisterNew(f, p, ok)
      PROVE  /\ Tracked' \subseteq Fingerprints /\ peers' \in [Tracked' -> Peer]
             /\ Stored' \subseteq Fingerprints /\ rows' \in [Stored' -> Row]
             /\ TrackedHasRow' /\ WarningNamesOldPeer'
  <2>1. PICK victim \in Victims :
          peers' = IF ok THEN With(Drop(peers, victim), f, p) ELSE Drop(peers, victim)
    BY <1>2 DEF RegisterNew
  <2>2. p \in Peer /\ (p.trust = "IdentityChanged" => p.prev \in Tracked) /\ f \notin Tracked
    BY <1>2, NewPeerType DEF RegisterNew
  <2>3. CASE ok
    <3>1. /\ Tracked' = (Tracked \ victim) \cup {f}
          /\ peers' = [l \in (Tracked \ victim) \cup {f} |-> IF l = f THEN p ELSE peers[l]]
      BY <2>1, <2>3 DEF With, Drop
    <3>2. rows' = Upsert(f, p)
      BY <1>2, <2>3 DEF RegisterNew
    <3>3. /\ Stored' = Stored \cup {f} /\ rows' \in [Stored' -> Row]
          /\ \A g \in Stored : rows'[g].trust = rows[g].trust /\ rows'[g].prev = rows[g].prev
          /\ f \notin Stored => rows'[f].trust = p.trust /\ rows'[f].prev = p.prev
      <4>1. /\ DOMAIN Upsert(f, p) = Stored \cup {f}
            /\ Upsert(f, p) \in [Stored \cup {f} -> Row]
            /\ \A g \in Stored : /\ Upsert(f, p)[g].trust = rows[g].trust
                                 /\ Upsert(f, p)[g].prev = rows[g].prev
            /\ f \notin Stored => /\ Upsert(f, p)[f].trust = p.trust
                                  /\ Upsert(f, p)[f].prev = p.prev
        BY <2>2, UpsertRow
      <4> QED
        BY <3>2, <4>1
    <3>4. Tracked' \subseteq Fingerprints /\ peers' \in [Tracked' -> Peer] /\ TrackedHasRow'
      BY <2>2, <3>1, <3>3
    <3>5. WarningNamesOldPeer'
      BY <2>2, <3>1, <3>3 DEF WarningNamesOldPeer
    <3> QED
      BY <3>3, <3>4, <3>5
  <2>4. CASE ~ok
    BY <1>2, <2>1, <2>4 DEF RegisterNew, Drop, WarningNamesOldPeer
  <2> QED
    BY <2>3, <2>4
<1> QED
  BY <1>1, <1>2 DEF Register

-----------------------------------------------------------------------------
\* Every step keeps the invariant.
LEMMA NextIInv == IInv /\ [Next]_vars => IInv'
<1> SUFFICES ASSUME IInv, [Next]_vars PROVE IInv'
  OBVIOUS
<1> USE TrackerAssumption DEF TrackerAssumption
<1>1. ASSUME NEW f \in Fingerprints, NEW h \in Hostnames, NEW ok \in WriteOutcomes,
             Discover(f, h, ok)
      PROVE  IInv'
  <2>1. h \in Names /\ Register(f, h, ok)
    BY <1>1 DEF Discover, Names
  <2>2. {dialog', shown'} \subseteq Fingerprints \cup {None}
    BY <1>1 DEF Discover, IInv, TypeOK
  <2> QED
    BY <2>1, <2>2, RegisterIInv DEF IInv, TypeOK
<1>2. ASSUME NEW f \in Fingerprints, NEW ok \in WriteOutcomes, AddManually(f, ok)
      PROVE  IInv'
  <2>1. ManualName(f) \in Names /\ Register(f, ManualName(f), ok)
    BY <1>2 DEF AddManually, Names
  <2>2. {dialog', shown'} \subseteq Fingerprints \cup {None}
    BY <1>2 DEF AddManually, IInv, TypeOK
  <2> QED
    BY <2>1, <2>2, RegisterIInv DEF IInv, TypeOK
<1> USE DEF IInv, TypeOK, TrackedHasRow, WarningNamesOldPeer, Tracked, Stored
<1>3. ASSUME NEW f \in Fingerprints, NEW online \in BOOLEAN, SetState(f, online)
      PROVE  IInv'
  <2>1. \A q \in Peer : /\ [q EXCEPT !.active = online] \in Peer
                        /\ [q EXCEPT !.active = online].trust = q.trust
                        /\ [q EXCEPT !.active = online].prev = q.prev
    BY DEF Peer
  <2> QED
    BY <1>3, <2>1 DEF SetState
<1>4. ASSUME NEW f \in Fingerprints, OpenWarning(f) PROVE IInv'
  BY <1>4 DEF OpenWarning
<1>5. CASE Draw \/ Dismiss
  BY <1>5 DEF Draw, Dismiss
<1>6. ASSUME NEW trust \in {"Trusted", "Blocked"}, NEW ok \in WriteOutcomes,
             Resolve(trust, ok)
      PROVE  IInv'
  <2>1. /\ \A q \in Peer : /\ [q EXCEPT !.trust = trust] \in Peer
                           /\ [q EXCEPT !.trust = trust].trust = trust
                           /\ [q EXCEPT !.trust = trust, !.active = FALSE] \in Peer
                           /\ [q EXCEPT !.trust = trust, !.active = FALSE].trust = trust
        /\ \A q \in Row : /\ [q EXCEPT !.trust = trust] \in Row
                          /\ [q EXCEPT !.trust = trust].trust = trust
    BY DEF Peer, Row, TrustStatus
  <2>2. /\ Tracked' = Tracked /\ peers' \in [Tracked -> Peer]
        /\ \A g \in Tracked : peers'[g] = peers[g] \/ peers'[g].trust = trust
    <3>1. CASE dialog \notin Tracked
      BY <1>6, <3>1 DEF Resolve
    <3>2. CASE dialog \in Tracked /\ trust = "Blocked"
      <4>1. peers' = [peers EXCEPT ![dialog] = [@ EXCEPT !.trust = trust, !.active = FALSE]]
        BY <1>6, <3>2 DEF Resolve
      <4> QED
        BY <2>1, <3>2, <4>1
    <3>3. CASE dialog \in Tracked /\ trust # "Blocked"
      <4>1. peers' = [peers EXCEPT ![dialog] = [@ EXCEPT !.trust = trust]]
        BY <1>6, <3>3 DEF Resolve
      <4> QED
        BY <2>1, <3>3, <4>1
    <3> QED
      BY <3>1, <3>2, <3>3
  <2>3. /\ Stored' = Stored /\ rows' \in [Stored -> Row]
        /\ \A g \in Stored : rows'[g] = rows[g] \/ rows'[g].trust = trust
    BY <1>6, <2>1 DEF Resolve
  <2>4. {dialog', shown'} \subseteq Fingerprints \cup {None}
    BY <1>6 DEF Resolve
  <2> QED
    BY <2>2, <2>3, <2>4
<1>7. CASE Restart
  BY <1>7 DEF Restart, Loaded, Row, Peer
<1>8. CASE UNCHANGED vars
  BY <1>8 DEF vars
<1> QED
  BY <1>1, <1>2, <1>3, <1>4, <1>5, <1>6, <1>7, <1>8 DEF Next

\* The tracker's map and the peers table keep their types, every tracked peer
\* has its row (no message of a listed peer breaks the foreign key), and a
\* warning names another peer that the database still knows.
THEOREM Invariance == Spec => []IInv
<1>1. IInv /\ [Next]_vars => IInv'
  BY NextIInv
<1> QED
  BY <1>1, InitIInv, PTL DEF Spec

\* Types of peer_tracker.rs and of the peers table, whatever writes fail.
THEOREM TypeInvariant == Spec => []TypeOK
BY Invariance, PTL DEF IInv

\* register_peer never lists a peer that has no row.
THEOREM RowsKept == Spec => []TrackedHasRow
BY Invariance, PTL DEF IInv

\* register_peer never raises a warning about a peer that cannot be looked up.
THEOREM OldPeerKnown == Spec => []WarningNamesOldPeer
BY Invariance, PTL DEF IInv

-----------------------------------------------------------------------------
(* A pending identity change stays pending.                                *)

\* The step of WarningPersists, for one fingerprint.
LEMMA RegisterKeepsWarning ==
    ASSUME IInv, NEW f \in Fingerprints, NEW h \in Names, NEW ok \in WriteOutcomes,
           Register(f, h, ok),
           NEW g \in Stored, rows[g].trust = "IdentityChanged"
    PROVE  g \in Stored' /\ rows'[g].trust = "IdentityChanged"
<1>1. ASSUME NEW p \in Peer, rows' = Upsert(f, p)
      PROVE  g \in Stored' /\ rows'[g].trust = "IdentityChanged"
  <2>1. DOMAIN Upsert(f, p) = Stored \cup {f} /\ Upsert(f, p)[g].trust = rows[g].trust
    BY UpsertRow DEF IInv
  <2> QED
    BY <1>1, <2>1 DEF Stored
<1>2. CASE rows' = rows
  BY <1>2 DEF Stored
<1>3. CASE RegisterKnown(f, h, ok)
  <2>1. Known(f, h) \in Peer
    BY <1>3 DEF RegisterKnown, Known, Peer, IInv, TypeOK, Tracked
  <2> QED
    BY <1>1, <1>2, <1>3, <2>1 DEF RegisterKnown
<1>4. ASSUME NEW p \in NewPeers(h), RegisterNew(f, p, ok)
      PROVE  g \in Stored' /\ rows'[g].trust = "IdentityChanged"
  <2>1. p \in Peer
    BY NewPeerType DEF IInv
  <2> QED
    BY <1>1, <1>2, <1>4, <2>1 DEF RegisterNew
<1> QED
  BY <1>3, <1>4 DEF Register

\* FR-ID-09: only a decision in the dialog about that very peer ends a pending
\* identity change; register_peer, evictions and restarts do not.
THEOREM ChangesStayPending == Spec => WarningPersists
<1> DEFINE Kept == \A f \in Stored :
                     rows[f].trust = "IdentityChanged" /\ f # dialog
                       => f \in Stored' /\ rows'[f].trust = "IdentityChanged"
<1>1. IInv /\ [Next]_vars => [Kept]_vars
  <2> SUFFICES ASSUME IInv, Next,
                      NEW g \in Stored, rows[g].trust = "IdentityChanged", g # dialog
               PROVE  g \in Stored' /\ rows'[g].trust = "IdentityChanged"
    OBVIOUS
  <2>1. CASE rows' = rows
    BY <2>1 DEF Stored
  <2>2. ASSUME NEW f \in Fingerprints, NEW h \in Names, NEW ok \in WriteOutcomes,
               Register(f, h, ok)
        PROVE  g \in Stored' /\ rows'[g].trust = "IdentityChanged"
    BY <2>2, RegisterKeepsWarning
  <2>3. ASSUME NEW f \in Fingerprints, NEW ok \in WriteOutcomes,
               (\E h \in Hostnames : Discover(f, h, ok)) \/ AddManually(f, ok)
        PROVE  g \in Stored' /\ rows'[g].trust = "IdentityChanged"
    BY <2>2, <2>3 DEF Discover, AddManually, Names
  <2>4. ASSUME NEW trust \in {"Trusted", "Blocked"}, NEW ok \in WriteOutcomes,
               Resolve(trust, ok)
        PROVE  g \in Stored' /\ rows'[g].trust = "IdentityChanged"
    BY <2>4 DEF Resolve, Stored, IInv, TypeOK
  <2> QED
    BY <2>1, <2>3, <2>4 DEF Next, SetState, OpenWarning, Draw, Dismiss, Restart
<1> QED
  BY <1>1, Invariance, PTL DEF Spec, WarningPersists

-----------------------------------------------------------------------------
(* The limit.  Counting needs the table to be finite, which it is because  *)
(* every step adds at most one row.                                        *)

\* The peers table is finite.
LEMMA RowsFinite == Spec => []IsFiniteSet(Stored)
<1>1. Init => IsFiniteSet(Stored)
  BY FS_EmptySet DEF Init, Stored, Empty
<1>2. IInv /\ IsFiniteSet(Stored) /\ [Next]_vars => IsFiniteSet(Stored)'
  <2> SUFFICES ASSUME IInv, IsFiniteSet(Stored), [Next]_vars PROVE IsFiniteSet(Stored')
    OBVIOUS
  <2>1. CASE Stored' = Stored
    BY <2>1
  <2>2. ASSUME NEW f, NEW p, rows' = Upsert(f, p) PROVE IsFiniteSet(Stored')
    <3>1. Stored' = Stored \cup {f}
      BY <2>2 DEF Stored, Upsert, With
    <3> QED
      BY <3>1, FS_AddElement
  <2>3. ASSUME NEW f, NEW h, NEW ok, Register(f, h, ok) PROVE IsFiniteSet(Stored')
    BY <2>1, <2>2, <2>3 DEF Register, RegisterKnown, RegisterNew, Stored
  <2>4. ASSUME NEW trust, NEW ok, Resolve(trust, ok) PROVE Stored' = Stored
    BY <2>4 DEF Resolve, Stored
  <2>5. CASE Next
    BY <2>1, <2>3, <2>4, <2>5
       DEF Next, Discover, AddManually, SetState, OpenWarning, Draw, Dismiss, Restart, Stored
  <2> QED
    BY <2>1, <2>5 DEF vars, Stored
<1> QED
  BY <1>1, <1>2, Invariance, PTL DEF Spec

\* MAX_TRACKED_PEERS: an entry is only added for a new peer, after the eviction
\* that makes room for it.
LEMMA RegisterWithinLimit ==
    ASSUME IsFiniteSet(Tracked), NEW f, NEW h, NEW ok, Register(f, h, ok),
           Cardinality(Tracked') > Cardinality(Tracked)
    PROVE  Cardinality(Tracked') <= MaxTracked
<1> USE TrackerAssumption DEF TrackerAssumption
<1>1. Cardinality(Tracked) \in Nat
  BY FS_CardinalityType
<1>2. ~RegisterKnown(f, h, ok)
  <2> SUFFICES ASSUME RegisterKnown(f, h, ok) PROVE FALSE
    OBVIOUS
  <2>1. Tracked' = Tracked
    BY DEF RegisterKnown, With, Tracked
  <2> QED
    BY <1>1, <2>1
<1>3. PICK p \in NewPeers(h) : RegisterNew(f, p, ok)
  BY <1>2 DEF Register
<1>4. PICK victim \in Victims :
        peers' = IF ok THEN With(Drop(peers, victim), f, p) ELSE Drop(peers, victim)
  BY <1>3 DEF RegisterNew
<1> DEFINE rest == Tracked \ victim
<1>5. Tracked' = rest \cup {f} \/ Tracked' = rest
  BY <1>4 DEF Tracked, With, Drop
<1>6. /\ IsFiniteSet(rest) /\ Cardinality(rest) \in Nat
      /\ Cardinality(rest) <= Cardinality(Tracked)
  BY FS_Subset, FS_CardinalityType
<1>7. Cardinality(Tracked') \in Nat /\ Cardinality(Tracked') <= Cardinality(rest) + 1
  <2>1. CASE Tracked' = rest
    BY <1>6, <2>1
  <2>2. CASE Tracked' = rest \cup {f}
    <3>1. Cardinality(rest \cup {f}) \in {Cardinality(rest), Cardinality(rest) + 1}
      BY <1>6, FS_AddElement
    <3> QED
      BY <1>6, <2>2, <3>1
  <2> QED
    BY <1>5, <2>1, <2>2
<1>8. CASE victim = {}
  <2>1. Cardinality(Tracked) < MaxTracked
    BY <1>8 DEF Victims
  <2>2. rest = Tracked
    BY <1>8
  <2>3. Cardinality(Tracked') <= Cardinality(Tracked) + 1
    BY <1>7, <2>2
  <2> QED
    BY <1>1, <1>7, <2>1, <2>3
<1>9. ASSUME NEW g \in Tracked, victim = {g} PROVE FALSE
  <2>1. Cardinality(rest) = Cardinality(Tracked) - 1
    BY <1>9, FS_RemoveElement
  <2> QED
    BY <1>1, <1>7, <2>1
<1> QED
  BY <1>4, <1>8, <1>9 DEF Victims

\* FR-PD-07: discovery does not take the map above MAX_TRACKED_PEERS, nor
\* further above it once a restart has loaded more.
THEOREM LimitKept == Spec => DiscoveryWithinLimit
<1> DEFINE Bounded == Cardinality(Tracked') > Cardinality(Tracked)
                        => Restart \/ Cardinality(Tracked') <= MaxTracked
<1>1. IInv /\ IsFiniteSet(Stored) /\ [Next]_vars => [Bounded]_vars
  <2> SUFFICES ASSUME IInv, IsFiniteSet(Stored), Next, ~Restart,
                      Cardinality(Tracked') > Cardinality(Tracked)
               PROVE  Cardinality(Tracked') <= MaxTracked
    OBVIOUS
  <2>1. IsFiniteSet(Tracked) /\ Cardinality(Tracked) \in Nat
    BY FS_Subset, FS_CardinalityType DEF IInv, TrackedHasRow
  <2>2. Tracked' # Tracked
    BY <2>1
  <2>3. ASSUME NEW f, NEW h, NEW ok, Register(f, h, ok)
        PROVE  Cardinality(Tracked') <= MaxTracked
    BY <2>1, <2>3, RegisterWithinLimit
  <2>4. ASSUME NEW trust, NEW ok, Resolve(trust, ok) PROVE FALSE
    BY <2>2, <2>4 DEF Resolve, Tracked
  <2> QED
    BY <2>2, <2>3, <2>4
       DEF Next, Discover, AddManually, SetState, OpenWarning, Draw, Dismiss, Tracked
<1> QED
  BY <1>1, Invariance, RowsFinite, PTL DEF Spec, DiscoveryWithinLimit
=============================================================================
