--------------------------- MODULE MCPeerTracker ---------------------------
(* Small instances of PeerTracker for TLC. *)
EXTENDS PeerTracker, TLC

Symmetry == Permutations(Fingerprints)
=============================================================================
