----------------------------- MODULE MCNotifier -----------------------------
(* Small instances of Notifier for TLC. *)
EXTENDS Notifier, TLC

Symmetry == Permutations(Peers)
=============================================================================
