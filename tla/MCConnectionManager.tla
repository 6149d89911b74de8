------------------------ MODULE MCConnectionManager ------------------------
(* Small instances of ConnectionManager for TLC. *)
EXTENDS ConnectionManager, TLC

\* No step distinguishes peers, sessions or messages (safety runs only).
Symmetry == Permutations(Peers) \cup Permutations(Sessions) \cup Permutations(Messages)
=============================================================================
