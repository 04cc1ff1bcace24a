--------------------- MODULE MC_ObjectTrackerShutdown ---------------------
(* Small instances of the tracker's shutdown and abandoned sends for TLC. *)
EXTENDS ObjectTrackerShutdown, TLC

CONSTANTS c1, c2, h1, h2, p1, p2

MCCallers == {c1, c2}
MCHashes == {h1, h2}
MCPeers == {p1, p2}
MCOnePeer == {p1}
MCOneHash == {h1}

\* Callers, hashes and peers are interchangeable model values.
MCSymmetry == Permutations(MCCallers) \cup Permutations(MCHashes) \cup Permutations(MCPeers)
=============================================================================
