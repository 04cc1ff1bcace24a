------------------------- MODULE MC_ObjectTracker -------------------------
(* Small instances of the object tracker for TLC. *)
EXTENDS ObjectTracker, TLC

CONSTANTS c1, c2, h1, h2, p1, p2

MCCallers == {c1, c2}
MCHashes == {h1, h2}
MCPeers == {p1, p2}
MCOnePeer == {p1}

\* Callers, hashes and peers are interchangeable model values.
MCSymmetry == Permutations(MCCallers) \cup Permutations(MCHashes) \cup Permutations(MCPeers)
=============================================================================
