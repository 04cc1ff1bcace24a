------------------------- MODULE MC_VersionedBalances -------------------------
(* Two (key, asset) pairs iterated in a fixed order, for TLC. *)
EXTENDS VersionedBalances

CONSTANTS k1, k2

MCKeys == {k1, k2}
MCKeyOrder == <<k1, k2>>
=============================================================================
