---------------------------- MODULE MC_CoinUtils ----------------------------
(* Small inputs of the coin, fee and difficulty helpers for TLC. *)
EXTENDS CoinUtils

\* Sizes around the KB boundaries.
MCSizes == {0, 1, 1023, 1024, 1025, 2049}
=============================================================================
