--------------------------- MODULE MC_AssetManager ---------------------------
(* Two contracts creating assets with short strings for TLC. *)
EXTENDS AssetManager, TLC

CONSTANTS k1, k2, i1, i2, i3

MCContracts == {k1, k2}
MCIds == {i1, i2, i3}

\* Tickers: valid, too long, lower case, inner space, two-byte character.
MCTickers == {<<"A", "0">>, <<"A", "A", "A">>, <<"a">>, <<"A", " ", "A">>, <<"é">>}
\* Names: valid with an inner space, leading space, trailing space, too long
\* in bytes, two-byte character.
MCNames == {<<"a", " ", "A">>, <<" ", "a">>, <<"a", " ">>, <<"A", "a", "0", "a">>, <<"é">>}

MCSymmetry == Permutations(MCContracts) \cup Permutations(MCIds)
=============================================================================
