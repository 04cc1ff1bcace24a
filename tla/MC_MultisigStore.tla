--------------------------- MODULE MC_MultisigStore ---------------------------
(* Two accounts, for TLC; accounts are interchangeable. *)
EXTENDS MultisigStore

CONSTANTS a1, a2

MCAccounts == {a1, a2}
MCSymmetry == Permutations(MCAccounts)
=============================================================================
