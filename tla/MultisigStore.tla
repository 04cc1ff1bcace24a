---------------------------- MODULE MultisigStore ----------------------------
(***************************************************************************)
(* The multisig provider of the sled storage                              *)
(* (core/storage/providers/multisig.rs).  The `multisig` tree maps an     *)
(* account to the topoheight of its last multisig version; the            *)
(* `versioned_multisigs` tree maps (account, topoheight) to a             *)
(* VersionedMultiSig: a previous topoheight and Some(setup) or None (the  *)
(* setup was deleted at that topoheight).  A setup is abstracted to       *)
(* whether it is present.                                                  *)
(*                                                                         *)
(* The chain stores a new version with set_last_multisig_to when it       *)
(* applies a block, linking it to the account's last version, and removes *)
(* the pointer with delete_last_topoheight_for_multisig.  `live` is a     *)
(* ghost: the versions the pointer's chain is meant to reach.  The        *)
(* queries (the lookup at a maximum topoheight, get_updated_multisigs,    *)
(* has_multisig) are operators checked against that history.             *)
(***************************************************************************)
EXTENDS Naturals, Functions, TLC

CONSTANTS
    Accounts,   \* public keys
    MaxTopo,    \* highest topoheight a block is applied at
    None        \* absence of a topoheight (Option::None)

ASSUME MultisigAssumption ==
    /\ MaxTopo \in Nat
    /\ None \notin Nat

Topos == 0..MaxTopo
Version == [prev : Topos \cup {None}, setup : BOOLEAN]

VARIABLES
    multisig,     \* the `multisig` tree: account -> last topoheight, None if absent
    versioned,    \* `versioned_multisigs`: account -> (topoheight -> Version)
    top,          \* topoheight of the chain's tip
    live          \* ghost: account -> (topoheight -> setup present) reachable history

vars == <<multisig, versioned, top, live>>

Init ==
    /\ multisig = [a \in Accounts |-> None]
    /\ versioned = [a \in Accounts |-> <<>>]
    /\ top = 0
    /\ live = [a \in Accounts |-> <<>>]

\* set_multisig_at_topoheight_for then set_last_topoheight_for_multisig:
\* the version at t, linked by the caller to the account's last version,
\* then the pointer to t.
SetLastMultisigTo(a, t, setup) ==
    /\ versioned' = [versioned EXCEPT ![a] =
                        (t :> [prev |-> multisig[a], setup |-> setup]) @@ @]
    /\ multisig' = [multisig EXCEPT ![a] = t]

\* delete_last_topoheight_for_multisig: only the pointer is removed.
DeleteLastTopoheightForMultisig(a) ==
    /\ multisig' = [multisig EXCEPT ![a] = None]
    /\ UNCHANGED versioned

\* The block at top + 1 registers, updates or deletes one account's setup.
ApplyMultisig(a, setup) ==
    /\ top < MaxTopo
    /\ top' = top + 1
    /\ SetLastMultisigTo(a, top + 1, setup)
    /\ live' = [live EXCEPT ![a] = (top + 1 :> setup) @@ @]

\* The account's multisig pointer is dropped (a no-op when it has none).
DropMultisig(a) ==
    /\ DeleteLastTopoheightForMultisig(a)
    /\ live' = [live EXCEPT ![a] = <<>>]
    /\ UNCHANGED top

Next ==
    \E a \in Accounts :
        \/ \E setup \in BOOLEAN : ApplyMultisig(a, setup)
        \/ DropMultisig(a)

Spec == Init /\ [][Next]_vars

-----------------------------------------------------------------------------
(* Queries *)

\* Mutant: the walk accepts a version only strictly below the maximum.
GetMultisigAtMaximumTopoheightForBelow(a, max) ==
    LET V == versioned[a]
        W[t \in Topos \cup {None}] ==
            IF t = None THEN None
            ELSE IF t < max THEN t
            ELSE IF t \in DOMAIN V THEN W[V[t].prev]
            ELSE "Error"
    IN W[multisig[a]]

(***************************************************************************)
(* get_multisig_at_maximum_topoheight_for: from the last topoheight,      *)
(* follow the previous topoheights until one is <= max; loading a missing *)
(* version is an error.  Result: that topoheight, None, or "Error".       *)
(***************************************************************************)
GetMultisigAtMaximumTopoheightFor(a, max) ==
    LET V == versioned[a]
        W[t \in Topos \cup {None}] ==
            IF t = None THEN None
            ELSE IF t <= max THEN t
            ELSE IF t \in DOMAIN V THEN W[V[t].prev]
            ELSE "Error"
    IN W[multisig[a]]

(***************************************************************************)
(* One key of get_updated_multisigs: None when the account has no version *)
(* up to max, Clean when its version is older than min, otherwise Some or  *)
(* Deleted after the version's content.                                    *)
(***************************************************************************)
GetUpdatedMultisig(a, min, max) ==
    LET t == GetMultisigAtMaximumTopoheightFor(a, max)
    IN IF t = None THEN "None"
       ELSE IF t >= min THEN (IF versioned[a][t].setup THEN "Some" ELSE "Deleted")
       ELSE "Clean"

\* has_multisig: the last version holds a setup.
HasMultisig(a) == multisig[a] # None /\ versioned[a][multisig[a]].setup

-----------------------------------------------------------------------------
(* Properties *)

\* The newest of a set of topoheights, None for the empty set.
Newest(S) == IF S = {} THEN None ELSE CHOOSE t \in S : \A u \in S : u <= t

\* What the account's setup was at topoheight m, after the history.
LiveAt(a, m) == Newest({t \in DOMAIN live[a] : t <= m})

(***************************************************************************)
(* The chain walk of get_multisig_at_maximum_topoheight_for finds, for    *)
(* every account and every maximum, the newest version at or below it in *)
(* the account's history, and never fails, even after the pointer was     *)
(* dropped and the chain restarted above orphaned versions.               *)
(***************************************************************************)
LookupFindsNewest ==
    \A a \in Accounts, max \in Topos :
        GetMultisigAtMaximumTopoheightFor(a, max) = LiveAt(a, max)
=============================================================================
