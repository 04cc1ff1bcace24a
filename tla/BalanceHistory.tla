--------------------------- MODULE BalanceHistory ---------------------------
(***************************************************************************)
(* What the versioned balance store promises its callers                  *)
(* (VersionedBalanceProvider, core/storage/providers/versioned/           *)
(* balance.rs), stated without its trees: each (key, asset) has a history *)
(* of BalanceTypes by topoheight and a last topoheight, its newest one.   *)
(* A block adds one version for some keys at tip + 1; popping the tip     *)
(* removes every version at tip and moves each last topoheight it held to *)
(* the newest remaining one.                                               *)
(***************************************************************************)
EXTENDS Naturals

CONSTANTS
    Keys,       \* (public key, asset) pairs with a balance
    MaxTopo,    \* highest topoheight a block is applied at
    None        \* absence of a topoheight
BalanceTypes == {"Input", "Output", "Both"}

VARIABLES
    tip,        \* topoheight of the chain's tip
    history,    \* key -> (topoheight -> BalanceType)
    last        \* key -> its newest topoheight, None when it has none

vars == <<tip, history, last>>

\* The newest topoheight of a set of them, None for the empty set.
NewestOf(S) == IF S = {} THEN None ELSE CHOOSE t \in S : \A u \in S : u <= t

Init ==
    /\ tip = 0
    /\ history = [k \in Keys |-> <<>>]
    /\ last = [k \in Keys |-> None]

\* The histories with a version of type change[k] at t for each key the
\* change names.
Record(h, t, change) ==
    [k \in Keys |->
        IF change[k] # None
           THEN [u \in DOMAIN h[k] \cup {t} |-> IF u = t THEN change[k] ELSE h[k][u]]
           ELSE h[k]]

\* The histories without their versions at t.
Drop(h, t) == [k \in Keys |-> [u \in DOMAIN h[k] \ {t} |-> h[k][u]]]

\* The last topoheights once the versions at t are gone: each key that had
\* one at t is left on its newest remaining version.
Moved(h, l, t) ==
    [k \in Keys |-> IF t \in DOMAIN h[k] THEN NewestOf(DOMAIN h[k] \ {t}) ELSE l[k]]

\* The block at tip + 1 writes a version for each key change[k] # None.
Apply(change) ==
    /\ tip < MaxTopo
    /\ tip' = tip + 1
    /\ history' = Record(history, tip + 1, change)
    /\ last' = [k \in Keys |-> IF change[k] # None THEN tip + 1 ELSE last[k]]

\* delete_versioned_balances_at_topoheight(tip), as the tip is popped.
PopTip ==
    /\ tip > 0
    /\ tip' = tip - 1
    /\ history' = Drop(history, tip)
    /\ last' = Moved(history, last, tip)

Next ==
    \/ \E change \in [Keys -> BalanceTypes \cup {None}] : Apply(change)
    \/ PopTip

Spec == Init /\ [][Next]_vars
=============================================================================
