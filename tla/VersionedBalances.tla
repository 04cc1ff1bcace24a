-------------------------- MODULE VersionedBalances --------------------------
(***************************************************************************)
(* The versioned balances of the sled storage                             *)
(* (core/storage/providers/versioned/balance.rs).  Two trees hold them:   *)
(* `balances` maps a (key, asset) to the topoheight of its last version,  *)
(* and `versioned_balances` maps (topoheight, key, asset) to a            *)
(* VersionedBalance, whose prefix is the topoheight of the previous       *)
(* version.  A (key, asset) pair is a model value of Keys; the balance    *)
(* amounts are abstracted away, only the BalanceType of a version is      *)
(* kept, since it is all the pruning looks at.                            *)
(*                                                                         *)
(* The chain writes a new version for some keys when it applies a block   *)
(* (ApplyBlock, outside these sources), pops its tip with                 *)
(* delete_versioned_balances_at_topoheight (RewindTop) and prunes with    *)
(* delete_versioned_balances_below_topoheight(_, keep_last = true)        *)
(* (PruneKeepLast).  `written` is a ghost: every version applied and not  *)
(* rewound, the history the two trees are meant to hold.                  *)
(***************************************************************************)
EXTENDS Naturals, Sequences, FiniteSets, Functions

CONSTANTS
    Keys,       \* (public key, asset) pairs with a balance
    MaxTopo,    \* highest topoheight a block is applied at
    KeyOrder,   \* the order in which sled iterates the keys of a tree
    None        \* absence of a topoheight (Option::None)

ASSUME BalancesAssumption ==
    /\ MaxTopo \in Nat
    /\ None \notin Nat
    /\ KeyOrder \in Seq(Keys)
    /\ \A k \in Keys : \E i \in 1..Len(KeyOrder) : KeyOrder[i] = k
    /\ \A i, j \in 1..Len(KeyOrder) : KeyOrder[i] = KeyOrder[j] => i = j

Topos == 0..MaxTopo
BalanceTypes == {"Input", "Output", "Both"}
Version == [prev : Topos \cup {None}, ty : BalanceTypes]

VARIABLES
    balances,   \* the `balances` tree: key -> last topoheight, None if absent
    versioned,  \* the `versioned_balances` tree: key -> (topoheight -> Version)
    top,        \* topoheight of the chain's tip
    written     \* ghost: key -> (topoheight -> BalanceType) of the live history

vars == <<balances, versioned, top, written>>

\* BalanceType::contains_output
ContainsOutput(ty) == ty \in {"Output", "Both"}

\* Position of a key in sled's iteration order.
Rank(k) == CHOOSE i \in 1..Len(KeyOrder) : KeyOrder[i] = k

\* The keys a loop over `keys` visits before it stops at its first error
\* (the `?` on a failed read returns from the whole function).
ReachedBefore(keys, failing) ==
    {k \in keys : \A e \in failing : Rank(k) <= Rank(e)}

Without(f, t) == Restrict(f, DOMAIN f \ {t})

\* A tree with the entry t set to v (sled's insert).
InsertAt(f, t, v) == [x \in DOMAIN f \cup {t} |-> IF x = t THEN v ELSE f[x]]

Init ==
    /\ balances = [k \in Keys |-> None]
    /\ versioned = [k \in Keys |-> <<>>]
    /\ top = 0
    /\ written = [k \in Keys |-> <<>>]

(***************************************************************************)
(* Applying the block at top + 1: every changed key gets a new version    *)
(* whose previous topoheight is its current last one, and the pointer is  *)
(* moved to it.  This is the caller's side of the trees, done by the      *)
(* blockchain's state application; change[k] = None leaves k alone.        *)
(***************************************************************************)
ApplyBlock(change) ==
    LET t == top + 1
        W == {k \in Keys : change[k] # None}
    IN /\ top < MaxTopo
       /\ top' = t
       /\ versioned' = [k \in Keys |->
             IF k \in W THEN InsertAt(versioned[k], t, [prev |-> balances[k], ty |-> change[k]])
                        ELSE versioned[k]]
       /\ balances' = [k \in Keys |-> IF k \in W THEN t ELSE balances[k]]
       /\ written' = [k \in Keys |->
             IF k \in W THEN InsertAt(written[k], t, change[k]) ELSE written[k]]

\* Mutant: the pointer is moved only when it is strictly above t.
DeleteVersionedBalancesAtTopoheightAbove(t) ==
    LET S       == {k \in Keys : t \in DOMAIN versioned[k]}
        failing == {k \in S : balances[k] = None}
        removed == ReachedBefore(S, failing)
        moved   == {k \in removed \ failing : balances[k] > t}
    IN /\ versioned' = [k \in Keys |->
             IF k \in removed THEN Without(versioned[k], t) ELSE versioned[k]]
       /\ balances' = [k \in Keys |->
             IF k \in moved THEN versioned[k][t].prev ELSE balances[k]]

(***************************************************************************)
(* delete_versioned_balances_at_topoheight(t).  The scan over the         *)
(* versions at t removes each one, then reads the key's last topoheight   *)
(* (an error when the pointer is absent, which ends the scan) and, when   *)
(* it is >= t, moves the pointer to the removed version's previous one,   *)
(* removing the pointer when there is none (prev = None).                 *)
(***************************************************************************)
DeleteVersionedBalancesAtTopoheight(t) ==
    LET S       == {k \in Keys : t \in DOMAIN versioned[k]}
        failing == {k \in S : balances[k] = None}
        removed == ReachedBefore(S, failing)
        moved   == {k \in removed \ failing : balances[k] >= t}
    IN /\ versioned' = [k \in Keys |->
             IF k \in removed THEN Without(versioned[k], t) ELSE versioned[k]]
       /\ balances' = [k \in Keys |->
             IF k \in moved THEN versioned[k][t].prev ELSE balances[k]]

\* The rewind of the tip deletes the versions at top; a failed deletion
\* leaves the tip where it was.
RewindTop ==
    /\ top > 0
    /\ DeleteVersionedBalancesAtTopoheight(top)
    /\ IF \E k \in Keys : top \in DOMAIN versioned[k] /\ balances[k] = None
          THEN UNCHANGED <<top, written>>
          ELSE /\ top' = top - 1
               /\ written' = [k \in Keys |-> Without(written[k], top)]

\* Mutant: the walk deletes from the first previous version on, without
\* looking for an output version.
KeepLastWalkEager(V, start) ==
    LET W[t \in Topos \cup {None}, delete \in BOOLEAN] ==
            IF t = None THEN [gone |-> {}, err |-> FALSE]
            ELSE IF t \notin DOMAIN V THEN [gone |-> {}, err |-> ~delete]
            ELSE IF delete THEN [gone |-> W[V[t].prev, TRUE].gone \cup {t}, err |-> FALSE]
            ELSE W[V[t].prev, ContainsOutput(V[t].ty)]
    IN W[start, TRUE]

(***************************************************************************)
(* The keep_last walk of one key: starting from the previous topoheight   *)
(* of its last version, versions are read until one contains an output;   *)
(* every version below that one is removed.  Reading a missing version    *)
(* is an error; removing one ends the walk (sled's remove yields None).   *)
(* Result: the topoheights removed and whether the walk failed.           *)
(***************************************************************************)
KeepLastWalk(V, start) ==
    LET W[t \in Topos \cup {None}, delete \in BOOLEAN] ==
            IF t = None THEN [gone |-> {}, err |-> FALSE]
            ELSE IF t \notin DOMAIN V THEN [gone |-> {}, err |-> ~delete]
            ELSE IF delete THEN [gone |-> W[V[t].prev, TRUE].gone \cup {t}, err |-> FALSE]
            ELSE W[V[t].prev, ContainsOutput(V[t].ty)]
    IN W[start, FALSE]

\* One key of the keep_last loop: loading the last version fails when it is
\* missing, otherwise the walk starts at its previous topoheight.
KeepLastOf(k) ==
    IF balances[k] \notin DOMAIN versioned[k]
        THEN [gone |-> {}, err |-> TRUE]
        ELSE KeepLastWalk(versioned[k], versioned[k][balances[k]].prev)

(***************************************************************************)
(* delete_versioned_balances_below_topoheight(topoheight, keep_last =     *)
(* true): every key of `balances` is walked in sled's order until one     *)
(* fails.  The topoheight argument is not used by this branch.            *)
(***************************************************************************)
DeleteVersionedBalancesBelowTopoheight(topoheight) ==
    LET K       == {k \in Keys : balances[k] # None}
        failing == {k \in K : KeepLastOf(k).err}
        reached == ReachedBefore(K, failing)
    IN versioned' = [k \in Keys |->
          IF k \in reached
             THEN Restrict(versioned[k], DOMAIN versioned[k] \ KeepLastOf(k).gone)
             ELSE versioned[k]]

\* The pruning caller asks for any topoheight up to the tip.
PruneKeepLast(p) ==
    /\ p \in 0..top
    /\ DeleteVersionedBalancesBelowTopoheight(p)
    /\ UNCHANGED <<balances, top, written>>

NextRewind ==
    \/ \E change \in [Keys -> BalanceTypes \cup {None}] : ApplyBlock(change)
    \/ RewindTop

NextPrune ==
    \/ \E change \in [Keys -> BalanceTypes \cup {None}] : ApplyBlock(change)
    \/ \E p \in Topos : PruneKeepLast(p)

SpecRewind == Init /\ [][NextRewind]_vars
SpecPrune == Init /\ [][NextPrune]_vars

-----------------------------------------------------------------------------
(* Properties *)

\* The newest topoheight of a set of them, None for the empty set.
Newest(S) == IF S = {} THEN None ELSE CHOOSE t \in S : \A u \in S : u <= t

\* The version of key k at t as the history says it should be stored.
HistoryVersion(k, t) ==
    [prev |-> Newest({u \in DOMAIN written[k] : u < t}), ty |-> written[k][t]]

(***************************************************************************)
(* Rewinding the tip with delete_versioned_balances_at_topoheight, in any *)
(* interleaving with block applications, leaves exactly the live history *)
(* in the trees: each key's pointer is its newest live version, and each  *)
(* stored version links to the live version just below it.                *)
(***************************************************************************)
StoreMatchesWritten ==
    \A k \in Keys :
        /\ DOMAIN versioned[k] = DOMAIN written[k]
        /\ balances[k] = Newest(DOMAIN written[k])
        /\ \A t \in DOMAIN versioned[k] : versioned[k][t] = HistoryVersion(k, t)

\* The newest live version of k that contains an output, or 0 when none does.
NewestOutput(k) ==
    LET O == {t \in DOMAIN written[k] : ContainsOutput(written[k][t])}
    IN IF O = {} THEN 0 ELSE Newest(O)

(***************************************************************************)
(* keep_last pruning never loses what a balance needs: the pointer is the *)
(* newest version and every live version from the newest one containing  *)
(* an output upwards is still stored with its link.                        *)
(***************************************************************************)
OutputChainKept ==
    \A k \in Keys :
        /\ balances[k] = Newest(DOMAIN written[k])
        /\ \A t \in DOMAIN written[k] :
              t >= NewestOutput(k) =>
                  /\ t \in DOMAIN versioned[k]
                  /\ versioned[k][t] = HistoryVersion(k, t)

(***************************************************************************)
(* The trait documents delete_versioned_balances_below_topoheight as      *)
(* deleting the versions below its topoheight: a pruning call never       *)
(* removes a version at or above the topoheight it was given.             *)
(***************************************************************************)
DeletesOnlyBelow ==
    [][\A p \in Topos :
          PruneKeepLast(p) =>
              \A k \in Keys : \A t \in DOMAIN versioned[k] \ DOMAIN versioned'[k] : t < p]_vars
\* The abstract store the two trees stand for: each key's history is the
\* BalanceType of every stored version, its last topoheight the pointer.
History == INSTANCE BalanceHistory
    WITH tip <- top,
         history <- [k \in Keys |-> [t \in DOMAIN versioned[k] |-> versioned[k][t].ty]],
         last <- balances

(***************************************************************************)
(* The trees with delete_versioned_balances_at_topoheight implement the   *)
(* store's promise: every block application adds the versions of the     *)
(* block, and every rewind of the tip, whatever the order of sled's scan, *)
(* removes exactly the versions at the tip and leaves each pointer it     *)
(* moves on the newest remaining version.                                 *)
(***************************************************************************)
ImplementsHistory == History!Spec
=============================================================================
