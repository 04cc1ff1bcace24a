--------------------- MODULE VersionedBalancesProofs ---------------------
(***************************************************************************)
(* Proof that rewinding the tip with delete_versioned_balances_at_        *)
(* topoheight, interleaved with block applications, keeps the two sled    *)
(* trees equal to the live history (StoreMatchesWritten), for any set of  *)
(* keys, any iteration order and any height bound.                         *)
(*                                                                         *)
(* StoreMatchesWritten alone is not inductive: a state whose history holds *)
(* a topoheight above the tip satisfies it, and the next block, written   *)
(* at top + 1, would then link below a version that is newer than it.     *)
(* The strengthening says that every live topoheight of a key is in       *)
(* 1 .. top.  With it, the version at the tip is each key's newest, so    *)
(* the scan of the rewind never meets an absent pointer (no key fails and *)
(* every key holding a version at the tip has its pointer moved back).    *)
(***************************************************************************)
EXTENDS VersionedBalances, TLAPS

USE BalancesAssumption

\* What the trees hold for one key, with the live history below the tip.
KeyInv(k) ==
    /\ DOMAIN written[k] \subseteq 1 .. top
    /\ DOMAIN versioned[k] = DOMAIN written[k]
    /\ balances[k] = Newest(DOMAIN written[k])
    /\ \A t \in DOMAIN versioned[k] : versioned[k][t] = HistoryVersion(k, t)

StoreInv ==
    /\ top \in 0 .. MaxTopo
    /\ \A k \in Keys : KeyInv(k)

\* The newest of a set of topoheights is the one no other exceeds.
LEMMA NewestIsMax ==
    ASSUME NEW S \in SUBSET Nat, NEW t \in S, \A u \in S : u <= t
    PROVE  Newest(S) = t
<1>1. S # {}
  OBVIOUS
<1>2. \A c \in S : (\A u \in S : u <= c) => c = t
  OBVIOUS
<1>. QED
  BY <1>1, <1>2 DEF Newest

LEMMA InitStoreInv == Init => StoreInv
<1> SUFFICES ASSUME Init PROVE StoreInv
  OBVIOUS
<1>1. Newest({}) = None
  BY DEF Newest
<1>. QED
  BY <1>1 DEF Init, StoreInv, KeyInv

(***************************************************************************)
(* A block at top + 1 extends the history and the trees of the keys it    *)
(* changes with one version above all others, linked to the old newest.   *)
(***************************************************************************)
LEMMA ApplyBlockStoreInv ==
    ASSUME StoreInv, NEW change \in [Keys -> BalanceTypes \cup {None}], ApplyBlock(change)
    PROVE  StoreInv'
<1> DEFINE W == {k \in Keys : change[k] # None}
<1>0. top \in Nat
  BY DEF StoreInv
<1> PICK t \in Nat : t = top + 1
  BY <1>0
<1>1. top' = t /\ t \in 0 .. MaxTopo
  BY DEF ApplyBlock, StoreInv
<1>2. ASSUME NEW k \in Keys PROVE KeyInv(k)'
  <2> DEFINE D == DOMAIN written[k]
  <2>1. KeyInv(k)
    BY DEF StoreInv
  <2>2. D \subseteq 1 .. top
    BY <2>1 DEF KeyInv
  <2>3. CASE k \in W
    <3>1. /\ written'[k] = InsertAt(written[k], t, change[k])
          /\ versioned'[k] = InsertAt(versioned[k], t, [prev |-> balances[k], ty |-> change[k]])
          /\ balances'[k] = t
      BY <2>3 DEF ApplyBlock
    <3>2. /\ DOMAIN written'[k] = D \cup {t}
          /\ DOMAIN versioned'[k] = D \cup {t}
          /\ written'[k][t] = change[k]
          /\ versioned'[k][t] = [prev |-> balances[k], ty |-> change[k]]
          /\ \A s \in D : written'[k][s] = written[k][s] /\ versioned'[k][s] = versioned[k][s]
      BY <3>1, <2>1, <2>2, <1>0 DEF InsertAt, KeyInv
    <3>3. DOMAIN written'[k] \subseteq 1 .. top'
      BY <3>2, <2>2, <1>0, <1>1
    <3>4. balances'[k] = Newest(DOMAIN written'[k])
      <4>1. /\ D \cup {t} \subseteq Nat
            /\ \A u \in D \cup {t} : u <= t
        BY <2>2, <1>0
      <4>. QED
        BY <3>1, <3>2, <4>1, NewestIsMax
    <3>5. {u \in D \cup {t} : u < t} = D
      BY <2>2, <1>0
    <3>6. versioned'[k][t] = HistoryVersion(k, t)'
      BY <3>2, <3>5, <2>1 DEF HistoryVersion, KeyInv
    <3>7. ASSUME NEW s \in D PROVE versioned'[k][s] = HistoryVersion(k, s)'
      <4>1. {u \in D \cup {t} : u < s} = {u \in D : u < s}
        BY <2>2, <1>0
      <4>2. versioned[k][s] = HistoryVersion(k, s)
        BY <2>1 DEF KeyInv
      <4>. QED
        BY <4>1, <4>2, <3>2 DEF HistoryVersion
    <3>. QED
      BY <3>2, <3>3, <3>4, <3>6, <3>7 DEF KeyInv
  <2>4. CASE k \notin W
    <3>1. /\ written'[k] = written[k]
          /\ versioned'[k] = versioned[k]
          /\ balances'[k] = balances[k]
      BY <2>4 DEF ApplyBlock
    <3>2. D \subseteq 1 .. top'
      BY <2>2, <1>0, <1>1
    <3>. QED
      BY <3>1, <3>2, <2>1 DEF KeyInv, HistoryVersion
  <2>. QED
    BY <2>3, <2>4
<1>. QED
  BY <1>1, <1>2 DEF StoreInv

(***************************************************************************)
(* Rewinding the tip: with the history below the tip, every key holding a *)
(* version at the tip has its pointer there, so the scan never fails; it  *)
(* removes those versions and moves each pointer to the previous one.     *)
(***************************************************************************)
LEMMA RewindTopEffect ==
    ASSUME StoreInv, RewindTop
    PROVE  /\ top \in 1 .. MaxTopo
           /\ top' = top - 1
           /\ written' = [k \in Keys |-> Without(written[k], top)]
           /\ versioned' = [k \in Keys |-> IF top \in DOMAIN versioned[k]
                                             THEN Without(versioned[k], top) ELSE versioned[k]]
           /\ balances' = [k \in Keys |-> IF top \in DOMAIN versioned[k]
                                            THEN versioned[k][top].prev ELSE balances[k]]
<1> DEFINE S == {k \in Keys : top \in DOMAIN versioned[k]}
<1>1. top \in 1 .. MaxTopo
  BY DEF RewindTop, StoreInv
<1>2. ASSUME NEW k \in S PROVE balances[k] = top
  <2>1. KeyInv(k)
    BY DEF StoreInv
  <2>2. /\ DOMAIN written[k] \in SUBSET Nat
        /\ top \in DOMAIN written[k]
        /\ \A u \in DOMAIN written[k] : u <= top
    BY <2>1, <1>1 DEF KeyInv
  <2>3. Newest(DOMAIN written[k]) = top
    BY <2>2, NewestIsMax
  <2>. QED
    BY <2>1, <2>3 DEF KeyInv
<1>3. ~\E k \in Keys : top \in DOMAIN versioned[k] /\ balances[k] = None
  BY <1>1, <1>2
<1>4. /\ top' = top - 1
      /\ written' = [k \in Keys |-> Without(written[k], top)]
  BY <1>3 DEF RewindTop
<1>5. {k \in S : balances[k] = None} = {}
  BY <1>3
<1>6. ReachedBefore(S, {}) = S
  BY DEF ReachedBefore
<1>7. {k \in S : balances[k] >= top} = S
  BY <1>2, <1>1
<1>8. /\ versioned' = [k \in Keys |-> IF k \in S THEN Without(versioned[k], top) ELSE versioned[k]]
      /\ balances' = [k \in Keys |-> IF k \in S THEN versioned[k][top].prev ELSE balances[k]]
  BY <1>5, <1>6, <1>7 DEF RewindTop, DeleteVersionedBalancesAtTopoheight
<1>. QED
  BY <1>1, <1>4, <1>8

LEMMA RewindTopStoreInv ==
    ASSUME StoreInv, RewindTop
    PROVE  StoreInv'
<1> DEFINE S == {k \in Keys : top \in DOMAIN versioned[k]}
<1>1. top \in 1 .. MaxTopo
  BY RewindTopEffect
<1>4. /\ top' = top - 1
      /\ written' = [k \in Keys |-> Without(written[k], top)]
  BY RewindTopEffect
<1>8. /\ versioned' = [k \in Keys |-> IF k \in S THEN Without(versioned[k], top) ELSE versioned[k]]
      /\ balances' = [k \in Keys |-> IF k \in S THEN versioned[k][top].prev ELSE balances[k]]
  BY RewindTopEffect
<1>9. ASSUME NEW k \in Keys PROVE KeyInv(k)'
  <2> DEFINE D == DOMAIN written[k]
  <2>1. KeyInv(k)
    BY DEF StoreInv
  <2>2. D \subseteq 1 .. top
    BY <2>1 DEF KeyInv
  <2>3. /\ DOMAIN written'[k] = D \ {top}
        /\ \A s \in D \ {top} : written'[k][s] = written[k][s]
    BY <1>4 DEF Without, Restrict
  <2>4. D \ {top} \subseteq 1 .. top'
    BY <2>2, <1>1, <1>4
  <2>5. ASSUME NEW s \in D \ {top}
        PROVE  {u \in D \ {top} : u < s} = {u \in D : u < s}
    BY <2>2
  <2>6. CASE k \in S
    <3>1. /\ DOMAIN versioned'[k] = D \ {top}
          /\ \A s \in D \ {top} : versioned'[k][s] = versioned[k][s]
          /\ balances'[k] = versioned[k][top].prev
      BY <2>6, <1>8, <2>1 DEF Without, Restrict, KeyInv
    <3>2. versioned[k][top].prev = Newest({u \in D : u < top})
      <4>1. versioned[k][top] = HistoryVersion(k, top)
        BY <2>6, <2>1 DEF KeyInv
      <4>. QED
        BY <4>1 DEF HistoryVersion
    <3>3. {u \in D : u < top} = D \ {top}
      BY <2>2, <1>1
    <3>4. ASSUME NEW s \in D \ {top} PROVE versioned'[k][s] = HistoryVersion(k, s)'
      <4>1. versioned[k][s] = HistoryVersion(k, s)
        BY <2>1 DEF KeyInv
      <4>. QED
        BY <4>1, <3>1, <2>3, <2>5 DEF HistoryVersion
    <3>. QED
      BY <3>1, <3>2, <3>3, <3>4, <2>3, <2>4 DEF KeyInv
  <2>7. CASE k \notin S
    <3>1. top \notin D
      BY <2>7, <2>1 DEF KeyInv
    <3>2. /\ versioned'[k] = versioned[k]
          /\ balances'[k] = balances[k]
      BY <2>7, <1>8
    <3>3. D \ {top} = D
      BY <3>1
    <3>4. ASSUME NEW s \in D PROVE versioned'[k][s] = HistoryVersion(k, s)'
      <4>1. versioned[k][s] = HistoryVersion(k, s)
        BY <2>1 DEF KeyInv
      <4>. QED
        BY <4>1, <3>2, <3>3, <2>3, <2>5 DEF HistoryVersion
    <3>. QED
      BY <3>2, <3>3, <3>4, <2>1, <2>3, <2>4 DEF KeyInv
  <2>. QED
    BY <2>6, <2>7
<1>. QED
  BY <1>1, <1>4, <1>9 DEF StoreInv

LEMMA NextRewindStoreInv == StoreInv /\ [NextRewind]_vars => StoreInv'
<1> SUFFICES ASSUME StoreInv, [NextRewind]_vars PROVE StoreInv'
  OBVIOUS
<1>1. CASE \E change \in [Keys -> BalanceTypes \cup {None}] : ApplyBlock(change)
  BY <1>1, ApplyBlockStoreInv
<1>2. CASE RewindTop
  BY <1>2, RewindTopStoreInv
<1>3. CASE UNCHANGED vars
  BY <1>3 DEF vars, StoreInv, KeyInv, HistoryVersion
<1>. QED
  BY <1>1, <1>2, <1>3 DEF NextRewind

(***************************************************************************)
(* Rewinding the tip with delete_versioned_balances_at_topoheight, in any *)
(* interleaving with block applications, keeps each key's pointer on its  *)
(* newest live version and each stored version linked to the live one    *)
(* below it.                                                                *)
(***************************************************************************)
THEOREM StoreMatchesWrittenInvariant == SpecRewind => []StoreMatchesWritten
<1>1. StoreInv => StoreMatchesWritten
  BY DEF StoreInv, KeyInv, StoreMatchesWritten
<1>. QED
  BY <1>1, InitStoreInv, NextRewindStoreInv, PTL DEF SpecRewind
-----------------------------------------------------------------------------
(* Refinement of the abstract store BalanceHistory *)

\* The refinement mapping of the history, as History substitutes it.
HistMap == [k \in Keys |-> [t \in DOMAIN versioned[k] |-> versioned[k][t].ty]]

LEMMA InitRefines == Init => History!Init
<1> SUFFICES ASSUME Init PROVE History!Init
  OBVIOUS
<1>1. \A k \in Keys : [t \in DOMAIN versioned[k] |-> versioned[k][t].ty] = <<>>
  BY DEF Init
<1>. QED
  BY <1>1 DEF Init, History!Init

\* A block application is the abstract Apply of the same change.
LEMMA ApplyBlockRefines ==
    ASSUME StoreInv, NEW change \in [Keys -> BalanceTypes \cup {None}], ApplyBlock(change)
    PROVE  History!Apply(change)
<1> DEFINE W == {k \in Keys : change[k] # None}
<1>0. top \in Nat
  BY DEF StoreInv
<1> PICK t \in Nat : t = top + 1
  BY <1>0
<1> SUFFICES /\ top < MaxTopo
             /\ top' = t
             /\ HistMap' = History!Record(HistMap, t, change)
             /\ balances' = [k \in Keys |-> IF change[k] # None THEN t ELSE balances[k]]
  BY DEF History!Apply, HistMap
<1>1. top < MaxTopo /\ top' = t
  BY DEF ApplyBlock
<1>2. balances' = [k \in Keys |-> IF change[k] # None THEN t ELSE balances[k]]
  BY DEF ApplyBlock
<1>3. ASSUME NEW k \in Keys
      PROVE  HistMap'[k] = IF change[k] # None
                              THEN [u \in DOMAIN HistMap[k] \cup {t} |->
                                      IF u = t THEN change[k] ELSE HistMap[k][u]]
                              ELSE HistMap[k]
  <2>1. CASE change[k] # None
    <3>1. versioned'[k] = InsertAt(versioned[k], t, [prev |-> balances[k], ty |-> change[k]])
      BY <2>1 DEF ApplyBlock
    <3>. QED
      BY <2>1, <3>1 DEF HistMap, InsertAt
  <2>2. CASE change[k] = None
    <3>1. versioned'[k] = versioned[k]
      BY <2>2 DEF ApplyBlock
    <3>. QED
      BY <2>2, <3>1 DEF HistMap
  <2>. QED
    BY <2>1, <2>2
<1>4. HistMap' = History!Record(HistMap, t, change)
  <2>1. HistMap' = [k \in Keys |-> HistMap'[k]]
    BY DEF HistMap
  <2>. QED
    BY <2>1, <1>3 DEF History!Record
<1>. QED
  BY <1>1, <1>2, <1>4

\* A rewind of the tip is the abstract PopTip: the scan removes exactly the
\* versions at the tip, and the link it follows is the newest remaining.
LEMMA RewindTopRefines ==
    ASSUME StoreInv, RewindTop
    PROVE  History!PopTip
<1> SUFFICES /\ top > 0
             /\ top' = top - 1
             /\ HistMap' = History!Drop(HistMap, top)
             /\ balances' = History!Moved(HistMap, balances, top)
  BY DEF History!PopTip, HistMap
<1>1. /\ top \in 1 .. MaxTopo
      /\ top' = top - 1
      /\ versioned' = [k \in Keys |-> IF top \in DOMAIN versioned[k]
                                        THEN Without(versioned[k], top) ELSE versioned[k]]
      /\ balances' = [k \in Keys |-> IF top \in DOMAIN versioned[k]
                                       THEN versioned[k][top].prev ELSE balances[k]]
  BY RewindTopEffect
<1>2. ASSUME NEW k \in Keys
      PROVE  HistMap'[k] = [u \in DOMAIN HistMap[k] \ {top} |-> HistMap[k][u]]
  BY <1>1 DEF HistMap, Without, Restrict
<1>3. ASSUME NEW k \in Keys, top \in DOMAIN versioned[k]
      PROVE  versioned[k][top].prev = History!NewestOf(DOMAIN versioned[k] \ {top})
  <2>1. KeyInv(k)
    BY DEF StoreInv
  <2>2. versioned[k][top] = HistoryVersion(k, top)
    BY <1>3, <2>1 DEF KeyInv
  <2>3. {u \in DOMAIN written[k] : u < top} = DOMAIN versioned[k] \ {top}
    BY <2>1, <1>1 DEF KeyInv
  <2>4. Newest({u \in DOMAIN written[k] : u < top}) = Newest(DOMAIN versioned[k] \ {top})
    BY <2>3, Zenon
  <2>5. versioned[k][top].prev = Newest(DOMAIN versioned[k] \ {top})
    BY <2>2, <2>4 DEF HistoryVersion
  <2>. QED
    BY <2>5 DEF Newest, History!NewestOf
<1>4. HistMap' = History!Drop(HistMap, top)
  <2>1. HistMap' = [k \in Keys |-> HistMap'[k]]
    BY DEF HistMap
  <2>. QED
    BY <2>1, <1>2 DEF History!Drop
<1>5. balances' = History!Moved(HistMap, balances, top)
  <2>1. \A k \in Keys : DOMAIN HistMap[k] = DOMAIN versioned[k]
    BY DEF HistMap
  <2>. QED
    BY <1>1, <1>3, <2>1 DEF History!Moved
<1>. QED
  BY <1>1, <1>4, <1>5

LEMMA NextRefines == StoreInv /\ [NextRewind]_vars => [History!Next]_History!vars
<1> SUFFICES ASSUME StoreInv, [NextRewind]_vars PROVE [History!Next]_History!vars
  OBVIOUS
<1>1. CASE \E change \in [Keys -> BalanceTypes \cup {None}] : ApplyBlock(change)
  <2>1. PICK change \in [Keys -> BalanceTypes \cup {None}] : ApplyBlock(change)
    BY <1>1
  <2>2. History!Apply(change)
    BY <2>1, ApplyBlockRefines
  <2>3. change \in [Keys -> History!BalanceTypes \cup {None}]
    BY DEF BalanceTypes, History!BalanceTypes
  <2>. QED
    BY <2>2, <2>3 DEF History!Next
<1>2. CASE RewindTop
  BY <1>2, RewindTopRefines DEF History!Next
<1>3. CASE UNCHANGED vars
  BY <1>3 DEF vars, History!vars
<1>. QED
  BY <1>1, <1>2, <1>3 DEF NextRewind

(***************************************************************************)
(* The two sled trees, with block applications and rewinds of the tip by  *)
(* delete_versioned_balances_at_topoheight, implement the abstract store  *)
(* BalanceHistory under the mapping that reads each key's history off    *)
(* versioned_balances and its last topoheight off balances.               *)
(***************************************************************************)
THEOREM RefinesBalanceHistory == SpecRewind => ImplementsHistory
<1>1. SpecRewind => []StoreInv
  BY InitStoreInv, NextRewindStoreInv, PTL DEF SpecRewind
<1>. QED
  BY <1>1, InitRefines, NextRefines, PTL DEF SpecRewind, ImplementsHistory, History!Spec
=============================================================================
