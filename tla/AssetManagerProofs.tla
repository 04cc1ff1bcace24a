------------------------- MODULE AssetManagerProofs -------------------------
(***************************************************************************)
(* Proof that asset_create announces each asset once over all committed   *)
(* executions (AssetCreatedOnce), for any contracts, ids, strings, gas    *)
(* limit and cost.                                                         *)
(*                                                                         *)
(* AssetCreatedOnce speaks of the committed outputs only, and is not      *)
(* inductive: the next commit appends the running execution's outputs,   *)
(* and nothing in it says those are new.  The strengthening says the      *)
(* same of the running execution: its NewAsset outputs are distinct and   *)
(* are the hashes of its own assets, and none of those is in the          *)
(* provider.  The lookup of asset_create (get_optional_asset_from_cache   *)
(* in the execution's assets, then in the provider) keeps both; the       *)
(* commit writes the assets over the provider and appends their hashes   *)
(* to outputs disjoint from them.                                          *)
(***************************************************************************)
EXTENDS AssetManager, FiniteSetTheorems, TLAPS

USE AssetAssumption

\* A sequence whose elements are pairwise distinct.
Distinct(s) == \A i, j \in 1 .. Len(s) : s[i] = s[j] => i = j

\* The hashes a sequence holds.
Elems(s) == {s[i] : i \in 1 .. Len(s)}

Hashes == Contracts \X Ids

AssetInv ==
    /\ contract \in Contracts \cup {None}
    /\ created \in Seq(Hashes) /\ outputs \in Seq(Hashes)
    /\ Distinct(created) /\ Elems(created) \subseteq DOMAIN store
    /\ Distinct(outputs) /\ Elems(outputs) \subseteq DOMAIN assets
    /\ DOMAIN assets \cap DOMAIN store = {}

\* Appending a new element keeps a sequence's elements distinct.
LEMMA AppendDistinct ==
    ASSUME NEW S, NEW s \in Seq(S), NEW x \in S, Distinct(s), x \notin Elems(s)
    PROVE  /\ Append(s, x) \in Seq(S)
           /\ Distinct(Append(s, x))
           /\ Elems(Append(s, x)) = Elems(s) \cup {x}
  BY DEF Distinct, Elems

\* Concatenating two sequences with distinct, disjoint elements keeps them
\* distinct.
LEMMA ConcatDistinct ==
    ASSUME NEW S, NEW s \in Seq(S), NEW t \in Seq(S), Distinct(s), Distinct(t),
           Elems(s) \cap Elems(t) = {}
    PROVE  /\ s \o t \in Seq(S)
           /\ Distinct(s \o t)
           /\ Elems(s \o t) = Elems(s) \cup Elems(t)
<1>1. s \o t \in Seq(S) /\ Len(s \o t) = Len(s) + Len(t)
  OBVIOUS
<1>2. \A i \in 1 .. Len(s \o t) :
          (s \o t)[i] = IF i <= Len(s) THEN s[i] ELSE t[i - Len(s)]
  OBVIOUS
<1>3. Distinct(s \o t)
  <2> SUFFICES ASSUME NEW i \in 1 .. Len(s \o t), NEW j \in 1 .. Len(s \o t),
                      (s \o t)[i] = (s \o t)[j]
               PROVE  i = j
    BY DEF Distinct
  <2>1. CASE i <= Len(s) /\ j <= Len(s)
    BY <2>1, <1>2 DEF Distinct
  <2>2. CASE i > Len(s) /\ j > Len(s)
    <3>1. i - Len(s) \in 1 .. Len(t) /\ j - Len(s) \in 1 .. Len(t)
          /\ t[i - Len(s)] = t[j - Len(s)]
      BY <2>2, <1>1, <1>2
    <3>. QED
      BY <3>1 DEF Distinct
  <2>3. CASE i <= Len(s) /\ j > Len(s)
    <3>1. s[i] \in Elems(s) /\ t[j - Len(s)] \in Elems(t) /\ s[i] = t[j - Len(s)]
      BY <2>3, <1>1, <1>2 DEF Elems
    <3>. QED
      BY <3>1
  <2>4. CASE i > Len(s) /\ j <= Len(s)
    <3>1. s[j] \in Elems(s) /\ t[i - Len(s)] \in Elems(t) /\ s[j] = t[i - Len(s)]
      BY <2>4, <1>1, <1>2 DEF Elems
    <3>. QED
      BY <3>1
  <2>. QED
    BY <2>1, <2>2, <2>3, <2>4
<1>4. Elems(s \o t) = Elems(s) \cup Elems(t)
  <2>1. Elems(s \o t) \subseteq Elems(s) \cup Elems(t)
    BY <1>1, <1>2 DEF Elems
  <2>2. Elems(s) \subseteq Elems(s \o t)
    BY <1>1, <1>2 DEF Elems
  <2>3. ASSUME NEW j \in 1 .. Len(t) PROVE t[j] \in Elems(s \o t)
    <3>1. Len(s) + j \in 1 .. Len(s \o t) /\ (s \o t)[Len(s) + j] = t[j]
      BY <1>1, <1>2
    <3>. QED
      BY <3>1 DEF Elems
  <2>. QED
    BY <2>1, <2>2, <2>3 DEF Elems
<1>. QED
  BY <1>1, <1>3, <1>4

LEMMA InitAssetInv == Init => AssetInv
  BY DEF Init, AssetInv, Distinct, Elems, None

(***************************************************************************)
(* asset_create: a rejected call or a found asset changes none of it; a   *)
(* new asset's hash is in neither map (the lookup), so the output pushed  *)
(* is new and the asset inserted keeps the maps disjoint, whether or not  *)
(* the gas charged after it fails.                                         *)
(***************************************************************************)
LEMMA AssetCreateAssetInv ==
    ASSUME AssetInv, NEW id \in Ids, NEW tk, NEW nm, NEW sp, AssetCreate(id, tk, nm, sp)
    PROVE  AssetInv'
<1> DEFINE h == AssetHash(contract, id)
<1>1. contract \in Contracts
  BY DEF AssetCreate, Running, AssetInv
<1>2. h \in Hashes
  BY <1>1 DEF AssetHash, Hashes
<1>3. CASE UNCHANGED <<store, contract, assets, outputs, created>>
  BY <1>3 DEF AssetInv, Distinct, Elems
<1>4. CASE /\ ~Visible(h)
           /\ assets' = Put(assets, h, [name |-> nm, ticker |-> tk, supply |-> sp,
                                        owner |-> <<contract, id>>])
           /\ outputs' = Append(outputs, h)
           /\ UNCHANGED <<store, contract, created>>
  <2>1. h \notin DOMAIN assets /\ h \notin DOMAIN store
    BY <1>4 DEF Visible
  <2>2. DOMAIN assets' = DOMAIN assets \cup {h}
    BY <1>4 DEF Put
  <2>3. /\ outputs' \in Seq(Hashes)
        /\ Distinct(outputs')
        /\ Elems(outputs') = Elems(outputs) \cup {h}
    <3>1. h \notin Elems(outputs)
      BY <2>1 DEF AssetInv
    <3>. QED
      BY <1>2, <1>4, <3>1, AppendDistinct DEF AssetInv
  <2>. QED
    BY <1>4, <2>1, <2>2, <2>3 DEF AssetInv
<1>. QED
  BY <1>3, <1>4 DEF AssetCreate

(***************************************************************************)
(* The end of an execution: after an error its changes are dropped; else  *)
(* its assets are written over the provider and its outputs, new and      *)
(* distinct, appended to the committed ones.                               *)
(***************************************************************************)
LEMMA EndExecutionAssetInv ==
    ASSUME AssetInv, EndExecution
    PROVE  AssetInv'
<1>1. /\ contract' = None /\ assets' = <<>> /\ outputs' = <<>>
  BY DEF EndExecution
<1>2. /\ DOMAIN assets' = {}
      /\ outputs' \in Seq(Hashes) /\ Distinct(outputs') /\ Elems(outputs') = {}
  BY <1>1 DEF Distinct, Elems
<1>3. CASE failed
  <2>1. UNCHANGED <<store, created>>
    BY <1>3 DEF EndExecution
  <2>. QED
    BY <1>1, <1>2, <2>1 DEF AssetInv
<1>4. CASE ~failed
  <2>1. /\ store' = Overlay(assets, store)
        /\ created' = created \o outputs
    BY <1>4 DEF EndExecution
  <2>2. DOMAIN store' = DOMAIN assets \cup DOMAIN store
    BY <2>1 DEF Overlay
  <2>3. Elems(created) \cap Elems(outputs) = {}
    BY DEF AssetInv
  <2>4. /\ created' \in Seq(Hashes)
        /\ Distinct(created')
        /\ Elems(created') = Elems(created) \cup Elems(outputs)
    BY <2>1, <2>3, ConcatDistinct DEF AssetInv
  <2>. QED
    BY <1>1, <1>2, <2>2, <2>4 DEF AssetInv
<1>. QED
  BY <1>3, <1>4

LEMMA NextAssetInv == AssetInv /\ [Next]_vars => AssetInv'
<1> SUFFICES ASSUME AssetInv, [Next]_vars PROVE AssetInv'
  OBVIOUS
<1>1. ASSUME NEW c \in Contracts, BeginExecution(c) PROVE AssetInv'
  BY <1>1 DEF BeginExecution, AssetInv, Distinct, Elems
<1>2. ASSUME NEW id \in Ids, NEW tk \in Tickers, NEW nm \in Names, NEW sp \in Supplies,
             AssetCreate(id, tk, nm, sp)
      PROVE  AssetInv'
  BY <1>2, AssetCreateAssetInv
<1>3. ASSUME NEW id \in Ids, AssetGetById(id) PROVE AssetInv'
  BY <1>3 DEF AssetGetById, AssetInv, Distinct, Elems
<1>4. ASSUME NEW c \in Contracts, NEW id \in Ids, AssetGetByHash(AssetHash(c, id))
      PROVE  AssetInv'
  BY <1>4 DEF AssetGetByHash, AssetInv, Distinct, Elems
<1>5. CASE EndExecution
  BY <1>5, EndExecutionAssetInv
<1>6. CASE UNCHANGED vars
  BY <1>6 DEF vars, AssetInv, Distinct, Elems
<1>. QED
  BY <1>1, <1>2, <1>3, <1>4, <1>5, <1>6 DEF Next

(***************************************************************************)
(* asset_create announces an asset once: over every committed execution,  *)
(* of any contract, no hash is in two NewAsset outputs, and every one      *)
(* announced is in the provider.                                           *)
(***************************************************************************)
THEOREM AssetCreatedOnceInvariant == Spec => []AssetCreatedOnce
<1>1. AssetInv => AssetCreatedOnce
  BY DEF AssetInv, AssetCreatedOnce, Distinct, Elems
<1>. QED
  BY <1>1, InitAssetInv, NextAssetInv, PTL DEF Spec
-----------------------------------------------------------------------------
(* The metadata of committed assets *)

\* The entry h of the map m has the metadata the VM promises.
WellFormedAt(m, h) ==
    LET d == m[h]
    IN /\ d.ticker \in Seq({"A", "0"}) /\ Len(d.ticker) <= TICKER_LEN
       /\ d.name \in Seq({"A", "a", "0", " "}) /\ Len(d.name) <= NameMaxLen
       /\ d.name # <<>> => d.name[1] # " " /\ d.name[Len(d.name)] # " "
       /\ d.owner = h

\* Every asset of the execution and of the provider is well formed.
MetadataInv ==
    /\ \A h \in DOMAIN assets : WellFormedAt(assets, h)
    /\ \A h \in DOMAIN store : WellFormedAt(store, h)

\* Counting the positions of a string that hold one character gives a
\* natural number.
LEMMA CountIsNat ==
    ASSUME NEW S, NEW s \in Seq(S), NEW c
    PROVE  Cardinality({i \in 1 .. Len(s) : s[i] = c}) \in Nat
<1>1. IsFiniteSet(1 .. Len(s))
  BY FS_Interval
<1>2. IsFiniteSet({i \in 1 .. Len(s) : s[i] = c})
  BY <1>1, FS_Subset
<1>. QED
  BY <1>2, FS_CardinalityType

\* A string is no longer in characters than in bytes.
LEMMA LenAtMostByteLen ==
    ASSUME NEW s \in Seq(Chars)
    PROVE  Len(s) <= ByteLen(s)
<1>1. Cardinality({i \in 1 .. Len(s) : s[i] = Wide}) \in Nat
  BY CountIsNat
<1>. QED
  BY <1>1, SMT DEF ByteLen

\* A string whose every character is in T is a string over T.
LEMMA SeqNarrow ==
    ASSUME NEW S, NEW T, NEW s \in Seq(S), \A i \in 1 .. Len(s) : s[i] \in T
    PROVE  s \in Seq(T)
<1>1. s \in [1 .. Len(s) -> T]
  OBVIOUS
<1>. QED
  BY <1>1, Len(s) \in Nat

\* Parameters that pass asset_create's checks make a well-formed asset.
LEMMA ValidParamsWellFormed ==
    ASSUME NEW tk \in Tickers, NEW nm \in Names, ValidAssetParams(tk, nm),
           NEW h, NEW sp
    PROVE  LET d == [name |-> nm, ticker |-> tk, supply |-> sp, owner |-> h]
           IN  /\ d.ticker \in Seq({"A", "0"}) /\ Len(d.ticker) <= TICKER_LEN
               /\ d.name \in Seq({"A", "a", "0", " "}) /\ Len(d.name) <= NameMaxLen
               /\ d.name # <<>> => d.name[1] # " " /\ d.name[Len(d.name)] # " "
               /\ d.owner = h
<1>1. tk \in Seq(Chars) /\ nm \in Seq(Chars)
  BY AssetAssumption
<1>2. /\ ByteLen(tk) <= TICKER_LEN /\ IsValidStrForAsset(tk, FALSE, TRUE)
      /\ ByteLen(nm) <= NameMaxLen /\ IsValidStrForAsset(nm, TRUE, FALSE)
  BY DEF ValidAssetParams
<1>3. Len(tk) <= TICKER_LEN /\ Len(nm) <= NameMaxLen
  <2>1. Len(tk) <= ByteLen(tk) /\ Len(nm) <= ByteLen(nm)
    BY <1>1, LenAtMostByteLen
  <2>2. Cardinality({i \in 1 .. Len(tk) : tk[i] = Wide}) \in Nat
    BY <1>1, CountIsNat
  <2>3. Cardinality({i \in 1 .. Len(nm) : nm[i] = Wide}) \in Nat
    BY <1>1, CountIsNat
  <2>4. ByteLen(tk) \in Int /\ ByteLen(nm) \in Int
    BY <1>1, <2>2, <2>3 DEF ByteLen
  <2>. QED
    BY <1>2, <2>1, <2>4
<1>4. tk \in Seq({"A", "0"})
  <2>1. \A i \in 1 .. Len(tk) : IsValidCharForAsset(tk[i], FALSE, TRUE)
    BY <1>2 DEF IsValidStrForAsset
  <2>2. \A i \in 1 .. Len(tk) : tk[i] \in {"A", "0"}
    BY <2>1 DEF IsValidCharForAsset
  <2>. QED
    BY <1>1, <2>2, SeqNarrow
<1>5. nm \in Seq({"A", "a", "0", " "})
  <2>1. \A i \in 1 .. Len(nm) : IsValidCharForAsset(nm[i], TRUE, FALSE)
    BY <1>2 DEF IsValidStrForAsset
  <2>2. \A i \in 1 .. Len(nm) : nm[i] \in {"A", "a", "0", " "}
    BY <2>1 DEF IsValidCharForAsset
  <2>. QED
    BY <1>1, <2>2, SeqNarrow
<1>6. nm # <<>> => nm[1] # " " /\ nm[Len(nm)] # " "
  BY <1>2 DEF IsValidStrForAsset
<1>. QED
  BY <1>3, <1>4, <1>5, <1>6

LEMMA InitMetadataInv == Init => MetadataInv
  BY DEF Init, MetadataInv

\* asset_create inserts only an asset whose parameters passed the checks,
\* owned by (contract, id), under the hash of (contract, id).
LEMMA AssetCreateMetadataInv ==
    ASSUME MetadataInv, NEW id \in Ids, NEW tk \in Tickers, NEW nm \in Names, NEW sp,
           AssetCreate(id, tk, nm, sp)
    PROVE  MetadataInv'
<1> DEFINE h == AssetHash(contract, id)
           d == [name |-> nm, ticker |-> tk, supply |-> sp, owner |-> <<contract, id>>]
<1>1. CASE UNCHANGED <<store, assets>>
  BY <1>1 DEF MetadataInv, WellFormedAt
<1>2. CASE /\ ValidAssetParams(tk, nm)
           /\ assets' = Put(assets, h, d)
           /\ UNCHANGED store
  <2>1. /\ d.ticker \in Seq({"A", "0"}) /\ Len(d.ticker) <= TICKER_LEN
        /\ d.name \in Seq({"A", "a", "0", " "}) /\ Len(d.name) <= NameMaxLen
        /\ d.name # <<>> => d.name[1] # " " /\ d.name[Len(d.name)] # " "
        /\ d.owner = h
    BY <1>2, ValidParamsWellFormed DEF AssetHash
  <2>2. /\ DOMAIN assets' = DOMAIN assets \cup {h}
        /\ assets'[h] = d
        /\ \A x \in DOMAIN assets \ {h} : assets'[x] = assets[x]
    BY <1>2 DEF Put
  <2>3. \A x \in DOMAIN assets' : WellFormedAt(assets', x)
    BY <2>1, <2>2 DEF MetadataInv, WellFormedAt
  <2>. QED
    BY <1>2, <2>3 DEF MetadataInv, WellFormedAt
<1>. QED
  BY <1>1, <1>2 DEF AssetCreate

\* The commit writes well-formed assets over a well-formed provider.
LEMMA EndExecutionMetadataInv ==
    ASSUME MetadataInv, EndExecution
    PROVE  MetadataInv'
<1>1. \A h \in DOMAIN assets' : WellFormedAt(assets', h)
  <2>1. assets' = <<>>
    BY DEF EndExecution
  <2>. QED
    BY <2>1
<1>2. CASE failed
  <2>1. store' = store
    BY <1>2 DEF EndExecution
  <2>. QED
    BY <1>1, <2>1 DEF MetadataInv, WellFormedAt
<1>3. CASE ~failed
  <2>1. store' = Overlay(assets, store)
    BY <1>3 DEF EndExecution
  <2>2. ASSUME NEW x \in DOMAIN store' PROVE WellFormedAt(store', x)
    <3>1. CASE x \in DOMAIN assets
      <4>1. store'[x] = assets[x]
        BY <2>1, <3>1 DEF Overlay
      <4>. QED
        BY <3>1, <4>1 DEF MetadataInv, WellFormedAt
    <3>2. CASE x \notin DOMAIN assets
      <4>1. x \in DOMAIN store /\ store'[x] = store[x]
        BY <2>1, <3>2 DEF Overlay
      <4>. QED
        BY <4>1 DEF MetadataInv, WellFormedAt
    <3>. QED
      BY <3>1, <3>2
  <2>. QED
    BY <1>1, <2>2 DEF MetadataInv
<1>. QED
  BY <1>2, <1>3

LEMMA NextMetadataInv == MetadataInv /\ [Next]_vars => MetadataInv'
<1> SUFFICES ASSUME MetadataInv, [Next]_vars PROVE MetadataInv'
  OBVIOUS
<1>1. ASSUME NEW c \in Contracts, BeginExecution(c) PROVE MetadataInv'
  BY <1>1 DEF BeginExecution, MetadataInv, WellFormedAt
<1>2. ASSUME NEW id \in Ids, NEW tk \in Tickers, NEW nm \in Names, NEW sp \in Supplies,
             AssetCreate(id, tk, nm, sp)
      PROVE  MetadataInv'
  BY <1>2, AssetCreateMetadataInv
<1>3. ASSUME NEW id \in Ids, AssetGetById(id) PROVE MetadataInv'
  BY <1>3 DEF AssetGetById, MetadataInv, WellFormedAt
<1>4. ASSUME NEW c \in Contracts, NEW id \in Ids, AssetGetByHash(AssetHash(c, id))
      PROVE  MetadataInv'
  BY <1>4 DEF AssetGetByHash, MetadataInv, WellFormedAt
<1>5. CASE EndExecution
  BY <1>5, EndExecutionMetadataInv
<1>6. CASE UNCHANGED vars
  BY <1>6 DEF vars, MetadataInv, WellFormedAt
<1>. QED
  BY <1>1, <1>2, <1>3, <1>4, <1>5, <1>6 DEF Next

(***************************************************************************)
(* Every asset committed by asset_create has the metadata the VM promises: *)
(* an upper-case ticker and a name without edge spaces, no longer in      *)
(* characters than the byte limits, and its creator and id as owner, for  *)
(* any strings and any limits.                                             *)
(***************************************************************************)
THEOREM StoredAssetsWellFormedInvariant == Spec => []StoredAssetsWellFormed
<1>1. MetadataInv => StoredAssetsWellFormed
  BY DEF MetadataInv, WellFormedAt, StoredAssetsWellFormed
<1>. QED
  BY <1>1, InitMetadataInv, NextMetadataInv, PTL DEF Spec
=============================================================================
