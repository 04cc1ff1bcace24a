---------------------------- MODULE AssetManager ----------------------------
(***************************************************************************)
(* The asset functions a contract calls (dapa_common/src/contract/opaque/ *)
(* asset/manager.rs): asset_create, asset_get_by_id, asset_get_by_hash.    *)
(*                                                                         *)
(* A contract runs in an execution whose ChainState collects the assets   *)
(* it creates (chain_state.assets), the balances it mints                 *)
(* (chain_state.cache.balances) and its outputs; the execution's end,     *)
(* outside these sources, commits them to the provider or, after an error *)
(* (such as running out of gas), drops them.  An asset's hash is the      *)
(* blake3 hash of (contract, id), modelled as the pair itself (no         *)
(* collision).  Strings are sequences of characters of a small alphabet   *)
(* with their UTF-8 widths; decimals are left out.                        *)
(***************************************************************************)
EXTENDS Naturals, Sequences, FiniteSets

CONSTANTS
    Contracts,     \* contracts that run
    Ids,           \* ids a contract gives its assets
    Tickers,       \* ticker strings passed to asset_create
    Names,         \* name strings passed to asset_create
    Supplies,      \* max supplies passed (a number or NoSupply)
    NoSupply,      \* max_supply = None
    TICKER_LEN,    \* longest ticker in bytes (8 in the code)
    NameMaxLen,    \* longest name in bytes (u8::MAX in the code)
    GasLimit,      \* gas an execution may use
    COST_PER_TOKEN \* gas of one asset creation

\* A character that UTF-8 encodes in two bytes.
Wide == "é"

\* The alphabet: an upper and a lower ASCII letter, a digit, a space and a
\* two-byte character.
Chars == {"A", "a", "0", " ", Wide}

ASSUME AssetAssumption ==
    /\ Tickers \subseteq Seq(Chars) /\ Names \subseteq Seq(Chars)
    /\ TICKER_LEN \in Nat /\ NameMaxLen \in Nat
    /\ GasLimit \in Nat /\ COST_PER_TOKEN \in Nat

None == "none"
Null == "null"

\* String::len, in bytes: one per ASCII character, two per Wide one.
ByteLen(s) == Len(s) + Cardinality({i \in 1 .. Len(s) : s[i] = Wide})

AssetHash(c, id) == <<c, id>>

\* A map with the entry x set to v (HashMap::insert).
Put(f, x, v) == [y \in DOMAIN f \cup {x} |-> IF y = x THEN v ELSE f[y]]

\* The map f written over the map g (the commit of an execution's changes).
Overlay(f, g) == [y \in DOMAIN f \cup DOMAIN g |-> IF y \in DOMAIN f THEN f[y] ELSE g[y]]

\* is_valid_char_for_asset
IsValidCharForAsset(ch, whitespace, uppercaseOnly) ==
    \/ ch \in {"A", "0"}
    \/ ch = "a" /\ ~uppercaseOnly
    \/ ch = " " /\ whitespace

\* is_valid_str_for_asset
IsValidStrForAsset(s, whitespace, uppercaseOnly) ==
    /\ whitespace => (s = <<>> \/ (s[1] # " " /\ s[Len(s)] # " "))
    /\ \A i \in 1 .. Len(s) : IsValidCharForAsset(s[i], whitespace, uppercaseOnly)

VARIABLES
    store,      \* the provider's assets: hash -> data
    contract,   \* the contract of the running execution, None between executions
    assets,     \* chain_state.assets: hash -> data created in this execution
    balances,   \* chain_state.cache.balances: hash -> minted supply
    outputs,    \* chain_state.outputs: the NewAsset hashes, in order
    gas,        \* gas used by the execution
    failed,     \* the execution returned an error
    ret,        \* the value the last asset call returned
    created     \* ghost: the NewAsset outputs of every committed execution

vars == <<store, contract, assets, balances, outputs, gas, failed, ret, created>>

\* get_optional_asset_from_cache(..).is_some(): the asset is in the
\* execution's assets or, failing that, in the provider.
Visible(h) == h \in DOMAIN assets \/ h \in DOMAIN store

Init ==
    /\ store = <<>>
    /\ contract = None
    /\ assets = <<>> /\ balances = <<>> /\ outputs = <<>>
    /\ gas = 0 /\ failed = FALSE
    /\ ret = Null
    /\ created = <<>>

\* A transaction invokes contract c (outside these sources).
BeginExecution(c) ==
    /\ contract = None
    /\ contract' = c
    /\ UNCHANGED <<store, assets, balances, outputs, gas, failed, ret, created>>

\* A call that returns an error: the execution stops.
Fail == failed' = TRUE

Running == contract # None /\ ~failed

\* Mutant: the ticker is checked with the name's rules (whitespace allowed,
\* lower case allowed).
ValidAssetParamsSwapped(ticker, name) ==
    /\ ByteLen(ticker) <= TICKER_LEN
    /\ IsValidStrForAsset(ticker, TRUE, FALSE)
    /\ ByteLen(name) <= NameMaxLen
    /\ IsValidStrForAsset(name, TRUE, FALSE)

\* The checks of asset_create on its parameters, in the code's order; the
\* first that fails returns an error.
ValidAssetParams(ticker, name) ==
    /\ ByteLen(ticker) <= TICKER_LEN
    /\ IsValidStrForAsset(ticker, FALSE, TRUE)
    /\ ByteLen(name) <= NameMaxLen
    /\ IsValidStrForAsset(name, TRUE, FALSE)

\* Mutant: no lookup of an existing asset before the creation.
AssetCreateUnchecked(id, ticker, name, supply) ==
    LET h == AssetHash(contract, id)
    IN /\ Running
       /\ ValidAssetParams(ticker, name)
       /\ assets' = Put(assets, h, [name |-> name, ticker |-> ticker, supply |-> supply,
                                      owner |-> <<contract, id>>])
       /\ balances' = IF supply = NoSupply THEN balances ELSE Put(balances, h, supply)
       /\ outputs' = Append(outputs, h)
       /\ IF gas + COST_PER_TOKEN > GasLimit
             THEN Fail /\ UNCHANGED <<gas, ret>>
             ELSE gas' = gas + COST_PER_TOKEN /\ ret' = h /\ UNCHANGED failed
       /\ UNCHANGED <<store, contract, created>>

(***************************************************************************)
(* asset_create(id, name, ticker, decimals, max_supply): invalid          *)
(* parameters are an error; an asset already visible under the hash of    *)
(* (contract, id) makes it return null; otherwise the asset is recorded   *)
(* as new, its max supply minted to the contract, a NewAsset output       *)
(* pushed, and only then COST_PER_TOKEN gas charged, which may fail.      *)
(***************************************************************************)
AssetCreate(id, ticker, name, supply) ==
    LET h == AssetHash(contract, id)
    IN /\ Running
       /\ \/ /\ ~ValidAssetParams(ticker, name)
             /\ Fail
             /\ UNCHANGED <<store, contract, assets, balances, outputs, gas, ret, created>>
          \/ /\ ValidAssetParams(ticker, name)
             /\ Visible(h)
             /\ ret' = Null
             /\ UNCHANGED <<store, contract, assets, balances, outputs, gas, failed, created>>
          \/ /\ ValidAssetParams(ticker, name)
             /\ ~Visible(h)
             /\ assets' = Put(assets, h, [name |-> name, ticker |-> ticker, supply |-> supply,
                                            owner |-> <<contract, id>>])
             /\ balances' = IF supply = NoSupply THEN balances ELSE Put(balances, h, supply)
             /\ outputs' = Append(outputs, h)
             /\ IF gas + COST_PER_TOKEN > GasLimit
                   THEN Fail /\ UNCHANGED <<gas, ret>>
                   ELSE gas' = gas + COST_PER_TOKEN /\ ret' = h /\ UNCHANGED failed
             /\ UNCHANGED <<store, contract, created>>

\* asset_get_by_id: the asset of (contract, id) if visible, null otherwise.
AssetGetById(id) ==
    LET h == AssetHash(contract, id)
    IN /\ Running
       /\ ret' = IF ~Visible(h) THEN Null ELSE h
       /\ UNCHANGED <<store, contract, assets, balances, outputs, gas, failed, created>>

\* asset_get_by_hash: the asset of the hash if visible, null otherwise.
AssetGetByHash(h) ==
    /\ Running
    /\ ret' = IF ~Visible(h) THEN Null ELSE h
    /\ UNCHANGED <<store, contract, assets, balances, outputs, gas, failed, created>>

\* The execution ends (outside these sources): its changes are committed,
\* or dropped after an error.
EndExecution ==
    /\ contract # None
    /\ IF failed THEN UNCHANGED <<store, created>>
                 ELSE /\ store' = Overlay(assets, store)
                      /\ created' = created \o outputs
    /\ contract' = None
    /\ assets' = <<>> /\ balances' = <<>> /\ outputs' = <<>>
    /\ gas' = 0 /\ failed' = FALSE /\ ret' = Null

Next ==
    \/ \E c \in Contracts : BeginExecution(c)
    \/ \E id \in Ids, t \in Tickers, n \in Names, s \in Supplies : AssetCreate(id, t, n, s)
    \/ \E id \in Ids : AssetGetById(id)
    \/ \E c \in Contracts, id \in Ids : AssetGetByHash(AssetHash(c, id))
    \/ EndExecution

Spec == Init /\ [][Next]_vars

-----------------------------------------------------------------------------
(* Properties *)

(***************************************************************************)
(* An asset is created once: over every committed execution, of any       *)
(* contract, no hash is announced by two NewAsset outputs, and each one   *)
(* announced is in the provider.  Two creations of one id in the same    *)
(* execution are caught by the lookup of the execution's own assets, two  *)
(* in different executions by the lookup of the provider (manager.rs:91). *)
(***************************************************************************)
AssetCreatedOnce ==
    /\ \A i, j \in 1 .. Len(created) : created[i] = created[j] => i = j
    /\ \A i \in 1 .. Len(created) : created[i] \in DOMAIN store

(***************************************************************************)
(* Every committed asset has the metadata the VM promises: a ticker of at *)
(* most TICKER_LEN upper-case ASCII letters and digits, a name of at most *)
(* NameMaxLen ASCII letters, digits and inner spaces, and its creator and *)
(* id as owner.                                                            *)
(***************************************************************************)
StoredAssetsWellFormed ==
    \A h \in DOMAIN store :
        LET d == store[h]
        IN /\ d.ticker \in Seq({"A", "0"}) /\ Len(d.ticker) <= TICKER_LEN
           /\ d.name \in Seq({"A", "a", "0", " "}) /\ Len(d.name) <= NameMaxLen
           /\ d.name # <<>> => d.name[1] # " " /\ d.name[Len(d.name)] # " "
           /\ d.owner = h
=============================================================================
