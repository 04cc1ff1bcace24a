------------------------- MODULE ChainConfigProofs -------------------------
(***************************************************************************)
(* Proofs about the daemon's hard fork and dev fee tables, for every set  *)
(* of networks and every height a chain reaches.                           *)
(*                                                                         *)
(* The lookup of a table at a height takes the last entry at or below it.  *)
(* EntryAtIs says that an entry which is at or below the height, and      *)
(* after which no entry is, is the one found; with it each table's lookup *)
(* has a closed form by height ranges, from which the monotonicity of the *)
(* schedule follows by arithmetic.  The difficulty a hard fork resets to  *)
(* is at least the minimum on every network, whatever the version.        *)
(***************************************************************************)
EXTENDS ChainConfig, TLAPS

USE ChainConfigAssumption

\* The type of the state: a network, a height and a difficulty.
TypeOK ==
    /\ network \in Networks
    /\ height \in Nat
    /\ difficulty \in Nat

ChainInv == TypeOK /\ DifficultyAboveMinimum

\* The entry found by a lookup is the last one at or below the height.
LEMMA EntryAtIs ==
    ASSUME NEW table, NEW h, Len(table) \in Nat,
           NEW i \in 1 .. Len(table), table[i].height <= h,
           \A k \in 1 .. Len(table) : table[k].height <= h => k <= i
    PROVE  EntryAt(table, h) = table[i]
<1>1. \A j \in 1 .. Len(table) :
          (table[j].height <= h /\ \A k \in 1 .. Len(table) : table[k].height <= h => k <= j)
              => j = i
  OBVIOUS
<1>. QED
  BY <1>1 DEF EntryAt

\* Mainnet's hard forks by height.
LEMMA MainnetForkAt ==
    ASSUME NEW h \in Nat
    PROVE  EntryAt(HARD_FORKS, h) =
               IF h >= 1376000 THEN HARD_FORKS[3]
               ELSE IF h >= 434100 THEN HARD_FORKS[2] ELSE HARD_FORKS[1]
<1>1. /\ Len(HARD_FORKS) = 3
      /\ HARD_FORKS[1].height = 0
      /\ HARD_FORKS[2].height = 434100
      /\ HARD_FORKS[3].height = 1376000
  BY DEF HARD_FORKS
<1>2. CASE h >= 1376000
  <2>1. /\ Len(HARD_FORKS) \in Nat /\ 3 \in 1 .. Len(HARD_FORKS) /\ HARD_FORKS[3].height <= h
        /\ \A k \in 1 .. Len(HARD_FORKS) : HARD_FORKS[k].height <= h => k <= 3
    BY <1>1, <1>2
  <2>. QED
    BY <2>1, <1>2, EntryAtIs
<1>3. CASE h >= 434100 /\ h < 1376000
  <2>1. /\ Len(HARD_FORKS) \in Nat /\ 2 \in 1 .. Len(HARD_FORKS) /\ HARD_FORKS[2].height <= h
        /\ \A k \in 1 .. Len(HARD_FORKS) : HARD_FORKS[k].height <= h => k <= 2
    BY <1>1, <1>3
  <2>. QED
    BY <2>1, <1>3, EntryAtIs
<1>4. CASE h < 434100
  <2>1. /\ Len(HARD_FORKS) \in Nat /\ 1 \in 1 .. Len(HARD_FORKS) /\ HARD_FORKS[1].height <= h
        /\ \A k \in 1 .. Len(HARD_FORKS) : HARD_FORKS[k].height <= h => k <= 1
    BY <1>1, <1>4
  <2>. QED
    BY <2>1, <1>4, EntryAtIs
<1>. QED
  BY <1>2, <1>3, <1>4

\* The testnet and dev hard forks by height.
LEMMA TestnetForkAt ==
    ASSUME NEW h \in Nat
    PROVE  EntryAt(TESTNET_HARD_FORKS, h) =
               IF h >= 15 THEN TESTNET_HARD_FORKS[4]
               ELSE IF h >= 10 THEN TESTNET_HARD_FORKS[3]
               ELSE IF h >= 5 THEN TESTNET_HARD_FORKS[2] ELSE TESTNET_HARD_FORKS[1]
<1>1. /\ Len(TESTNET_HARD_FORKS) = 4
      /\ TESTNET_HARD_FORKS[1].height = 0
      /\ TESTNET_HARD_FORKS[2].height = 5
      /\ TESTNET_HARD_FORKS[3].height = 10
      /\ TESTNET_HARD_FORKS[4].height = 15
  BY DEF TESTNET_HARD_FORKS
<1>2. CASE h >= 15
  <2>1. /\ Len(TESTNET_HARD_FORKS) \in Nat /\ 4 \in 1 .. Len(TESTNET_HARD_FORKS) /\ TESTNET_HARD_FORKS[4].height <= h
        /\ \A k \in 1 .. Len(TESTNET_HARD_FORKS) : TESTNET_HARD_FORKS[k].height <= h => k <= 4
    BY <1>1, <1>2
  <2>. QED
    BY <2>1, <1>2, EntryAtIs
<1>3. CASE h >= 10 /\ h < 15
  <2>1. /\ Len(TESTNET_HARD_FORKS) \in Nat /\ 3 \in 1 .. Len(TESTNET_HARD_FORKS) /\ TESTNET_HARD_FORKS[3].height <= h
        /\ \A k \in 1 .. Len(TESTNET_HARD_FORKS) : TESTNET_HARD_FORKS[k].height <= h => k <= 3
    BY <1>1, <1>3
  <2>. QED
    BY <2>1, <1>3, EntryAtIs
<1>4. CASE h >= 5 /\ h < 10
  <2>1. /\ Len(TESTNET_HARD_FORKS) \in Nat /\ 2 \in 1 .. Len(TESTNET_HARD_FORKS) /\ TESTNET_HARD_FORKS[2].height <= h
        /\ \A k \in 1 .. Len(TESTNET_HARD_FORKS) : TESTNET_HARD_FORKS[k].height <= h => k <= 2
    BY <1>1, <1>4
  <2>. QED
    BY <2>1, <1>4, EntryAtIs
<1>5. CASE h < 5
  <2>1. /\ Len(TESTNET_HARD_FORKS) \in Nat /\ 1 \in 1 .. Len(TESTNET_HARD_FORKS) /\ TESTNET_HARD_FORKS[1].height <= h
        /\ \A k \in 1 .. Len(TESTNET_HARD_FORKS) : TESTNET_HARD_FORKS[k].height <= h => k <= 1
    BY <1>1, <1>5
  <2>. QED
    BY <2>1, <1>5, EntryAtIs
<1>. QED
  BY <1>2, <1>3, <1>4, <1>5

\* The dev fee by height.
LEMMA DevFeeAtIs ==
    ASSUME NEW h \in Nat
    PROVE  DevFeeAt(h) = IF h >= 14545 THEN 3 ELSE 25
<1>1. /\ Len(DEV_FEES) = 2
      /\ DEV_FEES[1].height = 0 /\ DEV_FEES[1].fee_percentage = 25
      /\ DEV_FEES[2].height = 14545 /\ DEV_FEES[2].fee_percentage = 3
  BY DEF DEV_FEES
<1>2. CASE h >= 14545
  <2>1. /\ Len(DEV_FEES) \in Nat /\ 2 \in 1 .. Len(DEV_FEES) /\ DEV_FEES[2].height <= h
        /\ \A k \in 1 .. Len(DEV_FEES) : DEV_FEES[k].height <= h => k <= 2
    BY <1>1, <1>2
  <2>2. EntryAt(DEV_FEES, h) = DEV_FEES[2]
    BY <2>1, <1>2, EntryAtIs
  <2>. QED
    BY <2>2, <1>1, <1>2 DEF DevFeeAt
<1>3. CASE h < 14545
  <2>1. /\ Len(DEV_FEES) \in Nat /\ 1 \in 1 .. Len(DEV_FEES) /\ DEV_FEES[1].height <= h
        /\ \A k \in 1 .. Len(DEV_FEES) : DEV_FEES[k].height <= h => k <= 1
    BY <1>1, <1>3
  <2>2. EntryAt(DEV_FEES, h) = DEV_FEES[1]
    BY <2>1, <1>3, EntryAtIs
  <2>. QED
    BY <2>2, <1>1, <1>3 DEF DevFeeAt
<1>. QED
  BY <1>2, <1>3

\* The version and its requirement at a height, on either kind of network.
LEMMA ScheduleAt ==
    ASSUME NEW n, NEW h \in Nat
    PROVE  /\ n = Mainnet =>
                 /\ VersionAt(n, h) = IF h >= 1376000 THEN 2 ELSE IF h >= 434100 THEN 1 ELSE 0
                 /\ RequirementAt(n, h) = IF h >= 1376000 THEN 16 ELSE IF h >= 434100 THEN 13 ELSE 0
           /\ n # Mainnet =>
                 /\ VersionAt(n, h) = IF h >= 15 THEN 3 ELSE IF h >= 10 THEN 2
                                      ELSE IF h >= 5 THEN 1 ELSE 0
                 /\ RequirementAt(n, h) = IF h >= 10 THEN 16 ELSE IF h >= 5 THEN 13 ELSE 0
<1>0. /\ HARD_FORKS[1].version = 0 /\ HARD_FORKS[1].requirement = 0
      /\ HARD_FORKS[2].version = 1 /\ HARD_FORKS[2].requirement = 13
      /\ HARD_FORKS[3].version = 2 /\ HARD_FORKS[3].requirement = 16
      /\ TESTNET_HARD_FORKS[1].version = 0 /\ TESTNET_HARD_FORKS[1].requirement = 0
      /\ TESTNET_HARD_FORKS[2].version = 1 /\ TESTNET_HARD_FORKS[2].requirement = 13
      /\ TESTNET_HARD_FORKS[3].version = 2 /\ TESTNET_HARD_FORKS[3].requirement = 16
      /\ TESTNET_HARD_FORKS[4].version = 3 /\ TESTNET_HARD_FORKS[4].requirement = 16
  BY DEF HARD_FORKS, TESTNET_HARD_FORKS
<1>1. n = Mainnet =>
          /\ VersionAt(n, h) = IF h >= 1376000 THEN 2 ELSE IF h >= 434100 THEN 1 ELSE 0
          /\ RequirementAt(n, h) = IF h >= 1376000 THEN 16 ELSE IF h >= 434100 THEN 13 ELSE 0
  BY <1>0, MainnetForkAt DEF VersionAt, RequirementAt, GetHardForks
<1>2. n # Mainnet =>
          /\ VersionAt(n, h) = IF h >= 15 THEN 3 ELSE IF h >= 10 THEN 2
                               ELSE IF h >= 5 THEN 1 ELSE 0
          /\ RequirementAt(n, h) = IF h >= 10 THEN 16 ELSE IF h >= 5 THEN 13 ELSE 0
  BY <1>0, TestnetForkAt DEF VersionAt, RequirementAt, GetHardForks
<1>. QED
  BY <1>1, <1>2

\* Whatever the version, a fork resets the difficulty to a natural number
\* at least the network's minimum.
LEMMA ForkDifficultyAboveMinimum ==
    ASSUME NEW n, NEW v
    PROVE  /\ GetDifficultyAtHardFork(n, v) \in Nat
           /\ GetDifficultyAtHardFork(n, v) >= GetMinimumDifficulty(n)
  BY DEF GetDifficultyAtHardFork, GetMinimumDifficulty,
         MAINNET_MINIMUM_DIFFICULTY, OTHER_MINIMUM_DIFFICULTY

\* Every height the chain moves to is a natural number.
LEMMA HeightsNat ==
    ASSUME NEW n
    PROVE  Heights(n) \subseteq Nat
<1>1. /\ Len(HARD_FORKS) = 3
      /\ HARD_FORKS[1].height = 0
      /\ HARD_FORKS[2].height = 434100
      /\ HARD_FORKS[3].height = 1376000
  BY DEF HARD_FORKS
<1>2. /\ Len(TESTNET_HARD_FORKS) = 4
      /\ TESTNET_HARD_FORKS[1].height = 0
      /\ TESTNET_HARD_FORKS[2].height = 5
      /\ TESTNET_HARD_FORKS[3].height = 10
      /\ TESTNET_HARD_FORKS[4].height = 15
  BY DEF TESTNET_HARD_FORKS
<1>3. /\ Len(DEV_FEES) = 2 /\ DEV_FEES[1].height = 0 /\ DEV_FEES[2].height = 14545
  BY DEF DEV_FEES
<1>4. /\ \A i \in 1 .. Len(GetHardForks(n)) : GetHardForks(n)[i].height \in Nat
      /\ \A i \in 2 .. Len(GetHardForks(n)) : GetHardForks(n)[i].height - 1 \in Nat
  <2>1. CASE n = Mainnet
    <3>1. GetHardForks(n) = HARD_FORKS
      BY <2>1 DEF GetHardForks
    <3>2. /\ \A i \in 1 .. 3 : HARD_FORKS[i].height \in Nat
          /\ \A i \in 2 .. 3 : HARD_FORKS[i].height - 1 \in Nat
      BY <1>1
    <3>. QED
      BY <3>1, <3>2, <1>1
  <2>2. CASE n # Mainnet
    <3>1. GetHardForks(n) = TESTNET_HARD_FORKS
      BY <2>2 DEF GetHardForks
    <3>2. /\ \A i \in 1 .. 4 : TESTNET_HARD_FORKS[i].height \in Nat
          /\ \A i \in 2 .. 4 : TESTNET_HARD_FORKS[i].height - 1 \in Nat
      BY <1>2
    <3>. QED
      BY <3>1, <3>2, <1>2
  <2>. QED
    BY <2>1, <2>2
<1>. QED
  BY <1>3, <1>4 DEF Heights

LEMMA InitChainInv == Init => ChainInv
  BY ForkDifficultyAboveMinimum DEF Init, ChainInv, TypeOK, DifficultyAboveMinimum

LEMMA NextChainInv == ChainInv /\ [Next]_vars => ChainInv'
<1> SUFFICES ASSUME ChainInv, [Next]_vars PROVE ChainInv'
  OBVIOUS
<1>1. ASSUME NEW h \in Heights(network), MoveTo(h) PROVE ChainInv'
  <2>1. h \in Nat
    BY HeightsNat
  <2>2. /\ GetDifficultyAtHardFork(network, VersionAt(network, h)) \in Nat
        /\ GetDifficultyAtHardFork(network, VersionAt(network, h)) >= GetMinimumDifficulty(network)
    BY ForkDifficultyAboveMinimum
  <2>. QED
    BY <1>1, <2>1, <2>2 DEF MoveTo, ChainInv, TypeOK, DifficultyAboveMinimum
<1>2. CASE UNCHANGED vars
  BY <1>2 DEF vars, ChainInv, TypeOK, DifficultyAboveMinimum
<1>. QED
  BY <1>1, <1>2 DEF Next, Grow, PopBlocks

(***************************************************************************)
(* A hard fork never resets the difficulty below the network's minimum    *)
(* (get_difficulty_at_hard_fork against get_minimum_difficulty), on any   *)
(* network and at any height.                                              *)
(***************************************************************************)
THEOREM DifficultyAboveMinimumInvariant == Spec => []DifficultyAboveMinimum
<1>1. ChainInv => DifficultyAboveMinimum
  BY DEF ChainInv
<1>. QED
  BY <1>1, InitChainInv, NextChainInv, PTL DEF Spec

LEMMA TypeCorrect == Spec => []TypeOK
<1>1. ChainInv => TypeOK
  BY DEF ChainInv
<1>. QED
  BY <1>1, InitChainInv, NextChainInv, PTL DEF Spec

\* A step of the chain that raises the height keeps the schedule's order.
LEMMA ScheduleStep ==
    ASSUME TypeOK, [Next]_vars
    PROVE  height' > height =>
               /\ VersionAt(network, height') >= VersionAt(network, height)
               /\ RequirementAt(network, height') >= RequirementAt(network, height)
               /\ DevFeeAt(height') <= DevFeeAt(height)
<1>1. CASE UNCHANGED vars
  <2>1. height' = height /\ height \in Nat
    BY <1>1 DEF vars, TypeOK
  <2>2. ~(height' > height)
    BY <2>1
  <2>. QED
    BY <2>2
<1>2. CASE Next
  <2>1. PICK h \in Heights(network) : MoveTo(h)
    BY <1>2 DEF Next, Grow, PopBlocks
  <2>2. /\ height' = h /\ network' = network
        /\ h \in Nat /\ height \in Nat
    BY <2>1, HeightsNat DEF MoveTo, TypeOK
  <2>3. /\ DevFeeAt(h) = IF h >= 14545 THEN 3 ELSE 25
        /\ DevFeeAt(height) = IF height >= 14545 THEN 3 ELSE 25
    BY <2>2, DevFeeAtIs
  <2>4. CASE network = Mainnet
    <3>1. /\ VersionAt(network, h) = IF h >= 1376000 THEN 2 ELSE IF h >= 434100 THEN 1 ELSE 0
          /\ RequirementAt(network, h) = IF h >= 1376000 THEN 16 ELSE IF h >= 434100 THEN 13 ELSE 0
          /\ VersionAt(network, height) = IF height >= 1376000 THEN 2 ELSE IF height >= 434100 THEN 1 ELSE 0
          /\ RequirementAt(network, height) = IF height >= 1376000 THEN 16 ELSE IF height >= 434100 THEN 13 ELSE 0
      BY <2>2, <2>4, ScheduleAt
    <3>. QED
      BY <2>2, <2>3, <3>1
  <2>5. CASE network # Mainnet
    <3>1. /\ VersionAt(network, h) = IF h >= 15 THEN 3 ELSE IF h >= 10 THEN 2
                                     ELSE IF h >= 5 THEN 1 ELSE 0
          /\ RequirementAt(network, h) = IF h >= 10 THEN 16 ELSE IF h >= 5 THEN 13 ELSE 0
          /\ VersionAt(network, height) = IF height >= 15 THEN 3 ELSE IF height >= 10 THEN 2
                                          ELSE IF height >= 5 THEN 1 ELSE 0
          /\ RequirementAt(network, height) = IF height >= 10 THEN 16 ELSE IF height >= 5 THEN 13 ELSE 0
      BY <2>2, <2>5, ScheduleAt
    <3>. QED
      BY <2>2, <2>3, <3>1
  <2>. QED
    BY <2>4, <2>5
<1>. QED
  BY <1>1, <1>2

(***************************************************************************)
(* The schedule only moves forward: on any network, a step of the chain   *)
(* to a greater height never lowers the block version or the version a    *)
(* node needs, and never raises the dev fee.                              *)
(***************************************************************************)
THEOREM ScheduleMonotoneHolds == Spec => ScheduleMonotone
<1>1. TypeOK /\ [Next]_vars =>
          [height' > height =>
               /\ VersionAt(network, height') >= VersionAt(network, height)
               /\ RequirementAt(network, height') >= RequirementAt(network, height)
               /\ DevFeeAt(height') <= DevFeeAt(height)]_vars
  BY ScheduleStep
<1>. QED
  BY <1>1, TypeCorrect, PTL DEF Spec, ScheduleMonotone
=============================================================================
