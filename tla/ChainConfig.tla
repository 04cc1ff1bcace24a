----------------------------- MODULE ChainConfig -----------------------------
(***************************************************************************)
(* The consensus tables of the daemon's configuration (dapa_daemon/src/   *)
(* config.rs): the hard forks of each network, the dev fee thresholds and *)
(* the difficulties a network starts from and resets to at a hard fork,    *)
(* read as the chain grows.                                               *)
(*                                                                         *)
(* A hard fork's version requirement ">=1.M.0" is the number M (0 for      *)
(* None); a block version Vk is k.  The lookups over the tables (the       *)
(* version at a height, the dev fee at a height) live outside these       *)
(* sources and take, as the tables are laid out, the last entry whose      *)
(* height is at most the block's.  The chain, grown or rewound, is        *)
(* followed at the heights where something changes and around them.       *)
(***************************************************************************)
EXTENDS Naturals, Sequences

CONSTANTS
    Networks,       \* Mainnet, Testnet, Dev (model values)
    Mainnet,
    LowHeights      \* every height up to this one is visited

ASSUME ChainConfigAssumption ==
    /\ Mainnet \in Networks
    /\ LowHeights \in Nat

\* Difficulties are counted in units of BLOCK_TIME_MILLIS (15 * 1000):
\* every one the configuration defines is a multiple of it, and mainnet's
\* reset of 3 * 10^10 does not fit TLC's integers.
MAINNET_MINIMUM_DIFFICULTY == 20
OTHER_MINIMUM_DIFFICULTY == 2

DEV_FEES == << [height |-> 0, fee_percentage |-> 25],
               [height |-> 14545, fee_percentage |-> 3] >>

\* Mutant: the versions of the two last mainnet forks swapped.
HARD_FORKS_SWAPPED ==
    << [height |-> 0, version |-> 0, requirement |-> 0],
       [height |-> 434100, version |-> 2, requirement |-> 13],
       [height |-> 1376000, version |-> 1, requirement |-> 16] >>

HARD_FORKS ==
    << [height |-> 0, version |-> 0, requirement |-> 0],
       [height |-> 434100, version |-> 1, requirement |-> 13],
       [height |-> 1376000, version |-> 2, requirement |-> 16] >>

TESTNET_HARD_FORKS ==
    << [height |-> 0, version |-> 0, requirement |-> 0],
       [height |-> 5, version |-> 1, requirement |-> 13],
       [height |-> 10, version |-> 2, requirement |-> 16],
       [height |-> 15, version |-> 3, requirement |-> 16] >>

\* get_hard_forks
GetHardForks(n) == IF n = Mainnet THEN HARD_FORKS ELSE TESTNET_HARD_FORKS

\* get_minimum_difficulty
GetMinimumDifficulty(n) ==
    IF n = Mainnet THEN MAINNET_MINIMUM_DIFFICULTY ELSE OTHER_MINIMUM_DIFFICULTY

\* Mutant: every network resets to the other networks' minimum.
GetDifficultyAtHardForkFlat(n, v) == OTHER_MINIMUM_DIFFICULTY

\* get_difficulty_at_hard_fork
GetDifficultyAtHardFork(n, v) ==
    IF n = Mainnet
        THEN IF v \in {0, 1} THEN MAINNET_MINIMUM_DIFFICULTY
                             ELSE MAINNET_MINIMUM_DIFFICULTY * 100000
        ELSE OTHER_MINIMUM_DIFFICULTY

\* The entry of a table in force at height h: the last one at or below it.
EntryAt(table, h) ==
    table[CHOOSE i \in 1 .. Len(table) :
              /\ table[i].height <= h
              /\ \A k \in 1 .. Len(table) : table[k].height <= h => k <= i]

VersionAt(n, h) == EntryAt(GetHardForks(n), h).version
RequirementAt(n, h) == EntryAt(GetHardForks(n), h).requirement
DevFeeAt(h) == EntryAt(DEV_FEES, h).fee_percentage

\* The heights visited: the low ones and those around a table entry.
Heights(n) ==
    (0 .. LowHeights) \cup
    {e.height + d : e \in {GetHardForks(n)[i] : i \in 1 .. Len(GetHardForks(n))}
                          \cup {DEV_FEES[i] : i \in 1 .. Len(DEV_FEES)},
                    d \in {0, 1}}
    \cup {e.height - 1 : e \in {GetHardForks(n)[i] : i \in 2 .. Len(GetHardForks(n))}}

VARIABLES
    network,    \* the network the node runs on
    height,     \* height of the chain's last block
    difficulty  \* the difficulty the chain was reset to at its last hard fork

vars == <<network, height, difficulty>>

Init ==
    /\ network \in Networks
    /\ height = 0
    /\ difficulty = GetDifficultyAtHardFork(network, VersionAt(network, 0))

\* The chain's tip moves to height h; crossing a hard fork resets the
\* difficulty to the one configured for the version in force at h.
MoveTo(h) ==
    /\ height' = h
    /\ difficulty' = IF VersionAt(network, h) # VersionAt(network, height)
                        THEN GetDifficultyAtHardFork(network, VersionAt(network, h))
                        ELSE difficulty
    /\ UNCHANGED network

\* The chain grows to a later height.
Grow(h) == h > height /\ MoveTo(h)

\* The node pops blocks down to a lower height (a rewind of its tip).
PopBlocks(h) == h < height /\ MoveTo(h)

Next == \E h \in Heights(network) : Grow(h) \/ PopBlocks(h)

Spec == Init /\ [][Next]_vars

-----------------------------------------------------------------------------
(* Properties *)

(***************************************************************************)
(* The schedule only moves forward: as the chain grows, on any network,   *)
(* the block version and the version a node needs never go down, and the  *)
(* dev fee never goes up (so a node able to follow the tip can validate   *)
(* every block below it).                                                  *)
(***************************************************************************)
ScheduleMonotone ==
    [][height' > height =>
         /\ VersionAt(network, height') >= VersionAt(network, height)
         /\ RequirementAt(network, height') >= RequirementAt(network, height)
         /\ DevFeeAt(height') <= DevFeeAt(height)]_vars

(***************************************************************************)
(* The difficulty a hard fork resets the chain to is never below the      *)
(* network's minimum difficulty (get_difficulty_at_hard_fork against      *)
(* get_minimum_difficulty).                                                *)
(***************************************************************************)
DifficultyAboveMinimum == difficulty >= GetMinimumDifficulty(network)
=============================================================================
