------------------------------ MODULE CoinUtils ------------------------------
(***************************************************************************)
(* The amount, fee and difficulty helpers of dapa_common/src/utils.rs and *)
(* the constants of dapa_common/src/config.rs they use.  Each helper is a *)
(* pure function; the model calls it on small inputs, one call per step,  *)
(* and keeps the last call (function, arguments, outcome) in `call`.      *)
(*                                                                         *)
(* A string is a sequence of characters of the small alphabet Chars.  A   *)
(* u64 keeps its overflow behaviour at the width Width: u64::MAX is       *)
(* 2^Width - 1.  Overflow in `a * b` or `a + b` panics in a debug build   *)
(* and wraps in a release build, so an overflowing from_coin has both     *)
(* outcomes.  The difficulty (a 256-bit VarUint) never overflows here.    *)
(***************************************************************************)
EXTENDS Naturals, Sequences, SequencesExt, FiniteSets

CONSTANTS
    Width,        \* bits of the scaled u64
    MaxLen,       \* longest input string
    MaxDecimals,  \* largest coin_decimals given to from_coin
    Sizes,        \* transaction sizes in bytes given to calculate_tx_fee
    MaxCount,     \* largest output, new-address and signature count
    MaxDifficulty \* largest difficulty given to format_difficulty

ASSUME CoinUtilsAssumption ==
    /\ Width \in Nat \ {0}
    /\ MaxLen \in Nat /\ MaxDecimals \in Nat /\ MaxCount \in Nat
    /\ Sizes \subseteq Nat /\ MaxDifficulty \in Nat

\* config.rs
FEE_PER_KB == 100
FEE_PER_ACCOUNT_CREATION == 100000
FEE_PER_TRANSFER == 1000
FEE_PER_MULTISIG_SIGNATURE == 100
BYTES_PER_KB == 1024

U64Max == 2^Width - 1
Wrap(n) == n % 2^Width

DigitValue == ("0" :> 0) @@ ("1" :> 1) @@ ("5" :> 5) @@ ("9" :> 9)
Digits == DOMAIN DigitValue
Chars == Digits \cup {".", "+", " ", "x"}

\* The number a string of digits spells, most significant first.
Num(t) ==
    LET V[i \in 0 .. Len(t)] == IF i = 0 THEN 0 ELSE V[i - 1] * 10 + DigitValue[t[i]]
    IN V[Len(t)]

IsDigits(t) == \A i \in 1 .. Len(t) : t[i] \in Digits

\* Outcomes of a call: Option<u64> and a panic.
Some(n) == [tag |-> "Some", val |-> n]
NoValue == [tag |-> "None", val |-> 0]
Panic == [tag |-> "Panic", val |-> 0]

\* str::parse::<u64>: an optional '+', then at least one digit, and a value
\* that fits; an error (NoValue) otherwise.
ParseU64(t) ==
    LET u == IF Len(t) > 0 /\ t[1] = "+" THEN Tail(t) ELSE t
    IN IF u # <<>> /\ IsDigits(u) /\ Num(u) <= U64Max THEN Some(Num(u)) ELSE NoValue

\* str::trim, on the one whitespace character of the alphabet.
Trim(s) ==
    LET I == {i \in 1 .. Len(s) : s[i] # " "}
    IN IF I = {} THEN <<>> ELSE SubSeq(s, Min(I), Max(I))

\* The first '.'-separated piece of t after position i (split('.').next()).
PieceFrom(t, i) ==
    LET D == {j \in i .. Len(t) : t[j] = "."}
    IN SubSeq(t, i, IF D = {} THEN Len(t) ELSE Min(D) - 1)

\* The index of the first '.', 0 when there is none.
FirstDot(t) ==
    LET D == {j \in 1 .. Len(t) : t[j] = "."} IN IF D = {} THEN 0 ELSE Min(D)

\* Mutant: the decimals are not padded with '0' to coin_decimals digits.
FromCoinUnpadded(s, d) ==
    LET t     == Trim(s)
        dot   == FirstDot(t)
        parsed == ParseU64(PieceFrom(t, 1))
        value == parsed.val
        right == IF dot = 0 THEN <<"0">> ELSE PieceFrom(t, dot + 1)
        decs  == SubSeq(right, 1, IF d < Len(right) THEN d ELSE Len(right))
        pdv   == ParseU64(decs)
        dv    == pdv.val
        exact == value * 10^d + dv
    IN IF parsed = NoValue THEN {NoValue}
       ELSE IF d = 0 THEN (IF dot # 0 THEN {NoValue} ELSE {parsed})
       ELSE IF pdv = NoValue THEN {NoValue}
       ELSE IF 10^d > U64Max \/ exact > U64Max
            THEN {Panic, Some(Wrap(Wrap(value * Wrap(10^d)) + dv))}
            ELSE {Some(exact)}

(***************************************************************************)
(* from_coin(value, coin_decimals): the integer part, then (decimals > 0) *)
(* the first coin_decimals characters of the second piece padded with     *)
(* '0', parsed, and `value * 10^decimals + decimals_value`; with no        *)
(* decimals, a second piece makes it None.  The set of outcomes: None,    *)
(* the amount, or, on overflow, a panic (debug) and the wrapped amount.   *)
(***************************************************************************)
FromCoin(s, d) ==
    LET t     == Trim(s)
        dot   == FirstDot(t)
        parsed == ParseU64(PieceFrom(t, 1))
        value == parsed.val
        right == IF dot = 0 THEN <<"0">> ELSE PieceFrom(t, dot + 1)
        decs  == [i \in 1 .. d |-> IF i <= Len(right) THEN right[i] ELSE "0"]
        pdv   == ParseU64(decs)
        dv    == pdv.val
        exact == value * 10^d + dv
    IN IF parsed = NoValue THEN {NoValue}
       ELSE IF d = 0 THEN (IF dot # 0 THEN {NoValue} ELSE {parsed})
       ELSE IF pdv = NoValue THEN {NoValue}
       ELSE IF 10^d > U64Max \/ exact > U64Max
            THEN {Panic, Some(Wrap(Wrap(value * Wrap(10^d)) + dv))}
            ELSE {Some(exact)}

(***************************************************************************)
(* calculate_tx_fee: every started KB of the size, each output, each new  *)
(* address and each multisig signature are charged.                        *)
(***************************************************************************)
CalculateTxFee(size, outputs, newAddresses, multisig) ==
    LET sizeInKB == size \div BYTES_PER_KB + (IF size % BYTES_PER_KB # 0 THEN 1 ELSE 0)
    IN sizeInKB * FEE_PER_KB
       + outputs * FEE_PER_TRANSFER
       + newAddresses * FEE_PER_ACCOUNT_CREATION
       + multisig * FEE_PER_TRANSFER

(***************************************************************************)
(* format_difficulty: divide by 1000 while the value is >= 1000 (at most  *)
(* 6 times), keeping the last remainder; the text is the quotient, then   *)
(* "." and the remainder divided by 10 when the remainder is not zero,    *)
(* then the unit.  Result: the quotient, the digits after the point (-1   *)
(* when there are none) and the unit's index.                             *)
(***************************************************************************)
FormatDifficulty(v) ==
    LET L[n \in 0 .. 6] ==
            IF n = 0 THEN [q |-> v, left |-> 0]
            ELSE IF L[n - 1].q >= 1000
                 THEN [q |-> L[n - 1].q \div 1000, left |-> L[n - 1].q % 1000]
                 ELSE L[n - 1]
        count == CHOOSE n \in 0 .. 6 : n = 6 \/ L[n].q < 1000
    IN [whole |-> L[count].q, frac |-> IF L[count].left = 0 THEN -1 ELSE L[count].left \div 10,
        unit |-> count]


(***************************************************************************)
(* sanitize_daemon_address.  Its strings are sequences of characters, the *)
(* scheme's spelled out; a host is one token: an IPv4 literal ("ip"), a   *)
(* domain in lower case ("dom") or with upper-case letters ("DOM"); a     *)
(* port is ":" and one token.                                              *)
(***************************************************************************)
Schemes == { <<>>,
             <<"h", "t", "t", "p", ":", "/", "/">>,
             <<"h", "t", "t", "p", "s", ":", "/", "/">>,
             <<"H", "T", "T", "P", "S", ":", "/", "/">>,
             <<"w", "s", ":", "/", "/">>,
             <<"w", "s", "s", ":", "/", "/">> }
Hosts == {<<"ip">>, <<"dom">>, <<"DOM">>}
Ports == {<<>>, <<":", "80">>}
Trailers == {<<>>, <<"/">>, <<"/", "/">>}

\* The addresses given: every scheme, host, port and trailing slashes.
Addresses == {s \o h \o p \o x : s \in Schemes, h \in Hosts, p \in Ports, x \in Trailers}

HTTPS == <<"h", "t", "t", "p", "s", ":", "/", "/">>
HTTP  == <<"h", "t", "t", "p", ":", "/", "/">>
WSS   == <<"w", "s", "s", ":", "/", "/">>
WS    == <<"w", "s", ":", "/", "/">>

\* str::to_lowercase, character by character.
Lower(c) == CASE c = "H" -> "h" [] c = "T" -> "t" [] c = "P" -> "p" [] c = "S" -> "s"
                 [] c = "DOM" -> "dom" [] OTHER -> c
ToLowercase(s) == [i \in 1 .. Len(s) |-> Lower(s[i])]

\* str::parse::<SocketAddr>() succeeds: an IPv4 literal and a port, no more.
IsSocketAddr(s) == \E p \in Ports \ {<<>>} : s = <<"ip">> \o p

\* String::replace_range(..n, by)
ReplaceRange(s, n, by) == by \o SubSeq(s, n + 1, Len(s))

\* String::pop when the string ends with "/".
PopSlash(s) == IF IsSuffix(<<"/">>, s) THEN SubSeq(s, 1, Len(s) - 1) ELSE s

\* The scheme rewriting on a string already put in lower case (or not).
SanitizeScheme(t) ==
    IF IsPrefix(HTTPS, t) THEN ReplaceRange(t, 8, WSS)
    ELSE IF IsPrefix(HTTP, t) THEN ReplaceRange(t, 7, WS)
    ELSE IF ~IsPrefix(WS, t) /\ ~IsPrefix(WSS, t)
         THEN (IF IsSocketAddr(t) THEN WS ELSE WSS) \o t
    ELSE t

\* Mutant: the address is matched without being put in lower case first.
SanitizeDaemonAddressCaseSensitive(target) == PopSlash(SanitizeScheme(target))

(***************************************************************************)
(* sanitize_daemon_address: lower case; https:// becomes wss://, http://  *)
(* becomes ws://; with no websocket scheme either, ws:// is put in front  *)
(* of an address that parses as a socket address and wss:// in front of  *)
(* anything else; finally one trailing "/" is dropped.                    *)
(***************************************************************************)
SanitizeDaemonAddress(target) == PopSlash(SanitizeScheme(ToLowercase(target)))

-----------------------------------------------------------------------------
VARIABLE call   \* the last helper call: its function, arguments and outcome

Strings == BoundedSeq(Chars, MaxLen)

NoCall == [fn |-> "none", args |-> <<>>, out |-> NoValue]

Init == call = NoCall

\* The caller takes the outcome and is ready for its next call.
Return ==
    /\ call.fn # "none"
    /\ call' = NoCall

FromCoinCall(s, d) ==
    \E o \in FromCoin(s, d) : call' = [fn |-> "from_coin", args |-> <<s, d>>, out |-> o]

CalculateTxFeeCall(size, o, n, m) ==
    call' = [fn |-> "calculate_tx_fee", args |-> <<size, o, n, m>>,
             out |-> CalculateTxFee(size, o, n, m)]

FormatDifficultyCall(v) ==
    call' = [fn |-> "format_difficulty", args |-> <<v>>, out |-> FormatDifficulty(v)]

SanitizeDaemonAddressCall(a) ==
    call' = [fn |-> "sanitize_daemon_address", args |-> <<a>>, out |-> SanitizeDaemonAddress(a)]

Next ==
    \/ Return
    \/ call = NoCall /\ \E s \in Strings, d \in 0 .. MaxDecimals : FromCoinCall(s, d)
    \/ call = NoCall /\ \E size \in Sizes, o, n, m \in 0 .. MaxCount : CalculateTxFeeCall(size, o, n, m)
    \/ call = NoCall /\ \E v \in 0 .. MaxDifficulty : FormatDifficultyCall(v)
    \/ call = NoCall /\ \E a \in Addresses : SanitizeDaemonAddressCall(a)

Spec == Init /\ [][Next]_call

-----------------------------------------------------------------------------
(* Reference definitions and properties *)

\* A plain decimal amount for coin_decimals d: digits, then optionally '.'
\* and at most d digits (no point at all when d = 0), around the trimming.
IsAmount(s, d) ==
    LET t == Trim(s)
        dot == FirstDot(t)
    IN IF dot = 0 THEN t # <<>> /\ IsDigits(t)
       ELSE /\ d > 0 /\ dot > 1 /\ Len(t) - dot <= d
            /\ IsDigits(SubSeq(t, 1, dot - 1)) /\ IsDigits(SubSeq(t, dot + 1, Len(t)))

\* The number of atomic units such an amount denotes.
AmountValue(s, d) ==
    LET t == Trim(s)
        dot == FirstDot(t)
    IN IF dot = 0 THEN Num(t) * 10^d
       ELSE Num(SubSeq(t, 1, dot - 1)) * 10^d
            + Num(SubSeq(t, dot + 1, Len(t))) * 10^(d - (Len(t) - dot))

(***************************************************************************)
(* from_coin, which the wallet uses to read every amount a user types,    *)
(* turns each plain decimal amount that fits in a u64 into exactly its    *)
(* atomic units, for every coin_decimals whose power of ten is a u64.     *)
(***************************************************************************)
FromCoinParsesAmounts ==
    call.fn = "from_coin" =>
        LET s == call.args[1]
            d == call.args[2]
        IN (IsAmount(s, d) /\ AmountValue(s, d) <= U64Max /\ 10^d <= U64Max)
               => call.out = Some(AmountValue(s, d))

(***************************************************************************)
(* from_coin returns Option<u64>: an amount too large for a u64 gives     *)
(* None, never some other number (the multiplication and the addition at  *)
(* utils.rs:56 are unchecked).                                            *)
(***************************************************************************)
OversizedAmountRejected ==
    call.fn = "from_coin" =>
        LET s == call.args[1]
            d == call.args[2]
        IN (IsAmount(s, d) /\ AmountValue(s, d) > U64Max) => call.out.tag # "Some"

\* The number of started KB in a size: the least k with k KB >= size.
StartedKB(size) ==
    CHOOSE k \in 0 .. size : k * BYTES_PER_KB >= size /\ (k = 0 \/ (k - 1) * BYTES_PER_KB < size)

(***************************************************************************)
(* calculate_tx_fee charges the rates config.rs defines: FEE_PER_KB per   *)
(* started KB, FEE_PER_TRANSFER per output, FEE_PER_ACCOUNT_CREATION per  *)
(* new address and FEE_PER_MULTISIG_SIGNATURE per multisig signature.     *)
(***************************************************************************)
TxFeeFollowsConfig ==
    call.fn = "calculate_tx_fee" =>
        LET a == call.args
        IN call.out = StartedKB(a[1]) * FEE_PER_KB + a[2] * FEE_PER_TRANSFER
                      + a[3] * FEE_PER_ACCOUNT_CREATION + a[4] * FEE_PER_MULTISIG_SIGNATURE

(***************************************************************************)
(* format_difficulty shows a truncation of the difficulty in its unit:    *)
(* the number printed, read as a decimal, is at most the value and less   *)
(* than it plus one unit of its last digit ("1.15K" for 1150).            *)
(***************************************************************************)
DifficultyShownTruncated ==
    call.fn = "format_difficulty" =>
        LET r == call.out
            v == call.args[1]
            P == 1000^r.unit
            digits == IF r.frac = -1 THEN 0 ELSE IF r.frac < 10 THEN 1 ELSE 2
            shown  == r.whole * 10^digits + (IF r.frac = -1 THEN 0 ELSE r.frac)
        IN shown * P <= v * 10^digits /\ v * 10^digits < (shown + 1) * P

\* The parts an address was built from.
SchemeOf(s) == CHOOSE p \in Schemes : IsPrefix(p, s) /\ \A q \in Schemes : IsPrefix(q, s) => Len(q) <= Len(p)
HostOf(s) == s[Len(SchemeOf(s)) + 1]
AfterHost(s) == SubSeq(s, Len(SchemeOf(s)) + 2, Len(s))

(***************************************************************************)
(* sanitize_daemon_address keeps an address and its security whatever the *)
(* case the user typed: a URL given as https:// or wss:// becomes wss://, *)
(* one given as http:// or ws:// becomes ws://, and the host (in lower    *)
(* case) and port follow unchanged, with at most one "/" dropped.         *)
(***************************************************************************)
KeepsAddressAndSecurity ==
    call.fn = "sanitize_daemon_address" /\ SchemeOf(call.args[1]) # <<>> =>
        LET a    == call.args[1]
            want == IF ToLowercase(SchemeOf(a)) \in {HTTPS, WSS} THEN WSS ELSE WS
        IN call.out = want \o ToLowercase(<<HostOf(a)>>) \o PopSlash(AfterHost(a))

(***************************************************************************)
(* The comments of sanitize_daemon_address: with no scheme, "use ws:// if *)
(* it's a IP address, otherwise it may be a domain, use wss://" -- an IP  *)
(* address, with or without a port or a trailing "/", is given ws://.     *)
(***************************************************************************)
IpAddressGetsWs ==
    call.fn = "sanitize_daemon_address" /\ SchemeOf(call.args[1]) = <<>>
        /\ HostOf(call.args[1]) = "ip" => IsPrefix(WS, call.out)

=============================================================================
