----------------------------- MODULE DidOutputs -----------------------------
(* The amounts and the data of createBtcrDid's transaction: from the text of  *)
(* gettxout's value and of the fee through doubles (src/src/satoshis.h) to    *)
(* the texts given to createrawtransaction, and from a reference to a DDO to  *)
(* the hex of the OP_RETURN (src/src/encodeOpReturnData.cpp).                 *)
(*                                                                            *)
(* A double is an integer, a number of 2^-Scale, with at most Precision       *)
(* significant bits. A decimal text is the number of satoshis it says.        *)
EXTENDS Integers, FiniteSetsExt, SequencesExt

CONSTANTS
    Precision,              \* bits of a double's significand: 53
    Scale,                  \* bound: no double in play has lower bits
    IntBits,                \* width of int64_t
    SATOSHIS_PER_BTC,
    Values,                 \* what an output can hold, in satoshis
    Fees,                   \* fees on the command line, in quarters of a satoshi
    MAX_OP_RETURN_LENGTH,
    DdoRefs                 \* references: sequences of bytes

MaxBits == Scale + IntBits + 1          \* bound: of the doubles in play
TwoTo[n \in 0..MaxBits] == IF n = 0 THEN 1 ELSE 2 * TwoTo[n - 1]
One == TwoTo[Scale]

(* An int64_t has more bits than a double, a satoshi is no less than eight of *)
(* the numbers doubles are counted in, and the satoshis there are need two    *)
(* bits less than a double has.                                               *)
ASSUME OutputsAssumption ==
    /\ {Precision, Scale, IntBits, SATOSHIS_PER_BTC} \subseteq Nat \ {0}
    /\ Precision < IntBits /\ 8 * SATOSHIS_PER_BTC <= One
    /\ Values \subseteq Nat /\ Values # {}
    /\ \A v \in Values : 4 * (v + 4) <= TwoTo[Precision]
    /\ Fees \subseteq (-TwoTo[IntBits + 2])..TwoTo[IntBits + 2]
    /\ MAX_OP_RETURN_LENGTH \in Nat
    /\ DdoRefs \subseteq Seq(1..255)

VARIABLES
    value, fee, ddoRef, \* the texts: of the output, and on the command line
    charIsSigned,       \* the compiler's choice
    emptyIsHex,         \* bitcoind's version: it takes an empty string for hex
    pc,                 \* what is next, or what became of the transaction
    amountSatoshis,     \* unspentData.amountSatoshis
    change,
    amounts             \* to createrawtransaction and signrawtransactionwithkey:
                        \* [change, data, spent], a set of at most one

inputVars == <<value, fee, ddoRef, charIsSigned, emptyIsHex>>
vars == <<inputVars, pc, amountSatoshis, change, amounts>>

IntMax == TwoTo[IntBits - 1] - 1
IntMin == -IntMax - 1

-----------------------------------------------------------------------------
(* IEEE 754: num / den, of a positive den, to the nearest double, ties to the *)
(* even one.                                                                  *)
Nearest(num, den) ==
    LET q == num \div den
        r == 2 * (num % den)
    IN  IF r < den \/ (r = den /\ q % 2 = 0) THEN q ELSE q + 1
NearestDouble(num, den) ==
    LET ulp == TwoTo[Min({k \in 0..(MaxBits - Precision) : num \div den < TwoTo[Precision + k]})]
    IN  ulp * Nearest(num, den * ulp)
Signed(F(_, _), num, den) == IF num < 0 THEN -F(-num, den) ELSE F(num, den)
Double(num, den) == Signed(NearestDouble, num, den)

(* A double as an int64_t: rounded towards 0. A value that does not fit is    *)
(* undefined: the least integer on x86, the nearest one on ARM.               *)
Truncated(d) == IF d < 0 THEN -((-d) \div One) ELSE d \div One
Int64(d) ==
    LET n == Truncated(d) IN
    IF n \in IntMin..IntMax THEN {n} ELSE {IntMin, IF n < 0 THEN IntMin ELSE IntMax}

(* Mistake: more bits than there are.                                         *)
NotWrapped(n) == n

(* An overflow of int64_t is undefined too: the build does not trap it.       *)
Wrapped(n) == ((n - IntMin) % TwoTo[IntBits]) + IntMin

(* Mistake: the fraction is cut off.                                          *)
btc2satoshiCut(v) == Int64(Double(v * SATOSHIS_PER_BTC, 1))

btc2satoshi(v) ==
    LET half == IF v < 0 THEN -(One \div 2) ELSE One \div 2
    IN  Int64(Double(Double(v * SATOSHIS_PER_BTC, 1) + half, 1))

satoshi2btc(n) == Double(Double(n * One, 1), SATOSHIS_PER_BTC)

(* Mistake: the digits after the last are cut off.                            *)
btc_to_stringCut(d) == Truncated(d * SATOSHIS_PER_BTC)

(* Printed with as many decimals as a satoshi needs, rounded to the last.     *)
btc_to_string(d) == Signed(Nearest, d * SATOSHIS_PER_BTC, One)

-----------------------------------------------------------------------------
(* Mistake: no leading 0.                                                     *)
HexUnpadded(c) ==
    IF c < 16 THEN <<c>>
    ELSE (IF charIsSigned /\ c > 127 THEN [i \in 1..6 |-> 15] ELSE << >>) \o <<c \div 16, c % 16>>

(* A char in hex, two digits at least; a negative one is extended to the 32   *)
(* bits of unsigned.                                                          *)
Hex(c) ==
    (IF charIsSigned /\ c > 127 THEN [i \in 1..6 |-> 15] ELSE << >>) \o <<c \div 16, c % 16>>

encodeOpReturnData(data) ==
    IF Len(data) > MAX_OP_RETURN_LENGTH THEN << >>
    ELSE FlattenSeq([i \in DOMAIN data |-> Hex(data[i])])

(* What bitcoind makes of it: two digits are a byte.                          *)
Bytes(hex) == [i \in 1..(Len(hex) \div 2) |-> 16 * hex[2 * i - 1] + hex[2 * i]]

-----------------------------------------------------------------------------
(* Any amount with one reference, any reference with one amount.              *)
Init ==
    /\ \/ value \in Values /\ fee \in Fees /\ ddoRef = << >> /\ charIsSigned = FALSE
       \/ value = Max(Values) /\ fee = 0 /\ ddoRef \in DdoRefs /\ charIsSigned \in BOOLEAN
    /\ emptyIsHex \in BOOLEAN
    /\ pc = "txOut"
    /\ amountSatoshis = 0
    /\ change = 0
    /\ amounts = {}

ReadAmount ==
    /\ pc = "txOut"
    /\ amountSatoshis' \in btc2satoshi(Double(value * One, SATOSHIS_PER_BTC))
    /\ pc' = "change"
    /\ UNCHANGED <<inputVars, change, amounts>>

ComputeChange ==
    /\ pc = "change"
    /\ \E n \in btc2satoshi(Double(fee * One, 4 * SATOSHIS_PER_BTC)) :
          change' = Wrapped(amountSatoshis - n)
    /\ pc' = "build"
    /\ UNCHANGED <<inputVars, amountSatoshis, amounts>>

AddOutputs ==
    /\ pc = "build"
    /\ amounts' = {[change |-> btc_to_string(satoshi2btc(change)),
                    data   |-> encodeOpReturnData(ddoRef),
                    spent  |-> btc_to_string(satoshi2btc(amountSatoshis))]}
    /\ pc' = "send"
    /\ UNCHANGED <<inputVars, amountSatoshis, change>>

(* A negative amount is refused, and so is a transaction that gives out more  *)
(* than it takes in, whose signature is for another amount than is there, or  *)
(* whose data is no hex or more than is relayed. Whether an empty string is   *)
(* hex is bitcoind's to say: createBtcrDid sends one where it has no reference *)
(* or drops one that is too long, and a bitcoind may refuse both.             *)
Accepts(a) ==
    /\ a.change \in 0..value
    /\ a.spent = value
    /\ Len(a.data) % 2 = 0 /\ Len(a.data) <= 2 * MAX_OP_RETURN_LENGTH
    /\ a.data = << >> => emptyIsHex

Send ==
    /\ pc = "send"
    /\ \E a \in amounts : pc' = IF Accepts(a) THEN "sent" ELSE "refused"
    /\ UNCHANGED <<inputVars, amountSatoshis, change, amounts>>

Next == ReadAmount \/ ComputeChange \/ AddOutputs \/ Send

Spec == Init /\ [][Next]_vars

-----------------------------------------------------------------------------
TypeOK ==
    /\ value \in Values /\ fee \in Fees \cup {0} /\ ddoRef \in DdoRefs \cup {<< >>}
    /\ pc \in {"txOut", "change", "build", "send", "sent", "refused"}
    /\ {amountSatoshis, change} \subseteq IntMin..IntMax
    /\ Cardinality(amounts) <= 1

(* Nothing is lost between the texts: what is sent pays the fee on the        *)
(* command line to the satoshi, or less than one away for a fee of fractions, *)
(* and the nearest one up to an eighth of what a double counts, 11 million    *)
(* bitcoins; a fee that int64_t does not hold, whatever the build makes of    *)
(* it, does not get out.                                                      *)
FeeIsTheOneAsked ==
    pc = "sent" => \A a \in amounts :
        LET more == 4 * (value - a.change) - fee IN
        /\ more \in -3..3
        /\ 8 * (value + 3) <= TwoTo[Precision] => more \in -2..2

(* A fee the output can pay is never refused on account of the conversions:   *)
(* the signature is for the amount that is there, and no change is negative.  *)
(* (No reference was given; a bitcoind that wants one refuses all the same.)  *)
AffordableIsAccepted ==
    pc = "refused" => fee \notin 0..(4 * value) \/ ddoRef # << >> \/ ~emptyIsHex

(* What OP_RETURN returns is the reference given, byte for byte, or nothing   *)
(* for one that is too long, as long as it is ASCII or char is unsigned; and  *)
(* bitcoind does not refuse it, except for being that nothing.                *)
Ascii(s) == ToSet(s) \subseteq 0..127
ReferenceArrives ==
    Ascii(ddoRef) \/ ~charIsSigned =>
        /\ pc = "refused" =>
              \/ ddoRef = << >>
              \/ Len(ddoRef) > MAX_OP_RETURN_LENGTH /\ ~emptyIsHex
        /\ \A a \in amounts : Bytes(a.data) =
              IF Len(ddoRef) > MAX_OP_RETURN_LENGTH THEN << >> ELSE ddoRef

(* "The data returned by OP_RETURN needs to be UTF-8, hex-encoded. Assuming   *)
(* UTF-8 for now." (src/src/encodeOpReturnData.h:6): what is sent is the      *)
(* reference's bytes, whatever characters are in it.                          *)
DataIsTheReference ==
    pc = "sent" /\ Len(ddoRef) <= MAX_OP_RETURN_LENGTH =>
        \A a \in amounts : Bytes(a.data) = ddoRef
=============================================================================
