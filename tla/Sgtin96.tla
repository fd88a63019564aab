------------------------------ MODULE Sgtin96 ------------------------------
(***************************************************************************)
(* pkg/sgtin96: the GTIN-14, the company prefix and the item filter of a   *)
(* tag, from its EPC, 24 hexadecimal digits.                               *)
(*                                                                         *)
(* A character of an EPC is the value of a hexadecimal digit, or NotHex.   *)
(* Bytes, and the integers assembled from them, are sets of bit positions: *)
(* a mask is an intersection, | a union, a shift an addition.  A number    *)
(* that is printed is the sequence of its decimal digits.                  *)
(*                                                                         *)
(* The functions keep no state.  What changes here is the EPC that they    *)
(* are given: it is reported by a reader and may differ from the one on    *)
(* the tag in single bits or characters.                                   *)
(***************************************************************************)
EXTENDS Integers, Sequences, SequencesExt

CONSTANTS Tags,        \* the EPCs as they are on the tags
          MaxErrors    \* bound: errors in one report

NotHex     == 16
Characters == 0 .. NotHex

ASSUME SgtinAssumption ==
  /\ Tags \subseteq Seq(Characters)
  /\ MaxErrors \in Nat

VARIABLES epc,      \* the reported EPC
          errors    \* how many errors it has

vars == <<epc, errors>>

maxPartitionValue == 6
digitCount        == 13
numEpcBits        == 96
numEpcDigits      == 24
numEpcBytes       == 12
sgtin96Header     == <<3, 0>>

\* Number of digits in the company prefix.
l == [partition \in 0 .. maxPartitionValue |-> 12 - partition]

\* What a function returns: an error or a value.
Error(e)  == [error |-> e, value |-> <<>>]
Value(v)  == [error |-> "none", value |-> v]
Failed(r) == r.error # "none"

------------------------------------------------------------------------------
\* From characters to bytes.
checkEpc(s) ==
  IF ~ IsPrefix(sgtin96Header, s) THEN "header"
  ELSE IF Len(s) # numEpcDigits THEN "length"
  ELSE "none"

DigitBits(c) == {k \in 0 .. 3 : (c \div 2 ^ k) % 2 = 1}

\* strconv.ParseUint of two characters at a time.
getEpcBytes(s) ==
  IF \E i \in 1 .. numEpcDigits : s[i] = NotHex
  THEN Error("syntax")
  ELSE Value([i \in 0 .. numEpcBytes - 1 |->
         {k + 4 : k \in DigitBits(s[2 * i + 1])} \cup DigitBits(s[2 * i + 2])])

------------------------------------------------------------------------------
\* From bytes to fields.  A part is a byte under a mask, shifted to the left by n bits
\* or, if n is negative, to the right.
Part(i, mask, n) == [byte |-> i, mask |-> mask, shift |-> n]

Masked(bytes, t) == {b + t.shift : b \in bytes[t.byte] \cap t.mask}

Assemble(bytes, parts) == UNION {Masked(bytes, t) : t \in parts}

\* The number that three bits make.
Small(bits) ==
  (IF 0 \in bits THEN 1 ELSE 0) + (IF 1 \in bits THEN 2 ELSE 0) + (IF 2 \in bits THEN 4 ELSE 0)

Bits == 0 .. 7

\* Mutant: the shift is one short.
filterValueShifted(bytes) == Small(Masked(bytes, Part(1, 4 .. 7, -4)))

filterValue(bytes) == Small(Masked(bytes, Part(1, 5 .. 7, -5)))

getPartitionValue(bytes) == Small(Masked(bytes, Part(1, 2 .. 4, -2)))

\* 40, 37, 34, 30, 27, 24 and 20 bits.
companyPrefixParts(p) ==
  CASE p = 0 -> {Part(1, 0 .. 1, 38), Part(2, Bits, 30), Part(3, Bits, 22), Part(4, Bits, 14),
                 Part(5, Bits, 6), Part(6, 2 .. 7, -2)}
    [] p = 1 -> {Part(1, 0 .. 1, 35), Part(2, Bits, 27), Part(3, Bits, 19), Part(4, Bits, 11),
                 Part(5, Bits, 3), Part(6, 5 .. 7, -5)}
    [] p = 2 -> {Part(1, 0 .. 1, 32), Part(2, Bits, 24), Part(3, Bits, 16), Part(4, Bits, 8),
                 Part(5, Bits, 0)}
    [] p = 3 -> {Part(1, 0 .. 1, 28), Part(2, Bits, 20), Part(3, Bits, 12), Part(4, Bits, 4),
                 Part(5, 4 .. 7, -4)}
    [] p = 4 -> {Part(1, 0 .. 1, 25), Part(2, Bits, 17), Part(3, Bits, 9), Part(4, Bits, 1),
                 Part(5, {7}, -7)}
    [] p = 5 -> {Part(1, 0 .. 1, 22), Part(2, Bits, 14), Part(3, Bits, 6), Part(4, 2 .. 7, -2)}
    [] p = 6 -> {Part(1, 0 .. 1, 18), Part(2, Bits, 10), Part(3, Bits, 2), Part(4, 6 .. 7, -6)}

\* 4, 7, 10, 14, 17, 20 and 24 bits.
itemReferenceParts(p) == {Part(7, 6 .. 7, -6)} \cup
  CASE p = 0 -> {Part(6, 0 .. 1, 2)}
    [] p = 1 -> {Part(6, 0 .. 4, 2)}
    [] p = 2 -> {Part(6, Bits, 2)}
    [] p = 3 -> {Part(6, Bits, 2), Part(5, 0 .. 3, 10)}
    [] p = 4 -> {Part(6, Bits, 2), Part(5, 0 .. 6, 10)}
    [] p = 5 -> {Part(6, Bits, 2), Part(5, Bits, 10), Part(4, 0 .. 1, 18)}
    [] p = 6 -> {Part(6, Bits, 2), Part(5, Bits, 10), Part(4, 0 .. 5, 18)}

------------------------------------------------------------------------------
\* From bits to decimal digits.  A number of up to 13 digits is a pair, its last seven
\* digits apart from the others.
Low == 10000000

DoubleAdd(n, bit) ==
  LET low == 2 * n[2] + bit IN <<2 * n[1] + low \div Low, low % Low>>

\* The number made of the first i of 40 bits, for each i.
Leading(bits) ==
  LET number[i \in 0 .. 40] ==
        IF i = 0 THEN <<0, 0>>
                 ELSE DoubleAdd(number[i - 1], IF 40 - i \in bits THEN 1 ELSE 0)
  IN  number

NumberOf(bits) == Leading(bits)[40]

Digit(n, k) == (IF k < 7 THEN n[2] \div 10 ^ k ELSE n[1] \div 10 ^ (k - 7)) % 10

Decimal(bits) ==
  LET n == NumberOf(bits) IN [i \in 1 .. digitCount |-> Digit(n, digitCount - i)]

\* fmt.Sprintf of a number below 10^n with n digits.
Printed(bits, n) == SubSeq(Decimal(bits), digitCount - n + 1, digitCount)

\* Mutant: > instead of >=.
AtLeastPowerStrictly(bits, n) ==
  LET d     == Decimal(bits)
      power == [i \in 1 .. digitCount |-> IF i = digitCount - n THEN 1 ELSE 0]
  IN  d # power /\ \E i \in 1 .. digitCount - n : d[i] # 0

AtLeastPower(bits, n) ==
  LET d == Decimal(bits) IN \E i \in 1 .. digitCount - n : d[i] # 0

getCompanyPrefix(bytes, p) ==
  LET companyPrefix == Assemble(bytes, companyPrefixParts(p))
  IN  IF AtLeastPower(companyPrefix, l[p]) THEN Error("company prefix") ELSE Value(companyPrefix)

getItemReference(bytes, p) ==
  LET itemReference == Assemble(bytes, itemReferenceParts(p))
  IN  IF AtLeastPower(itemReference, p + 1) THEN Error("item reference") ELSE Value(itemReference)

------------------------------------------------------------------------------
\* The GTIN-14.  The remainder of Go has the sign of the dividend.
Rem(a, b) == IF a >= 0 THEN a % b ELSE - ((- a) % b)

odds(d) == d[1] + d[3] + d[5] + d[7] + d[9] + d[11] + d[13]
even(d) == d[2] + d[4] + d[6] + d[8] + d[10] + d[12]

\* Mutant: the remainder is taken as it is.
checkDigitSigned(d) == Rem((-3 * odds(d)) - even(d), 10)

checkDigit(d) ==
  LET r == Rem((-3 * odds(d)) - even(d), 10) IN IF r < 0 THEN r + 10 ELSE r

\* Mutant: the item reference follows the company prefix as a whole.
getCheckDigitPrefixFirst(p, companyPrefix, itemReference) ==
  LET d == Printed(companyPrefix, l[p]) \o Printed(itemReference, digitCount - l[p])
  IN  Append(d, checkDigit(d))

\* The first digit of the item reference, the indicator, goes before the company prefix.
getCheckDigit(p, companyPrefix, itemReference) ==
  LET item == Printed(itemReference, digitCount - l[p])
      d    == <<Head(item)>> \o Printed(companyPrefix, l[p]) \o Tail(item)
  IN  Append(d, checkDigit(d))

------------------------------------------------------------------------------
\* The exported functions.
GetCompanyPrefixByEpc(s) ==
  LET bytes == getEpcBytes(s)
      p     == getPartitionValue(bytes.value)
  IN  IF checkEpc(s) # "none" THEN Error(checkEpc(s))
      ELSE IF Failed(bytes) THEN bytes
      ELSE IF p > maxPartitionValue THEN Error("partition")
      ELSE getCompanyPrefix(bytes.value, p)

GetGtin14(s) ==
  LET bytes  == getEpcBytes(s)
      p      == getPartitionValue(bytes.value)
      prefix == getCompanyPrefix(bytes.value, p)
      item   == getItemReference(bytes.value, p)
  IN  IF checkEpc(s) # "none" THEN Error(checkEpc(s))
      ELSE IF Failed(bytes) THEN bytes
      ELSE IF p > maxPartitionValue THEN Error("partition")
      ELSE IF Failed(prefix) THEN prefix
      ELSE IF Failed(item) THEN item
      ELSE Value(getCheckDigit(p, prefix.value, item.value))

\* The partition value is not validated.
GetItemFilter(s) ==
  IF checkEpc(s) # "none" THEN Error(checkEpc(s))
  ELSE IF Failed(getEpcBytes(s)) THEN getEpcBytes(s)
  ELSE Value(filterValue(getEpcBytes(s).value))

------------------------------------------------------------------------------
\* The reader.  Bit q of an EPC is counted from its last digit.
FlipBit(s, q) ==
  LET i == numEpcDigits - q \div 4
      k == q % 4
  IN  [s EXCEPT ![i] = IF k \in DigitBits(@) THEN @ - 2 ^ k ELSE @ + 2 ^ k]

Init == epc \in Tags /\ errors = 0

Misread(s) ==
  /\ errors < MaxErrors
  /\ errors' = errors + 1
  /\ epc' = s

BitError == 
  /\ Len(epc) = numEpcDigits /\ NotHex \notin ToSet(epc)
  /\ \E q \in 0 .. numEpcBits - 1 : Misread(FlipBit(epc, q))

CharacterError == \E i \in DOMAIN epc : Misread([epc EXCEPT ![i] = NotHex])

LengthError == Misread(Append(epc, 1)) \/ (epc # <<>> /\ Misread(Front(epc)))

Next == BitError \/ CharacterError \/ LengthError

Spec == Init /\ [][Next]_vars

------------------------------------------------------------------------------
\* The layout of an SGTIN-96 and the decimal system once more, by other definitions: a
\* field by its position among the 96 bits, the bits of a number by halving it.
EpcBits(s) ==
  UNION {{4 * (numEpcDigits - i) + k : k \in DigitBits(s[i])} : i \in 1 .. numEpcDigits}

Field(s, from, width) == {k \in 0 .. width - 1 : from + k \in EpcBits(s)}

\* From the first bit: header 8, filter 3, partition 3, company prefix and item
\* reference 44 together, serial number 38.
PrefixWidth(p)    == <<40, 37, 34, 30, 27, 24, 20>>[p + 1]
Partition(s)      == Small(Field(s, 82, 3))
CompanyPrefix(s)  == Field(s, 82 - PrefixWidth(Partition(s)), PrefixWidth(Partition(s)))
ItemReference(s)  == Field(s, 38, 44 - PrefixWidth(Partition(s)))

TenTimes(n, digit) ==
  LET low == 10 * (n[2] % 1000000) + digit IN <<10 * n[1] + n[2] \div 1000000, low>>

Halve(n) == <<n[1] \div 2, (n[2] + (n[1] % 2) * Low) \div 2>>

\* The number that the first i digits make, and a number halved i times.
Reading(digits) ==
  LET number[i \in 0 .. Len(digits)] ==
        IF i = 0 THEN <<0, 0>> ELSE TenTimes(number[i - 1], digits[i])
  IN  number

Halves(n) ==
  LET half[i \in 0 .. 44] == IF i = 0 THEN n ELSE Halve(half[i - 1])
  IN  half

BitsOf(digits) ==
  LET half == Halves(Reading(digits)[Len(digits)])
  IN  {k \in 0 .. 43 : half[k][2] % 2 = 1}

BelowPower(bits, n) ==
  LET power == BitsOf(<<1>> \o [i \in 1 .. n |-> 0])
  IN  \E b \in power \ bits : \A c \in bits \ power : c < b

------------------------------------------------------------------------------
\* Nothing of the prefix and the item is lost or mixed up on the way through masks,
\* shifts and decimal digits: put back into bits, the digits of a GTIN-14 are the two
\* fields of the EPC, and the prefix is what GetCompanyPrefixByEpc returns
\* (sgtin96.go:34-109).
RoundTrip ==
  LET gtin   == GetGtin14(epc)
      digits == gtin.value
      n      == 12 - Partition(epc)
  IN  ~ Failed(gtin) =>
        /\ BitsOf(SubSeq(digits, 2, n + 1)) = CompanyPrefix(epc)
        /\ BitsOf(<<Head(digits)>> \o SubSeq(digits, n + 2, 13)) = ItemReference(epc)
        /\ GetCompanyPrefixByEpc(epc) = Value(CompanyPrefix(epc))

\* The check digit makes the weighted sum of the 14 digits a multiple of 10, though the
\* remainder it is taken from is never positive (sgtin96.go:303-312).
GtinIsValid ==
  LET gtin == GetGtin14(epc)
      d    == gtin.value
  IN  ~ Failed(gtin) => /\ Len(d) = 14 /\ ToSet(d) \subseteq 0 .. 9
                        /\ (3 * odds(d) + even(d) + d[14]) % 10 = 0

\* sgtin96.go:33 says that an error is returned "if the EPC is not encoded properly":
\* then, and only then, up to the last value below the powers of ten.
RefusesExactly ==
  Failed(GetGtin14(epc)) <=>
    ~ /\ IsPrefix(sgtin96Header, epc)
      /\ Len(epc) = numEpcDigits
      /\ NotHex \notin ToSet(epc)
      /\ Partition(epc) \in 0 .. 6
      /\ BelowPower(CompanyPrefix(epc), 12 - Partition(epc))
      /\ BelowPower(ItemReference(epc), Partition(epc) + 1)

\* A single wrong bit is noticed where it should be: in the serial number or the filter
\* it leaves the GTIN-14 alone, in the header it makes an error, in the prefix or the item
\* an error or another GTIN-14; only in the header or the filter does it touch what
\* GetItemFilter returns.
BitErrorsTell ==
  [][\A q \in 0 .. numEpcBits - 1 :
       BitError /\ epc' = FlipBit(epc, q) /\ ~ Failed(GetGtin14(epc)) =>
         /\ q \in 0 .. 37 \cup 85 .. 87 => GetGtin14(epc') = GetGtin14(epc)
         /\ q \in 88 .. 95 => GetGtin14(epc') = Error("header")
         /\ q \in 38 .. 81 => GetGtin14(epc') # GetGtin14(epc)
         /\ q \in 0 .. 87 => (GetItemFilter(epc') = GetItemFilter(epc) <=> q \notin 85 .. 87)]_vars

==============================================================================
