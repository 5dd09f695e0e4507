-------------------------------- MODULE Values --------------------------------
(***************************************************************************)
(* Conversions of numbers and the encodings made of them: web3-utils       *)
(* (converters.ts, string_manipulation.ts, hash.ts) and web3-eth-iban.     *)
(* A text of digits is the sequence of its digits, the first one first.    *)
(***************************************************************************)
EXTENDS Integers, SequencesExt

RECURSIVE Digits(_, _)
\* n.toString(base), for n >= 0
Digits(n, base) == IF n < base THEN <<n>> ELSE Append(Digits(n \div base, base), n % base)
Number(digits, base) == FoldLeft(LAMBDA acc, d : acc * base + d, 0, digits)

Abs(n) == IF n < 0 THEN - n ELSE n
Least(a, b) == IF a < b THEN a ELSE b
PadStart(s, length) == [i \in 1..(length - Len(s)) |-> 0] \o s
PadEnd(s, length) == s \o [i \in 1..(length - Len(s)) |-> 0]
\* slice(0, -n) and slice(-n), of a text with at least n digits or fewer
DropLast(s, n) == SubSeq(s, 1, Len(s) - n)
TakeLast(s, n) == IF Len(s) <= n THEN s ELSE SubSeq(s, Len(s) - n + 1, Len(s))

RECURSIVE TrimEnd(_)
TrimEnd(s) == IF s # <<>> /\ Last(s) = 0 THEN TrimEnd(Front(s)) ELSE s
RECURSIVE TrimStart(_)
TrimStart(s) == IF s # <<>> /\ Head(s) = 0 THEN TrimStart(Tail(s)) ELSE s

---------------------------------------------------------------------------
(* Units of ether: the zeros of a denomination; noether is no unit.        *)

ethUnitMap == [wei |-> 0, kwei |-> 3, mwei |-> 6, gwei |-> 9, szabo |-> 12, finney |-> 15,
               ether |-> 18, kether |-> 21, mether |-> 24, gether |-> 27, tether |-> 30]

\* A decimal is [integer, fraction].  Zero of a unit comes out as "0.".
FaultFromWei(n, zeros) ==
    LET text == Digits(n, 10) IN
    IF zeros = 0 THEN [integer |-> text, fraction |-> <<>>]
    ELSE [integer |-> IF Len(text) <= zeros THEN <<0>> ELSE DropLast(text, zeros),
          fraction |-> TrimEnd(TakeLast(text, zeros))]
FromWei(n, zeros) ==
    LET text == PadStart(Digits(n, 10), zeros) IN
    IF zeros = 0 THEN [integer |-> text, fraction |-> <<>>]
    ELSE [integer |-> IF Len(text) = zeros THEN <<0>> ELSE DropLast(text, zeros),
          fraction |-> TrimEnd(TakeLast(text, zeros))]

\* The digits of the whole number of wei; none at all for a zero with decimals.
ToWei(decimal, zeros) ==
    LET updated  == Number(decimal.integer \o decimal.fraction, 10) * 10 ^ zeros
        decimals == Least(Len(decimal.fraction), zeros)
    IN
    IF decimals = 0 THEN Digits(updated, 10)
    ELSE DropLast(PadStart(Digits(updated, 10), decimals), decimals)

---------------------------------------------------------------------------
(* Hex strings are [negative, digits]                                      *)

HexText(negative, digits) == [negative |-> negative, digits |-> digits]

NumberToHex(n, hexstrict) ==
    LET digits == Digits(Abs(n), 16) IN
    HexText(n < 0, IF hexstrict /\ Len(digits) % 2 = 1 THEN <<0>> \o digits ELSE digits)
\* Of a hex string: without its leading zeros, the only one included.
HexToHex(text) == HexText(text.negative, TrimStart(text.digits))

IsHexText(text) == text.digits # <<>>
HexToNumber(text) ==
    IF text.negative THEN - Number(text.digits, 16) ELSE Number(text.digits, 16)

\* Padded to a number of digits, after the sign and the prefix.
LeftPad(text, width) == [text EXCEPT !.digits = PadStart(@, width)]
RightPad(text, width) == [text EXCEPT !.digits = PadEnd(@, width)]

ToTwosComplement(n, nibbleWidth) ==
    LET largest == 2 ^ (4 * nibbleWidth) IN
    IF n >= 0 THEN LeftPad(NumberToHex(n, FALSE), nibbleWidth)
    ELSE LeftPad(NumberToHex(n + largest, FALSE), nibbleWidth)
\* Numbers it refuses: NibbleWidthError.
TooWide(n, nibbleWidth) == n < 0 /\ - n >= 2 ^ (4 * nibbleWidth)

\* The ceiling of the binary logarithm, which is one less than the number of
\* bits for a power of two.
LargestBit(n) == CHOOSE b \in 0..30 : n <= 2 ^ b /\ (b > 0 => n > 2 ^ (b - 1))
FromTwosComplement(n, nibbleWidth) ==
    IF n <= 0 \/ LargestBit(n) # 4 * nibbleWidth THEN n ELSE n - 2 ^ (4 * nibbleWidth)

---------------------------------------------------------------------------
(* encodePacked() *)

\* bitLength(): a minus sign counts as a bit.
BitLength(n) == Len(Digits(Abs(n), 2)) + (IF n < 0 THEN 1 ELSE 0)

GoodSize(size) == size % 8 = 0 /\ size >= 8 /\ size <= 256

SolidityPackError(type, size, n) ==
    IF ~ GoodSize(size) THEN "InvalidSizeError"
    ELSE IF BitLength(n) > size THEN "InvalidLargeValueError"
    ELSE IF type = "uint" /\ n < 0 THEN "InvalidUnsignedIntegerError"
    ELSE "ok"

\* The digits of an integer of `size` bits.
SolidityPack(type, size, n) ==
    IF n < 0 THEN ToTwosComplement(n, (size \div 8) * 2).digits
    ELSE PadStart(Digits(n, 16), size \div 4)

InvalidBytes == -1  \* in place of the digits: InvalidBytesError is thrown
\* bytesN: an even number of digits, no more than the type holds.
SolidityPackBytes(digits, size) ==
    IF Len(digits) % 2 # 0 \/ size < 1 \/ size > 64 \/ size < Len(digits) \div 2
    THEN <<InvalidBytes>>
    ELSE PadEnd(digits, size * 2)

EncodePacked(packed) == FlattenSeq(packed)

---------------------------------------------------------------------------
(* IBAN.  A character is its value in base 36: 0..9, then A = 10 to Z.     *)

\* The country, "XE", and the mark of an indirect number, "ETH".
Country == <<33, 14>>
Eth == <<14, 29, 17>>

\* _iso13616Prepare(): the first four characters go to the end, and letters
\* become numbers of two digits.
Iso13616Prepare(iban) ==
    FlattenSeq([i \in 1..Len(iban) |->
        Digits((SubSeq(iban, 5, Len(iban)) \o SubSeq(iban, 1, 4))[i], 10)])

\* _mod9710(): by blocks of nine digits, whose remainder is put before the rest.
RECURSIVE Mod9710(_)
Mod9710(digits) ==
    IF Len(digits) <= 2 THEN Number(digits, 10) % 97
    ELSE LET n == Least(9, Len(digits)) IN
         Mod9710(Digits(Number(SubSeq(digits, 1, n), 10) % 97, 10)
                 \o SubSeq(digits, n + 1, Len(digits)))

IsDirect(iban) == Len(iban) \in {34, 35}
IsIndirect(iban) == Len(iban) = 20
IsIban(iban) == IsDirect(iban) \/ IsIndirect(iban)

IsValidIban(iban) ==
    /\ SubSeq(iban, 1, 2) = Country
    /\ iban[3] < 10 /\ iban[4] < 10
    /\ IsDirect(iban) \/ (IsIndirect(iban) /\ SubSeq(iban, 5, 7) = Eth)
    /\ Mod9710(Iso13616Prepare(iban)) = 1

\* fromBban(): the check digits make the remainder 1.
FromBban(bban) ==
    LET remainder == Mod9710(Iso13616Prepare(Country \o <<0, 0>> \o bban))
        check     == PadStart(Digits(98 - remainder, 10), 2)
    IN Country \o TakeLast(check, 2) \o bban

CreateIndirect(institution, identifier) == FromBban(Eth \o institution \o identifier)

\* The digits of an address in base 36, with zeros before them up to fifteen:
\* an address that begins with many zeros is refused or taken as indirect.
FromAddress(base36) == FromBban(PadStart(base36, 15))
ToAddress(iban) == TrimStart(SubSeq(iban, 5, Len(iban)))
Institution(iban) == SubSeq(iban, 8, 11)
Client(iban) == SubSeq(iban, 12, Len(iban))
==============================================================================
