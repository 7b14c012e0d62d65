---------------------------- MODULE Conversions ----------------------------
(***************************************************************************)
(* The conversions of include/sentinel/events/utils/hex.hpp: hex text to   *)
(* bytes, decimal text to a big-endian word and back, and the comparison   *)
(* of two words.                                                           *)
(*                                                                         *)
(* Digits are numbers and BadChar is a character that is no digit.  A hex  *)
(* text records its prefix, its digits and whether some letter is upper    *)
(* case.  In the code Nibble is 16, Radix 10, WordWidth 32 and             *)
(* AddressWidth 20; the algorithms are the same for any other choice.      *)
(***************************************************************************)
EXTENDS Integers, Sequences

CONSTANTS Nibble,        \* values of one hex digit
          Radix,         \* values of one decimal digit
          WordWidth,     \* bytes of a 256-bit word
          AddressWidth,  \* bytes of an address
          Throws         \* the conversion throws

ASSUME ConversionsAssumption ==
  /\ {Nibble, Radix} \subseteq Nat \ {0, 1}
  /\ {WordWidth, AddressWidth} \subseteq Nat \ {0}

Byte    == Nibble * Nibble
Word    == [1..WordWidth -> 0..(Byte - 1)]
Zero    == [i \in 1..WordWidth |-> 0]
MaxWord == [i \in 1..WordWidth |-> Byte - 1]  \* uint256.max
BadChar == -1

Address  == [1..AddressWidth -> 0..(Byte - 1)]
HexTexts == [prefix : {"0x", "0X", "none"}, upper : BOOLEAN, digits : Seq(Int)]

\* An exception is no value.
ASSUME ThrowsAssumption == Throws \notin Word \cup Address
----------------------------------------------------------------------------
(* Hex text *)

HexDigits(text) == \A i \in DOMAIN text.digits : text.digits[i] \in 0..(Nibble - 1)

\* tolower over the whole text, the x of the prefix included.
lower(text) == [prefix |-> IF text.prefix = "0X" THEN "0x" ELSE text.prefix,
                upper |-> FALSE, digits |-> text.digits]

Prefixed(text) == text.prefix = "0x" /\ Len(text.digits) % 2 = 0

ByteAt(text, i) == text.digits[2 * i - 1] * Nibble + text.digits[2 * i]

\* As many bytes as there are, up to the width of the array: what is missing
\* stays zero, and what is too much is not even looked at.
parse_hex_bytes(text, width) ==
  LET used == [text EXCEPT !.digits = SubSeq(@, 1, IF Len(@) < 2 * width THEN Len(@) ELSE 2 * width)]
  IN  IF ~Prefixed(text) \/ ~HexDigits(used) THEN Throws
      ELSE [i \in 1..width |-> IF 2 * i <= Len(used.digits) THEN ByteAt(used, i) ELSE 0]

validate_hex(text) == Prefixed(text) /\ HexDigits(text)

\* The text the rules look up: 0x and two lower-case digits a byte.
hex_text(bytes) ==
  [prefix |-> "0x", upper |-> FALSE,
   digits |-> [i \in 1..(2 * Len(bytes)) |->
                 IF i % 2 = 1 THEN bytes[(i + 1) \div 2] \div Nibble
                              ELSE bytes[i \div 2] % Nibble]]
----------------------------------------------------------------------------
(* Words *)

\* Fault: the last byte that differs decides.
greater_be_256_FromEnd(lhs, rhs) ==
  \E i \in 1..WordWidth : lhs[i] > rhs[i] /\ \A j \in (i + 1)..WordWidth : lhs[j] = rhs[j]

\* memcmp: the first byte that differs decides.
greater_be_256(lhs, rhs) ==
  \E i \in 1..WordWidth : lhs[i] > rhs[i] /\ \A j \in 1..(i - 1) : lhs[j] = rhs[j]

\* word * Radix + digit, from the last byte on; carry[k] leaves the k-th byte
\* from the end.
CarryUpTo(word, digit) ==
  LET carry[k \in 0..WordWidth] ==
        IF k = 0 THEN digit ELSE (word[WordWidth + 1 - k] * Radix + carry[k - 1]) \div Byte
  IN  carry

MulAdd(word, digit) ==
  LET carry == CarryUpTo(word, digit)
  IN  [word  |-> [i \in 1..WordWidth |-> (word[i] * Radix + carry[WordWidth - i]) % Byte],
       carry |-> carry[WordWidth]]

\* Fault: the carry out of the first byte is dropped.
decimal_to_be_256_Wraps(text) ==
  LET result[n \in 0..Len(text)] ==
        IF n = 0 THEN Zero
        ELSE IF result[n - 1] = Throws \/ text[n] \notin 0..(Radix - 1) THEN Throws
        ELSE MulAdd(result[n - 1], text[n]).word
  IN  result[Len(text)]

\* Digit by digit; a character that is none throws, and so does a carry out of
\* the first byte.  The empty text is zero.
ResultUpTo(text) ==
  LET result[n \in 0..Len(text)] ==
        IF n = 0 THEN Zero
        ELSE IF result[n - 1] = Throws \/ text[n] \notin 0..(Radix - 1) THEN Throws
        ELSE LET step == MulAdd(result[n - 1], text[n])
             IN  IF step.carry > 0 THEN Throws ELSE step.word
  IN  result
decimal_to_be_256(text) == ResultUpTo(text)[Len(text)]

\* word / Radix, from the first byte on; rest[i] is carried into byte i + 1.
RestUpTo(word) ==
  LET rest[i \in 0..WordWidth] ==
        IF i = 0 THEN 0 ELSE (rest[i - 1] * Byte + word[i]) % Radix
  IN  rest

DivMod(word) ==
  LET rest == RestUpTo(word)
  IN  [quotient |-> [i \in 1..WordWidth |-> (rest[i - 1] * Byte + word[i]) \div Radix],
       remainder |-> rest[WordWidth]]

\* The remainders of dividing until nothing is left, last one first.
uint256_be_to_decimal(word) ==
  LET digits[w \in Word] == IF w = Zero THEN << >>
                            ELSE Append(digits[DivMod(w).quotient], DivMod(w).remainder)
  IN  IF word = Zero THEN <<0>> ELSE digits[word]
----------------------------------------------------------------------------
(* What a text or a word denotes: the reference for the above *)

ValueUpTo(base, digits) ==
  LET value[n \in 0..Len(digits)] ==
        IF n = 0 THEN 0 ELSE value[n - 1] * base + digits[n]
  IN  value
Denotes(base, digits) == ValueUpTo(base, digits)[Len(digits)]

IsDecimal(text) == \A i \in DOMAIN text : text[i] \in 0..(Radix - 1)
Capacity256     == Denotes(Byte, MaxWord)
Fits(text)      == IsDecimal(text) /\ Denotes(Radix, text) <= Capacity256
=============================================================================
