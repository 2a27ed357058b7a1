------------------------------ MODULE BigNumbers ------------------------------
(***************************************************************************)
(* Numbers as sequences of bytes or digits, low ones first: the integers   *)
(* of 128 bits for a build without them (ABIEOS_NO_INT128; abieos.hpp,     *)
(* abieos_numeric.hpp) and what base 58 shares with them.  WideBytes is    *)
(* the size of such an integer, 16 in the code.                            *)
(***************************************************************************)
EXTENDS Decimal

CONSTANT WideBytes

ASSUME WideAssumption == WideBytes \in Nat \ {0}

(* number * factor + carry in a base, and the carry out. *)
MultiplyAdd(number, base, factor, carry) ==
    LET Next(acc, d) ==
            [digits |-> Append(acc.digits, (d * factor + acc.carry) % base),
             carry  |-> (d * factor + acc.carry) \div base]
    IN  FoldLeft(Next, [digits |-> <<>>, carry |-> carry], number)

(* The carry out of a byte may take more than one digit. *)
CarryDigits(carry, base) ==
    LET n == CHOOSE k \in 0 .. 8 : carry < base ^ k /\ (k = 0 \/ carry >= base ^ (k - 1))
    IN  [i \in 1 .. n |-> (carry \div base ^ (i - 1)) % base]

----------------------------------------------------------------------------
is_negative(a) == a[Len(a)] >= 128

negate(a) ==
    LET Next(acc, b) ==
            [bytes |-> Append(acc.bytes, (255 - b + acc.carry) % 256),
             carry |-> (255 - b + acc.carry) \div 256]
    IN  FoldLeft(Next, [bytes |-> <<>>, carry |-> 1], a).bytes

(* A carry out of the highest byte refuses the number.  No digits are 0. *)
decimal_to_binary(text) ==
    LET Consume(results, c) ==
            UNION {LET r == MultiplyAdd(bytes, 256, 10, Digit(c))
                   IN  IF r.carry = 0 THEN {r.digits} ELSE {} : bytes \in results}
    IN  IF Run(text, IsDigit) # text THEN {}
        ELSE FoldLeft(Consume, {[i \in 1 .. WideBytes |-> 0]}, text)

binary_to_decimal(bytes) ==
    LET Consume(byte, digits) ==
            LET r == MultiplyAdd(digits, 10, 256, byte)
            IN  r.digits \o CarryDigits(r.carry, 10)
        digits == Reverse(FoldRight(Consume, bytes, <<0>>))
    IN  [i \in 1 .. Len(digits) |-> Digits[digits[i] + 1]]

uint128_from_json(text) == decimal_to_binary(text)

(* The sign is looked at after the number is read, and negated: -0 is no   *)
(* negative number, and refused.                                           *)
int128_from_json(text) ==
    IF text # <<>> /\ text[1] = "-"
    THEN {a \in {negate(b) : b \in decimal_to_binary(Tail(text))} : is_negative(a)}
    ELSE {a \in decimal_to_binary(text) : ~is_negative(a)}

int128_to_json(a) ==
    IF is_negative(a) THEN <<"-">> \o binary_to_decimal(negate(a)) ELSE binary_to_decimal(a)
===============================================================================
