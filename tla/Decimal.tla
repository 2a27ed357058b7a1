------------------------------- MODULE Decimal -------------------------------
(***************************************************************************)
(* Integers in text: from_json_int (from_json.hpp) and int_to_decimal      *)
(* (to_json.hpp).  A type is its width and signedness, a text the sequence *)
(* of its characters.  A reader gives the set of values it may yield:      *)
(* empty when it refuses the text.                                         *)
(***************************************************************************)
EXTENDS Integers, Sequences, SequencesExt

Digits == <<"0", "1", "2", "3", "4", "5", "6", "7", "8", "9">>

IsDigit(c) == \E i \in 1 .. 10 : Digits[i] = c
Digit(c) == (CHOOSE i \in 1 .. 10 : Digits[i] = c) - 1

IntType(bits, signed) == [bits |-> bits, signed |-> signed]
Lowest(T) == IF T.signed THEN -(2 ^ (T.bits - 1)) ELSE 0
Highest(T) == IF T.signed THEN 2 ^ (T.bits - 1) - 1 ELSE 2 ^ T.bits - 1

(* The division of C++: towards zero. *)
Quotient(a, b) == IF a >= 0 THEN a \div b ELSE -((-a) \div b)

(* The characters at the start of text that satisfy Is. *)
Run(text, Is(_)) ==
    LET n == CHOOSE k \in 0 .. Len(text) :
                 /\ \A i \in 1 .. k : Is(text[i])
                 /\ k < Len(text) => ~Is(text[k + 1])
    IN  SubSeq(text, 1, n)

After(text, run) == SubSeq(text, Len(run) + 1, Len(text))

(* Faulty: the limit of the positive numbers serves for the negative ones. *)
OutOfRangeOneSided(T, negative, result, digit) ==
    IF T.signed
    THEN Quotient(-Highest(T) + digit, 10) > (IF negative THEN result ELSE -result)
    ELSE (Highest(T) - digit) \div 10 < result

(* Would taking this digit lead out of the range?  Negative numbers are    *)
(* built downwards; the test divides the limit instead of multiplying.     *)
OutOfRange(T, negative, result, digit) ==
    IF T.signed
    THEN LET sign == IF negative THEN -1 ELSE 1
             limit == IF negative THEN Lowest(T) ELSE Highest(T)
         IN  Quotient(-sign * limit + digit, 10) > -sign * result
    ELSE (Highest(T) - digit) \div 10 < result

from_json_int(T, text) ==
    LET negative == T.signed /\ text # <<>> /\ text[1] = "-"
        number   == IF negative THEN Tail(text) ELSE text
        digits   == Run(number, IsDigit)
        Take(acc, c) ==
            IF acc = {} THEN {}
            ELSE LET result == CHOOSE r \in acc : TRUE
                 IN  IF OutOfRange(T, negative, result, Digit(c)) THEN {}
                     ELSE {result * 10 + (IF negative THEN -Digit(c) ELSE Digit(c))}
    IN  IF digits = number /\ digits # <<>> THEN FoldLeft(Take, {0}, digits) ELSE {}

int_to_decimal(value) ==
    LET size == IF value < 0 THEN -value ELSE value
        n    == CHOOSE k \in 1 .. 10 : size < 10 ^ k /\ (k = 1 \/ size >= 10 ^ (k - 1))
    IN  (IF value < 0 THEN <<"-">> ELSE <<>>)
        \o [i \in 1 .. n |-> Digits[((size \div 10 ^ (n - i)) % 10) + 1]]
=============================================================================
