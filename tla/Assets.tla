-------------------------------- MODULE Assets --------------------------------
(***************************************************************************)
(* Symbols and assets in text (chain_conversions.hpp).  A symbol code is   *)
(* the sequence of its letters, the bytes of the number low ones first, at *)
(* most CodeSize of them, 7 in the code.  An amount has AmountBits bits,   *)
(* 64 in the code, and wraps; a precision has eight.                       *)
(***************************************************************************)
EXTENDS Decimal

CONSTANTS Letters, CodeSize, AmountBits

ASSUME AssetAssumption == CodeSize \in Nat /\ AmountBits \in Nat \ {0}

IsSpace(c) == c = " "
IsLetter(c) == c \in Letters

string_to_symbol_code(text) ==
    LET rest == After(text, Run(text, IsSpace))
    IN  IF Run(rest, IsLetter) = rest /\ rest # <<>> /\ Len(rest) <= CodeSize
        THEN {rest}
        ELSE {}

string_to_symbol(text) ==
    LET digits == Run(text, IsDigit)
        rest   == After(text, digits)
        Take(precision, c) == (precision * 10 + Digit(c)) % 256
    IN  IF digits = <<>> \/ rest = <<>> \/ Head(rest) # "," THEN {}
        ELSE {[code |-> code, precision |-> FoldLeft(Take, 0, digits)] :
                  code \in string_to_symbol_code(Tail(rest))}

symbol_to_string(symbol) == int_to_decimal(symbol.precision) \o <<",">> \o symbol.code

(* A number of AmountBits bits, read as a signed one. *)
Signed(u) ==
    LET w == u % 2 ^ AmountBits
    IN  IF w >= 2 ^ (AmountBits - 1) THEN w - 2 ^ AmountBits ELSE w

(* No digit is required, and an amount that does not fit wraps. *)
string_to_asset(text) ==
    LET start    == After(text, Run(text, IsSpace))
        negative == start # <<>> /\ Head(start) = "-"
        number   == IF negative THEN Tail(start) ELSE start
        whole    == Run(number, IsDigit)
        point    == After(number, whole)
        dotted   == point # <<>> /\ Head(point) = "."
        fraction == IF dotted THEN Run(Tail(point), IsDigit) ELSE <<>>
        rest     == IF dotted THEN After(Tail(point), fraction) ELSE point
        Take(u, c) == (u * 10 + Digit(c)) % 2 ^ AmountBits
        uamount  == FoldLeft(Take, 0, whole \o fraction)
    IN  {[amount    |-> Signed(IF negative THEN -uamount ELSE uamount),
          code      |-> code,
          precision |-> Len(fraction) % 256] : code \in string_to_symbol_code(rest)}

(* The fraction has precision digits however small the amount, and at      *)
(* least one digit stands before the point.  Negating the least amount     *)
(* wraps to its own magnitude.                                             *)
asset_to_string(asset) ==
    LET uamount == IF asset.amount < 0 THEN -asset.amount ELSE asset.amount
        scale   == 10 ^ asset.precision
        decimal == int_to_decimal(scale + (uamount % scale))
    IN  (IF asset.amount < 0 THEN <<"-">> ELSE <<>>)
        \o int_to_decimal(uamount \div scale)
        \o (IF asset.precision = 0 THEN <<>> ELSE <<".">> \o Tail(decimal))
        \o <<" ">> \o asset.code
=============================================================================
