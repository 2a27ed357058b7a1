--------------------------- MODULE AssetArithmetic ---------------------------
(***************************************************************************)
(* asset and extended_asset as objects in memory (asset.hpp): a step is    *)
(* one call of a constructor, a setter, a reader or an operator.  An       *)
(* object holds its amount, its symbol and its contract; the operators of  *)
(* asset look at the first two, those of extended_asset at the contract    *)
(* first.  An operator that throws ends the call, and a caller that        *)
(* catches goes on with the objects as they are then.                      *)
(*                                                                         *)
(* MaxAmount is max_amount, 2^62 - 1 in the code, and the 64-bit integers  *)
(* reach twice as far.                                                     *)
(***************************************************************************)
EXTENDS Integers

CONSTANTS
    MaxAmount, Symbols, ValidSymbols, Contracts, Objects,
    Numbers     \* bound of the model: the numbers a caller passes or a text holds

ASSUME AssetObjectAssumption ==
    /\ MaxAmount \in Nat
    /\ ValidSymbols \subseteq Symbols
    /\ Numbers \subseteq -2 * (MaxAmount + 1) .. 2 * (MaxAmount + 1) - 1

VARIABLES
    object,     \* the amount, symbol and contract of each object
    unchecked,  \* the objects whose amount no check has seen, or computed from one
    thrown,     \* how the last call ended: "none", an error, or "trap"
    exact       \* history: what the amounts of the others are without a width

vars == <<object, unchecked, thrown, exact>>

----------------------------------------------------------------------------
Half   == 2 * (MaxAmount + 1)
Int64  == -Half .. Half - 1
InRange(a) == -MaxAmount <= a /\ a <= MaxAmount

Assets == [amount : Int64, symbol : Symbols, contract : Contracts]
Errors == {"none", "range", "invalid_symbol", "different_symbol", "type_mismatch",
           "divide_by_zero", "division_overflow", "trap"}

TypeOK ==
    /\ object \in [Objects -> Assets]
    /\ unchecked \subseteq Objects
    /\ thrown \in Errors
    /\ exact \in [Objects -> Int]

Init ==
    /\ object \in [Objects -> [amount : {0}, symbol : Symbols, contract : Contracts]]
    /\ unchecked = {}
    /\ thrown = "none"
    /\ exact = [o \in Objects |-> 0]

(* What an operation on 64-bit integers may give: signed overflow is       *)
(* undefined, so that beyond their range it is any of them.                *)
Outcomes(n) == IF n \in Int64 THEN {n} ELSE Int64

Abs(n) == IF n < 0 THEN -n ELSE n

(* Division in C++ truncates. *)
Quotient(a, b) ==
    IF (a < 0) = (b < 0) THEN Abs(a) \div Abs(b) ELSE -(Abs(a) \div Abs(b))

Amount(o) == object[o].amount
SameSymbol(o, p) == object[o].symbol = object[p].symbol
SameContract(o, p) == object[o].contract = object[p].contract

Throw(e) == thrown' = e /\ UNCHANGED <<object, unchecked, exact>>

(* x becomes this asset, computed from the objects used; without a width   *)
(* its amount is n.                                                        *)
Checked(x, asset, n) ==
    /\ object' = [object EXCEPT ![x] = asset]
    /\ unchecked' = unchecked \ {x}
    /\ exact' = [exact EXCEPT ![x] = n]

Unchecked(x, asset) ==
    /\ object' = [object EXCEPT ![x] = asset]
    /\ unchecked' = unchecked \cup {x}
    /\ exact' = [exact EXCEPT ![x] = asset.amount]

Assign(x, asset, used, n) ==
    /\ thrown' = "none"
    /\ IF used \cap unchecked = {} THEN Checked(x, asset, n) ELSE Unchecked(x, asset)

(* The asset of o with another amount. *)
WithAmount(o, a) == [object[o] EXCEPT !.amount = a]

(* What x is with a result of the amount a and the symbol of o: operators  *)
(* of asset leave the contract of x alone.                                 *)
Result(x, o, a, extended) ==
    IF extended THEN WithAmount(o, a)
    ELSE [object[x] EXCEPT !.amount = a, !.symbol = object[o].symbol]

----------------------------------------------------------------------------
(* asset(int64_t, symbol) checks what it stored; an object whose           *)
(* constructor throws does not come to be, and the old one stays.          *)
Construct(x, asset) ==
    IF ~InRange(asset.amount) THEN Throw("range")
    ELSE IF asset.symbol \notin ValidSymbols THEN Throw("invalid_symbol")
    ELSE Assign(x, asset, {}, asset.amount)

(* from_bin and from_json fill the members, with no check of either. *)
ReadMembers(x, asset) == Unchecked(x, asset) /\ thrown' = "none"

(* The amount is stored and then checked: a caller that catches the error  *)
(* is left with it.                                                        *)
StoreThenCheck(x, a, used, n) ==
    IF InRange(a) THEN Assign(x, WithAmount(x, a), used, n)
    ELSE Unchecked(x, WithAmount(x, a)) /\ thrown' = "range"

SetAmount(x, a) == StoreThenCheck(x, a, {}, a)

(* operator+= and operator-= of asset, and of extended_asset (extended).   *)
(* Of two objects that are the same, both amounts are read first.          *)
AddAssign(x, o, extended) ==
    IF extended /\ ~SameContract(x, o) THEN Throw("type_mismatch")
    ELSE IF ~SameSymbol(x, o) THEN Throw("different_symbol")
    ELSE \E a \in Outcomes(Amount(x) + Amount(o)) :
             StoreThenCheck(x, a, {x, o}, exact[x] + exact[o])

SubtractAssign(x, o, extended) ==
    IF extended /\ ~SameContract(x, o) THEN Throw("type_mismatch")
    ELSE IF ~SameSymbol(x, o) THEN Throw("different_symbol")
    ELSE \E a \in Outcomes(Amount(x) - Amount(o)) :
             StoreThenCheck(x, a, {x, o}, exact[x] - exact[o])

(* operator+ and operator- work on a copy of the left operand: what is     *)
(* out of range is gone with it.  The result is assigned to x.             *)
Add(x, o, p, extended) ==
    IF extended /\ ~SameContract(o, p) THEN Throw("type_mismatch")
    ELSE IF ~SameSymbol(o, p) THEN Throw("different_symbol")
    ELSE \E sum \in Outcomes(Amount(o) + Amount(p)) :
             IF ~InRange(sum) THEN Throw("range")
             ELSE Assign(x, Result(x, o, sum, extended), {o, p}, exact[o] + exact[p])

Subtract(x, o, p, extended) ==
    IF extended /\ ~SameContract(o, p) THEN Throw("type_mismatch")
    ELSE IF ~SameSymbol(o, p) THEN Throw("different_symbol")
    ELSE \E difference \in Outcomes(Amount(o) - Amount(p)) :
             IF ~InRange(difference) THEN Throw("range")
             ELSE Assign(x, Result(x, o, difference, extended), {o, p}, exact[o] - exact[p])

(* Faulty: the least integer is not thought of. *)
NegateUnbounded(x, o, extended) ==
    Assign(x, Result(x, o, -Amount(o), extended), {o}, -exact[o])

(* The unary minus checks nothing: the result is in range if the operand   *)
(* is, and the least integer has no negative.                              *)
Negate(x, o, extended) ==
    \E a \in Outcomes(-Amount(o)) : Assign(x, Result(x, o, a, extended), {o}, -exact[o])

(* Faulty: the product is taken in 64 bits. *)
MultiplyShort(x, o, n) ==
    \E a \in Outcomes(Amount(o) * n) :
        IF ~InRange(a) THEN Throw("range")
        ELSE Assign(x, Result(x, o, a, FALSE), {}, Amount(o) * n)

(* Faulty: the product is stored, cut to 64 bits, before it is checked. *)
Cut(n) == ((n + Half) % (2 * Half)) - Half

MultiplyStoreFirst(x, o, n) ==
    IF InRange(Amount(o) * n)
    THEN Assign(x, Result(x, o, Amount(o) * n, FALSE), {}, Amount(o) * n)
    ELSE Unchecked(x, Result(x, o, Cut(Amount(o) * n), FALSE)) /\ thrown' = "range"

(* The product is taken in 128 bits and stored only if in range.  With     *)
(* x = o this is operator*=.                                               *)
Multiply(x, o, n) ==
    IF ~InRange(Amount(o) * n) THEN Throw("range")
    ELSE Assign(x, Result(x, o, Amount(o) * n, FALSE), {}, Amount(o) * n)

(* With x = o this is operator/=.  It checks no range either. *)
Divide(x, o, n) ==
    IF n = 0 THEN Throw("divide_by_zero")
    ELSE IF Amount(o) = -Half /\ n = -1 THEN Throw("division_overflow")
    ELSE Assign(x, Result(x, o, Quotient(Amount(o), n), FALSE), {o}, Quotient(exact[o], n))

(* The quotient of two assets is a number, which is not kept here; the     *)
(* least integer divided by -1 is an overflow that may trap.               *)
Ratio(o, p) ==
    IF Amount(p) = 0 THEN Throw("divide_by_zero")
    ELSE IF ~SameSymbol(o, p) THEN Throw("different_symbol")
    ELSE \/ Throw("none")
         \/ Amount(o) = -Half /\ Amount(p) = -1 /\ Throw("trap")

(* All comparisons check the symbol; those of order of extended_asset the  *)
(* contract before, but not its equality.                                  *)
Compare(o, p, extended, order) ==
    Throw(IF extended /\ order /\ ~SameContract(o, p) THEN "type_mismatch"
          ELSE IF ~SameSymbol(o, p) THEN "different_symbol"
          ELSE "none")

Inputs == [amount : Numbers, symbol : Symbols, contract : Contracts]

Call ==
    \/ \E x \in Objects, asset \in Inputs : Construct(x, asset) \/ ReadMembers(x, asset)
    \/ \E x \in Objects, a \in Numbers : SetAmount(x, a)
    \/ \E x, o \in Objects, extended \in BOOLEAN :
           \/ AddAssign(x, o, extended) \/ SubtractAssign(x, o, extended)
           \/ Negate(x, o, extended)
    \/ \E x, o, p \in Objects, extended \in BOOLEAN :
           Add(x, o, p, extended) \/ Subtract(x, o, p, extended)
    \/ \E x, o \in Objects, n \in Numbers : Multiply(x, o, n) \/ Divide(x, o, n)
    \/ \E o, p \in Objects : Ratio(o, p)
    \/ \E o, p \in Objects, extended, order \in BOOLEAN : Compare(o, p, extended, order)

(* A trap ends the program. *)
Trapped == thrown = "trap" /\ UNCHANGED vars

Next == (thrown # "trap" /\ Call) \/ Trapped

Spec == Init /\ [][Next]_vars

----------------------------------------------------------------------------
(***************************************************************************)
(* An object that no reader filled and no failed call wrote, and that was  *)
(* computed from no such one, is in the range that asset.hpp:38 caps       *)
(* amounts to and holds the exact result of the operators applied, though  *)
(* minus and division check no range and sums are taken in 64 bits before  *)
(* they are checked: the cap of 2^62 - 1 rules out that a sum of theirs    *)
(* overflows.  (One with an unchecked operand may, and give any amount.)   *)
(***************************************************************************)
CheckedIsExact ==
    \A o \in Objects \ unchecked : InRange(Amount(o)) /\ Amount(o) = exact[o]

(***************************************************************************)
(* A call that throws leaves every object as it was, or out of range, so   *)
(* that is_valid() tells: never with another amount that looks right.      *)
(* (+=, -= and set_amount store before they check, *= and /= only after.)  *)
(***************************************************************************)
FailureIsVisible ==
    [][thrown' # "none" =>
          \A o \in Objects :
              object'[o] # object[o] =>
                  /\ object'[o].symbol = object[o].symbol
                  /\ ~InRange(object'[o].amount)
                  /\ o \in unchecked']_vars
==============================================================================
