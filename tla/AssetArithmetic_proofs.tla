----------------------- MODULE AssetArithmetic_proofs -----------------------
(***************************************************************************)
(* Proofs about AssetArithmetic, for every cap, every set of objects and   *)
(* every set of numbers.                                                   *)
(***************************************************************************)
EXTENDS AssetArithmetic, TLAPS

USE AssetObjectAssumption

(* The cap leaves room in 64 bits, and the sum or difference of two        *)
(* amounts in range fits as well.                                          *)
LEMMA RangeFits ==
    /\ Half \in Nat \ {0}
    /\ \A a \in Int : InRange(a) => a \in Int64
    /\ \A a, b \in Int : InRange(a) /\ InRange(b) =>
          a + b \in Int64 /\ a - b \in Int64 /\ -a \in Int64
BY DEF Half, Int64, InRange

(* What an operation gives is a 64-bit integer, and the exact one if that  *)
(* is one.                                                                 *)
LEMMA OutcomesFit ==
    ASSUME NEW n \in Int, NEW a \in Outcomes(n)
    PROVE  a \in Int64 /\ (n \in Int64 => a = n)
BY DEF Outcomes

(* A quotient is no larger than the dividend, and at most half of it if    *)
(* the divisor is not 1.                                                   *)
LEMMA DivisionShrinks ==
    ASSUME NEW a \in Nat, NEW b \in Nat \ {0}
    PROVE  /\ a \div b \in 0 .. a
           /\ b > 1 => 2 * (a \div b) <= a
<1> DEFINE q == a \div b
<1>1. q \in Int /\ b * q <= a /\ a < b * q + b
    OBVIOUS
<1> HIDE DEF q
<1>2. q >= 0
    <2>1. SUFFICES ASSUME q <= -1 PROVE FALSE
        BY <1>1
    <2>2. b * q <= b * (-1)
        BY <1>1, <2>1
    <2> QED BY <1>1, <2>2
<1>3. b * q >= q
    BY <1>1, <1>2
<1>4. b > 1 => b * q >= 2 * q
    BY <1>1, <1>2
<1> QED BY <1>1, <1>2, <1>3, <1>4 DEF q

(* The quotient of C++ stays in any range that reaches as far below zero   *)
(* as above, and in 64 bits but for the one case the code refuses.         *)
LEMMA QuotientFits ==
    ASSUME NEW a \in Int, NEW b \in Int, b # 0
    PROVE  /\ Quotient(a, b) \in Int
           /\ InRange(a) => InRange(Quotient(a, b))
           /\ a \in Int64 /\ ~(a = -Half /\ b = -1) => Quotient(a, b) \in Int64
<1> DEFINE q == Abs(a) \div Abs(b)
<1>1. Abs(a) \in Nat /\ Abs(b) \in Nat \ {0}
    BY DEF Abs
<1>2. q \in 0 .. Abs(a) /\ (Abs(b) > 1 => 2 * q <= Abs(a))
    BY <1>1, DivisionShrinks
<1>3. Quotient(a, b) = IF (a < 0) = (b < 0) THEN q ELSE -q
    BY DEF Quotient
<1> HIDE DEF q
<1>4. Quotient(a, b) \in Int /\ (InRange(a) => InRange(Quotient(a, b)))
    BY <1>1, <1>2, <1>3 DEF InRange, Abs
<1>5. ASSUME a \in Int64, ~(a = -Half /\ b = -1)
      PROVE  Quotient(a, b) \in Int64
    BY <1>1, <1>2, <1>3, <1>5, RangeFits DEF Int64, Abs
<1> QED BY <1>4, <1>5

----------------------------------------------------------------------------
(* What every call does, seen from the two properties: it leaves the       *)
(* objects alone; or it gives one a typed asset that is exact and in range *)
(* if what it was computed from was; or it fails and leaves one out of     *)
(* range.                                                                  *)
Kept == UNCHANGED <<object, unchecked, exact>>

Computed(x) ==
    \E asset \in Assets, used \in SUBSET Objects, n \in Int :
        /\ Assign(x, asset, used, n)
        /\ (\A o \in used : InRange(Amount(o)) /\ Amount(o) = exact[o]) =>
              InRange(asset.amount) /\ asset.amount = n

Filled(x) ==
    \E asset \in Assets : Unchecked(x, asset) /\ thrown' = "none"

Spoilt(x) ==
    \E asset \in Assets :
        /\ Unchecked(x, asset)
        /\ thrown' = "range"
        /\ asset.symbol = object[x].symbol
        /\ ~InRange(asset.amount)

Summary ==
    \/ Kept /\ thrown' \in Errors
    \/ \E x \in Objects : Computed(x) \/ Filled(x) \/ Spoilt(x)

LEMMA ThrowSummary ==
    ASSUME NEW e \in Errors, Throw(e)
    PROVE  Summary
BY DEF Throw, Summary, Kept

LEMMA AssignSummary ==
    ASSUME NEW x \in Objects, NEW asset \in Assets, NEW used \in SUBSET Objects, NEW n \in Int,
           Assign(x, asset, used, n),
           (\A o \in used : InRange(Amount(o)) /\ Amount(o) = exact[o]) =>
              InRange(asset.amount) /\ asset.amount = n
    PROVE  Summary
BY DEF Computed, Summary

(* The objects an operator makes out of others are typed. *)
LEMMA ResultsFit ==
    ASSUME TypeOK, NEW x \in Objects, NEW o \in Objects, NEW a \in Int64,
           NEW extended \in BOOLEAN
    PROVE  /\ WithAmount(o, a) \in Assets /\ WithAmount(o, a).amount = a
           /\ WithAmount(o, a).symbol = object[o].symbol
           /\ Result(x, o, a, extended) \in Assets /\ Result(x, o, a, extended).amount = a
BY DEF TypeOK, WithAmount, Result, Assets

LEMMA StoreSummary ==
    ASSUME TypeOK, NEW x \in Objects, NEW a \in Int64, NEW used \in SUBSET Objects,
           NEW n \in Int, StoreThenCheck(x, a, used, n),
           (\A o \in used : InRange(Amount(o)) /\ Amount(o) = exact[o]) /\ InRange(a) => a = n
    PROVE  Summary
<1> DEFINE asset == WithAmount(x, a)
<1>1. asset \in Assets /\ asset.amount = a /\ asset.symbol = object[x].symbol
    BY ResultsFit
<1> HIDE DEF asset
<1>2. CASE InRange(a)
    <2>1. Assign(x, asset, used, n)
        BY <1>2 DEF StoreThenCheck, asset
    <2> QED BY <1>1, <1>2, <2>1, AssignSummary
<1>3. CASE ~InRange(a)
    <2>1. Unchecked(x, asset) /\ thrown' = "range"
        BY <1>3 DEF StoreThenCheck, asset
    <2> QED BY <1>1, <1>3, <2>1 DEF Summary, Spoilt
<1> QED BY <1>2, <1>3

----------------------------------------------------------------------------
(* The amounts and histories of a typed state are numbers. *)
LEMMA Typed ==
    ASSUME TypeOK, NEW o \in Objects
    PROVE  /\ Amount(o) \in Int64 /\ Amount(o) \in Int /\ exact[o] \in Int
           /\ object[o] \in Assets
BY RangeFits DEF TypeOK, Amount, Assets, Int64

(* A sum, difference or negative is exact for operands in range. *)
LEMMA SumFits ==
    ASSUME TypeOK, NEW o \in Objects, NEW p \in Objects
    PROVE  /\ \A a \in Outcomes(Amount(o) + Amount(p)) :
                 a \in Int64 /\ (InRange(Amount(o)) /\ InRange(Amount(p)) => a = Amount(o) + Amount(p))
           /\ \A a \in Outcomes(Amount(o) - Amount(p)) :
                 a \in Int64 /\ (InRange(Amount(o)) /\ InRange(Amount(p)) => a = Amount(o) - Amount(p))
           /\ \A a \in Outcomes(-Amount(o)) :
                 a \in Int64 /\ (InRange(Amount(o)) => a = -Amount(o) /\ InRange(a))
           /\ exact[o] + exact[p] \in Int /\ exact[o] - exact[p] \in Int /\ -exact[o] \in Int
<1>1. /\ Amount(o) \in Int /\ Amount(p) \in Int
      /\ exact[o] \in Int /\ exact[p] \in Int
    BY Typed
<1>2. ASSUME NEW b \in Int, NEW c \in Int
      PROVE  /\ \A a \in Outcomes(b + c) :
                   a \in Int64 /\ (InRange(b) /\ InRange(c) => a = b + c)
             /\ \A a \in Outcomes(b - c) :
                   a \in Int64 /\ (InRange(b) /\ InRange(c) => a = b - c)
             /\ \A a \in Outcomes(-b) :
                   a \in Int64 /\ (InRange(b) => a = -b /\ InRange(a))
    <2>1. b + c \in Int /\ b - c \in Int /\ -b \in Int
        OBVIOUS
    <2>2. InRange(b) => InRange(-b)
        BY DEF InRange
    <2> QED BY <2>1, <2>2, RangeFits, OutcomesFit
<1> QED BY <1>1, <1>2

(* Every call is of one of the four shapes. *)
LEMMA CallSummary ==
    ASSUME TypeOK, Call
    PROVE  Summary
<1>0. Numbers \subseteq Int64 /\ Int64 \subseteq Int
    BY RangeFits DEF Int64, Half
<1>1. ASSUME NEW x \in Objects, NEW asset \in Inputs, Construct(x, asset)
      PROVE  Summary
    <2>1. asset \in Assets /\ asset.amount \in Int
        BY <1>0 DEF Inputs, Assets
    <2>2. CASE Throw("range") \/ Throw("invalid_symbol")
        BY <2>2, ThrowSummary DEF Errors
    <2>3. CASE InRange(asset.amount) /\ Assign(x, asset, {}, asset.amount)
        BY <2>1, <2>3, AssignSummary
    <2> QED BY <1>1, <2>2, <2>3 DEF Construct
<1>2. ASSUME NEW x \in Objects, NEW asset \in Inputs, ReadMembers(x, asset)
      PROVE  Summary
    BY <1>0, <1>2 DEF ReadMembers, Summary, Filled, Inputs, Assets
<1>3. ASSUME NEW x \in Objects, NEW a \in Numbers, SetAmount(x, a)
      PROVE  Summary
    BY <1>0, <1>3, StoreSummary DEF SetAmount
<1>4. ASSUME NEW x \in Objects, NEW o \in Objects, NEW extended \in BOOLEAN,
             AddAssign(x, o, extended)
      PROVE  Summary
    <2> DEFINE n == exact[x] + exact[o]
    <2>3. ASSUME NEW a \in Outcomes(Amount(x) + Amount(o)), StoreThenCheck(x, a, {x, o}, n)
          PROVE  Summary
        <3>1. a \in Int64 /\ n \in Int
            BY SumFits
        <3>2. (\A z \in {x, o} : InRange(Amount(z)) /\ Amount(z) = exact[z]) => a = n
            BY SumFits
        <3> HIDE DEF n
        <3> QED BY <2>3, <3>1, <3>2, StoreSummary
    <2>4. CASE Throw("type_mismatch") \/ Throw("different_symbol")
        BY <2>4, ThrowSummary DEF Errors
    <2> QED BY <1>4, <2>3, <2>4 DEF AddAssign
<1>5. ASSUME NEW x \in Objects, NEW o \in Objects, NEW extended \in BOOLEAN,
             SubtractAssign(x, o, extended)
      PROVE  Summary
    <2> DEFINE n == exact[x] - exact[o]
    <2>3. ASSUME NEW a \in Outcomes(Amount(x) - Amount(o)), StoreThenCheck(x, a, {x, o}, n)
          PROVE  Summary
        <3>1. a \in Int64 /\ n \in Int
            BY SumFits
        <3>2. (\A z \in {x, o} : InRange(Amount(z)) /\ Amount(z) = exact[z]) => a = n
            BY SumFits
        <3> HIDE DEF n
        <3> QED BY <2>3, <3>1, <3>2, StoreSummary
    <2>4. CASE Throw("type_mismatch") \/ Throw("different_symbol")
        BY <2>4, ThrowSummary DEF Errors
    <2> QED BY <1>5, <2>3, <2>4 DEF SubtractAssign
<1>6. ASSUME NEW x \in Objects, NEW o \in Objects, NEW extended \in BOOLEAN,
             Negate(x, o, extended)
      PROVE  Summary
    <2>0. PICK a \in Outcomes(-Amount(o)) :
              Assign(x, Result(x, o, a, extended), {o}, -exact[o])
        BY <1>6 DEF Negate
    <2> DEFINE asset == Result(x, o, a, extended)
    <2>1. a \in Int64 /\ -exact[o] \in Int
        BY SumFits
    <2>2. asset \in Assets /\ asset.amount = a
        BY <2>1, ResultsFit
    <2>3. (\A z \in {o} : InRange(Amount(z)) /\ Amount(z) = exact[z]) =>
              InRange(a) /\ a = -exact[o]
        BY SumFits
    <2>4. Assign(x, asset, {o}, -exact[o])
        BY <2>0
    <2> HIDE DEF asset
    <2> QED BY <2>1, <2>2, <2>3, <2>4, AssignSummary
<1>7. ASSUME NEW x \in Objects, NEW o \in Objects, NEW p \in Objects, NEW extended \in BOOLEAN,
             Add(x, o, p, extended)
      PROVE  Summary
    <2> DEFINE n == exact[o] + exact[p]
    <2>4. ASSUME NEW a \in Outcomes(Amount(o) + Amount(p)), InRange(a),
                 Assign(x, Result(x, o, a, extended), {o, p}, n)
          PROVE  Summary
        <3> DEFINE asset == Result(x, o, a, extended)
        <3>1. a \in Int64 /\ n \in Int
            BY SumFits
        <3>2. asset \in Assets /\ asset.amount = a
            BY <3>1, ResultsFit
        <3>3. (\A z \in {o, p} : InRange(Amount(z)) /\ Amount(z) = exact[z]) => a = n
            BY SumFits
        <3>4. Assign(x, asset, {o, p}, n)
            BY <2>4
        <3> HIDE DEF n, asset
        <3> QED BY <2>4, <3>1, <3>2, <3>3, <3>4, AssignSummary
    <2>5. CASE Throw("type_mismatch") \/ Throw("different_symbol") \/ Throw("range")
        BY <2>5, ThrowSummary DEF Errors
    <2> QED BY <1>7, <2>4, <2>5 DEF Add
<1>8. ASSUME NEW x \in Objects, NEW o \in Objects, NEW p \in Objects, NEW extended \in BOOLEAN,
             Subtract(x, o, p, extended)
      PROVE  Summary
    <2> DEFINE n == exact[o] - exact[p]
    <2>4. ASSUME NEW a \in Outcomes(Amount(o) - Amount(p)), InRange(a),
                 Assign(x, Result(x, o, a, extended), {o, p}, n)
          PROVE  Summary
        <3> DEFINE asset == Result(x, o, a, extended)
        <3>1. a \in Int64 /\ n \in Int
            BY SumFits
        <3>2. asset \in Assets /\ asset.amount = a
            BY <3>1, ResultsFit
        <3>3. (\A z \in {o, p} : InRange(Amount(z)) /\ Amount(z) = exact[z]) => a = n
            BY SumFits
        <3>4. Assign(x, asset, {o, p}, n)
            BY <2>4
        <3> HIDE DEF n, asset
        <3> QED BY <2>4, <3>1, <3>2, <3>3, <3>4, AssignSummary
    <2>5. CASE Throw("type_mismatch") \/ Throw("different_symbol") \/ Throw("range")
        BY <2>5, ThrowSummary DEF Errors
    <2> QED BY <1>8, <2>4, <2>5 DEF Subtract
<1>9. ASSUME NEW x \in Objects, NEW o \in Objects, NEW m \in Numbers, Multiply(x, o, m)
      PROVE  Summary
    <2> DEFINE a == Amount(o) * m  asset == Result(x, o, a, FALSE)
    <2>1. a \in Int
        BY <1>0, Typed
    <2>2. CASE Throw("range")
        BY <2>2, ThrowSummary DEF Errors
    <2>3. CASE InRange(a) /\ Assign(x, asset, {}, a)
        <3>1. a \in Int64
            BY <2>1, <2>3, RangeFits
        <3>2. asset \in Assets /\ asset.amount = a
            BY <3>1, ResultsFit
        <3> HIDE DEF a, asset
        <3> QED BY <2>1, <2>3, <3>2, AssignSummary
    <2> QED BY <1>9, <2>2, <2>3 DEF Multiply
<1>10. ASSUME NEW x \in Objects, NEW o \in Objects, NEW m \in Numbers, Divide(x, o, m)
      PROVE  Summary
    <2> DEFINE a == Quotient(Amount(o), m)  n == Quotient(exact[o], m)
               asset == Result(x, o, a, FALSE)
    <2>1. CASE Throw("divide_by_zero") \/ Throw("division_overflow")
        BY <2>1, ThrowSummary DEF Errors
    <2>2. CASE m # 0 /\ ~(Amount(o) = -Half /\ m = -1) /\ Assign(x, asset, {o}, n)
        <3>1. Amount(o) \in Int64 /\ Amount(o) \in Int /\ exact[o] \in Int /\ m \in Int
            BY <1>0, Typed
        <3>2. a \in Int64 /\ n \in Int /\ (InRange(Amount(o)) => InRange(a))
            BY <2>2, <3>1, QuotientFits
        <3>3. asset \in Assets /\ asset.amount = a
            BY <3>2, ResultsFit
        <3>4. (\A z \in {o} : InRange(Amount(z)) /\ Amount(z) = exact[z]) => InRange(a) /\ a = n
            BY <3>2
        <3> HIDE DEF a, n, asset
        <3> QED BY <2>2, <3>2, <3>3, <3>4, AssignSummary
    <2> QED BY <1>10, <2>1, <2>2 DEF Divide
<1>11. ASSUME NEW o \in Objects, NEW p \in Objects, Ratio(o, p)
      PROVE  Summary
    BY <1>11, ThrowSummary DEF Ratio, Errors
<1>12. ASSUME NEW o \in Objects, NEW p \in Objects, NEW extended \in BOOLEAN,
              NEW order \in BOOLEAN, Compare(o, p, extended, order)
      PROVE  Summary
    BY <1>12, ThrowSummary DEF Compare, Errors
<1> QED BY <1>1, <1>2, <1>3, <1>4, <1>5, <1>6, <1>7, <1>8, <1>9, <1>10, <1>11, <1>12 DEF Call

----------------------------------------------------------------------------
LEMMA StepCases ==
    ASSUME TypeOK, Next
    PROVE  Summary \/ UNCHANGED vars
BY CallSummary DEF Next, Trapped

LEMMA ZeroFits == 0 \in Int64 /\ InRange(0)
BY RangeFits DEF InRange

LEMMA TypeInit ==
    ASSUME Init
    PROVE  TypeOK
BY ZeroFits DEF Init, TypeOK, Assets, Errors

LEMMA TypeNext ==
    ASSUME TypeOK, [Next]_vars
    PROVE  TypeOK'
<1>1. CASE UNCHANGED vars
    BY <1>1 DEF vars, TypeOK, Assets, Int64, Half, Errors
<1>2. CASE Summary
    <2>0. Assets' = Assets /\ Errors' = Errors
        BY DEF Assets, Int64, Half, Errors
    <2>1. CASE Kept /\ thrown' \in Errors
        BY <2>0, <2>1 DEF Kept, TypeOK
    <2>2. ASSUME NEW x \in Objects, Computed(x)
          PROVE  TypeOK'
        <3>1. PICK asset \in Assets, used \in SUBSET Objects, n \in Int :
                  Assign(x, asset, used, n)
            BY <2>2 DEF Computed
        <3>2. asset.amount \in Int
            BY RangeFits DEF Assets, Int64
        <3> QED BY <2>0, <3>1, <3>2 DEF Assign, Checked, Unchecked, TypeOK, Errors
    <2>3. ASSUME NEW x \in Objects, Filled(x) \/ Spoilt(x)
          PROVE  TypeOK'
        <3>1. PICK asset \in Assets :
                  Unchecked(x, asset) /\ thrown' \in {"none", "range"}
            BY <2>3 DEF Filled, Spoilt
        <3>2. asset.amount \in Int
            BY RangeFits DEF Assets, Int64
        <3> QED BY <2>0, <3>1, <3>2 DEF Unchecked, TypeOK, Errors
    <2> QED BY <1>2, <2>1, <2>2, <2>3 DEF Summary
<1> QED BY <1>1, <1>2, StepCases

(***************************************************************************)
(* Every amount stays a 64-bit integer and every error is one of those the *)
(* operators throw.                                                        *)
(***************************************************************************)
THEOREM TypeCorrect == Spec => []TypeOK
<1>1. Init => TypeOK
    BY TypeInit
<1>2. TypeOK /\ [Next]_vars => TypeOK'
    BY TypeNext
<1> QED BY <1>1, <1>2, PTL DEF Spec

LEMMA ExactNext ==
    ASSUME TypeOK, CheckedIsExact, [Next]_vars
    PROVE  CheckedIsExact'
<1>1. CASE UNCHANGED vars
    BY <1>1 DEF vars, CheckedIsExact, Amount, InRange
<1>2. CASE Summary
    <2>1. CASE Kept
        BY <2>1 DEF Kept, CheckedIsExact, Amount, InRange
    <2>2. ASSUME NEW x \in Objects, Computed(x)
          PROVE  CheckedIsExact'
        <3>1. PICK asset \in Assets, used \in SUBSET Objects, n \in Int :
                  /\ Assign(x, asset, used, n)
                  /\ (\A o \in used : InRange(Amount(o)) /\ Amount(o) = exact[o]) =>
                        InRange(asset.amount) /\ asset.amount = n
            BY <2>2 DEF Computed
        <3>2. CASE used \cap unchecked = {}
            <4>1. Checked(x, asset, n)
                BY <3>1, <3>2 DEF Assign
            <4>2. \A o \in used : InRange(Amount(o)) /\ Amount(o) = exact[o]
                BY <3>2 DEF CheckedIsExact
            <4>3. InRange(asset.amount) /\ asset.amount = n
                BY <3>1, <4>2
            <4>4. \A o \in Objects :
                      object'[o].amount = (IF o = x THEN asset.amount ELSE object[o].amount)
                BY <4>1 DEF Checked, TypeOK
            <4>5. \A o \in Objects : exact'[o] = (IF o = x THEN n ELSE exact[o])
                BY <4>1 DEF Checked, TypeOK
            <4>6. unchecked' = unchecked \ {x}
                BY <4>1 DEF Checked
            <4> QED BY <4>3, <4>4, <4>5, <4>6 DEF CheckedIsExact, Amount, InRange
        <3>3. CASE used \cap unchecked # {}
            <4>1. Unchecked(x, asset)
                BY <3>1, <3>3 DEF Assign
            <4> QED BY <4>1 DEF Unchecked, CheckedIsExact, Amount, InRange, TypeOK
        <3> QED BY <3>2, <3>3
    <2>3. ASSUME NEW x \in Objects, Filled(x) \/ Spoilt(x)
          PROVE  CheckedIsExact'
        <3>1. PICK asset \in Assets : Unchecked(x, asset)
            BY <2>3 DEF Filled, Spoilt
        <3> QED BY <3>1 DEF Unchecked, CheckedIsExact, Amount, InRange, TypeOK
    <2> QED BY <1>2, <2>1, <2>2, <2>3 DEF Summary
<1> QED BY <1>1, <1>2, StepCases

(***************************************************************************)
(* An amount computed by the operators alone, from amounts a constructor   *)
(* or set_amount accepted, is in range and exact, for every cap: sums are  *)
(* taken in twice the cap and so cannot overflow, products in a wider      *)
(* type, and quotients and negatives are no larger.                        *)
(***************************************************************************)
THEOREM AmountsExact == Spec => []CheckedIsExact
<1>1. Init => CheckedIsExact
    BY ZeroFits DEF Init, CheckedIsExact, Amount
<1>2. TypeOK /\ CheckedIsExact /\ [Next]_vars => CheckedIsExact'
    BY ExactNext
<1> QED BY <1>1, <1>2, TypeCorrect, PTL DEF Spec

(***************************************************************************)
(* A call that throws changes no object, or leaves one out of range.       *)
(***************************************************************************)
THEOREM FailuresVisible == Spec => FailureIsVisible
<1> DEFINE Visible ==
        thrown' # "none" =>
          \A o \in Objects :
              object'[o] # object[o] =>
                  /\ object'[o].symbol = object[o].symbol
                  /\ ~InRange(object'[o].amount)
                  /\ o \in unchecked'
<1>1. TypeOK /\ [Next]_vars => [Visible]_vars
    <2>1. SUFFICES ASSUME TypeOK, Next, thrown' # "none", NEW o \in Objects,
                          object'[o] # object[o]
                   PROVE  /\ object'[o].symbol = object[o].symbol
                          /\ ~InRange(object'[o].amount)
                          /\ o \in unchecked'
        OBVIOUS
    <2>2. PICK x \in Objects : Spoilt(x)
        BY <2>1, StepCases DEF Summary, Kept, Computed, Filled, Assign, vars
    <2>3. PICK asset \in Assets :
              /\ Unchecked(x, asset)
              /\ asset.symbol = object[x].symbol
              /\ ~InRange(asset.amount)
        BY <2>2 DEF Spoilt
    <2> QED BY <2>1, <2>3 DEF Unchecked, TypeOK
<1>2. Spec => [][Visible]_vars
    <2>1. Spec => []TypeOK /\ [][Next]_vars
        BY TypeCorrect, PTL DEF Spec
    <2> QED BY <1>1, <2>1, PTL
<1> QED BY <1>2 DEF FailureIsVisible
==============================================================================
