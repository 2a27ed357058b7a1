----------------------------- MODULE Values_proofs -----------------------------
(***************************************************************************)
(* Operators of the values.  The range test of from_json_int, for every    *)
(* width: the model checker reads numbers of eight bits, the code has      *)
(* types of up to 128; the dates of year_month_day, for every day; and the *)
(* bitsets, for every size.                                                *)
(***************************************************************************)
EXTENDS Decimal, Times, Bitsets, TLAPS

\* What result becomes when a digit is taken.
Extended(negative, result, digit) ==
    result * 10 + (IF negative THEN -digit ELSE digit)

\* Division by ten, towards zero, of a number of known sign.
LEMMA QuotientFacts ==
    ASSUME NEW a \in Nat
    PROVE  /\ Quotient(a, 10) = a \div 10
           /\ Quotient(-a, 10) = -(a \div 10)
           /\ a \div 10 \in Nat
           /\ 10 * (a \div 10) <= a
           /\ a < 10 * (a \div 10) + 10
  BY DEF Quotient

\* A limit and the size of a number on its way there: the test on the
\* quotient is the test on the next number.  A limit below the largest digit
\* would break it; the narrowest type has eight bits.
LEMMA SignedTest ==
    ASSUME NEW limit \in Nat, limit >= 9,
           NEW size \in Nat, size <= limit,
           NEW digit \in 0 .. 9
    PROVE  Quotient(-limit + digit, 10) > -size <=> size * 10 + digit > limit
  <1> DEFINE a == limit - digit
  <1>1. a \in Nat /\ -limit + digit = -a
    OBVIOUS
  <1> HIDE DEF a
  <1>2. limit = a + digit
    BY <1>1
  <1>3. Quotient(-limit + digit, 10) = -(a \div 10)
    BY <1>1, QuotientFacts
  <1>4. /\ a \div 10 \in Nat
        /\ 10 * (a \div 10) <= a
        /\ a < 10 * (a \div 10) + 10
    BY <1>1, QuotientFacts
  <1>5. a \div 10 < size <=> a < size * 10
    BY <1>1, <1>4
  <1>6. QED
    BY <1>1, <1>2, <1>3, <1>4, <1>5

(***************************************************************************)
(* from_json.hpp:405-411, for every width from eight bits up: if result is *)
(* in the range of the type and of the sign that was read, the test by     *)
(* division refuses a digit exactly if the number with that digit is not.  *)
(* half is 2 ^ (bits - 1).                                                 *)
(***************************************************************************)
THEOREM SignedRangeTest ==
    ASSUME NEW T, T.signed = TRUE,
           NEW half \in Nat, half >= 10, Lowest(T) = -half, Highest(T) = half - 1,
           NEW negative \in BOOLEAN,
           NEW result \in Lowest(T) .. Highest(T),
           IF negative THEN result <= 0 ELSE result >= 0,
           NEW digit \in 0 .. 9
    PROVE  OutOfRange(T, negative, result, digit)
           <=> Extended(negative, result, digit) \notin Lowest(T) .. Highest(T)
  <1>1. CASE negative
    <2> DEFINE size == -result
    <2>1. size \in Nat /\ size <= half /\ result = -size
      BY <1>1
    <2> HIDE DEF size
    <2>2. OutOfRange(T, negative, result, digit) <=> Quotient(-half + digit, 10) > -size
      BY <1>1, <2>1 DEF OutOfRange
    <2>3. Extended(negative, result, digit) = -(size * 10 + digit)
      BY <1>1, <2>1 DEF Extended
    <2>4. QED
      BY <2>1, <2>2, <2>3, SignedTest
  <1>2. CASE ~negative
    <2>1. result \in Nat /\ half - 1 \in Nat /\ half - 1 >= 9 /\ result <= half - 1
      BY <1>2
    <2>2. OutOfRange(T, negative, result, digit)
          <=> Quotient(-(half - 1) + digit, 10) > -result
      BY <1>2, <2>1 DEF OutOfRange
    <2>3. Extended(negative, result, digit) = result * 10 + digit
      BY <1>2, <2>1 DEF Extended
    <2>4. QED
      BY <2>1, <2>2, <2>3, SignedTest
  <1>3. QED
    BY <1>1, <1>2

(***************************************************************************)
(* The same for unsigned types, which have one limit and no sign.          *)
(***************************************************************************)
THEOREM UnsignedRangeTest ==
    ASSUME NEW T, T.signed = FALSE,
           NEW limit \in Nat, limit >= 9, Lowest(T) = 0, Highest(T) = limit,
           NEW result \in 0 .. limit,
           NEW digit \in 0 .. 9
    PROVE  OutOfRange(T, FALSE, result, digit)
           <=> Extended(FALSE, result, digit) \notin Lowest(T) .. Highest(T)
  <1> DEFINE a == limit - digit
  <1>1. a \in Nat /\ limit = a + digit
    OBVIOUS
  <1>2. OutOfRange(T, FALSE, result, digit) <=> a \div 10 < result
    BY DEF OutOfRange
  <1> HIDE DEF a
  <1>3. a \div 10 \in Nat /\ 10 * (a \div 10) <= a /\ a < 10 * (a \div 10) + 10
    BY <1>1, QuotientFacts
  <1>4. result \in Nat /\ Extended(FALSE, result, digit) = result * 10 + digit
    BY DEF Extended
  <1>5. a \div 10 < result <=> result * 10 + digit > limit
    BY <1>1, <1>3, <1>4
  <1>6. Extended(FALSE, result, digit) \notin Lowest(T) .. Highest(T)
        <=> result * 10 + digit > limit
    <2>1. Lowest(T) .. Highest(T) = 0 .. limit
      OBVIOUS
    <2> DEFINE next == result * 10 + digit
    <2>2. next \in Nat
      BY <1>4
    <2> HIDE DEF next
    <2>3. next \notin 0 .. limit <=> next > limit
      BY <2>2
    <2>4. QED
      BY <1>4, <2>1, <2>3, Zenon DEF next
  <1>7. QED
    BY <1>2, <1>5, <1>6

----------------------------------------------------------------------------
LEMMA DivIs ==
    ASSUME NEW n \in Int, NEW d \in Nat \ {0}, NEW q \in Int, d * q <= n, n < d * q + d
    PROVE  n \div d = q
  BY SMT

LEMMA DivFacts ==
    ASSUME NEW n \in Int, NEW d \in Nat \ {0}
    PROVE  n \div d \in Int /\ d * (n \div d) <= n /\ n < d * (n \div d) + d
  BY SMT

\* A day of an era is day doy of year k of four, these the q-th four years of a
\* century, this the c-th of the era.
IsPlace(c, q, k, doy) ==
    /\ c \in 0 .. 3 /\ q \in 0 .. 24 /\ k \in 0 .. 3 /\ doy \in 0 .. 365
    /\ doy = 365 => k = 3 /\ (q < 24 \/ c = 3)

\* The day of the era at a place, and the year in which its year began.
DayAt(c, q, k, doy) == 36524 * c + 1461 * q + 365 * k + doy
IsYear(y, era, c, q, k) == y = 400 * era + 100 * c + 4 * q + k

\* Every day of an era has a place.
LEMMA PlaceOf ==
    ASSUME NEW doe \in Nat, doe < 146097
    PROVE  \E c, q, k, doy : IsPlace(c, q, k, doy) /\ doe = DayAt(c, q, k, doy)
  <1>1. PICK c0 \in Int : 36524 * c0 <= doe /\ doe < 36524 * c0 + 36524
    <2>1. doe \div 36524 \in Int /\ 36524 * (doe \div 36524) <= doe /\ doe < 36524 * (doe \div 36524) + 36524
      BY SMT, DivFacts
    <2>2. QED
      BY SMT, <2>1
  <1>2. \E c \in 0 .. 3, r \in Nat :
            doe = 36524 * c + r /\ r <= 36524 /\ (r = 36524 => c = 3)
    <2>1. CASE doe = 146096
      BY SMT, <2>1
    <2>2. CASE doe # 146096
      <3>1. c0 \in 0 .. 3 /\ doe - 36524 * c0 \in Nat /\ doe - 36524 * c0 < 36524
        BY SMT, <1>1, <2>2
      <3>2. QED
        BY SMT, <3>1
    <2>3. QED
      BY <2>1, <2>2
  <1>3. PICK c \in 0 .. 3, r \in Nat :
            doe = 36524 * c + r /\ r <= 36524 /\ (r = 36524 => c = 3)
    BY SMT, <1>2
  <1>4. PICK q \in Int : 1461 * q <= r /\ r < 1461 * q + 1461
    <2>1. r \div 1461 \in Int /\ 1461 * (r \div 1461) <= r /\ r < 1461 * (r \div 1461) + 1461
      BY SMT, DivFacts
    <2>2. QED
      BY SMT, <2>1
  <1>5. q \in 0 .. 24 /\ r - 1461 * q \in Nat /\ r - 1461 * q <= 1460
        /\ (r - 1461 * q = 1460 => q < 24 \/ c = 3)
    BY SMT, <1>3, <1>4
  <1>6. PICK s \in Nat : s <= 1460 /\ r = 1461 * q + s
    BY SMT, <1>5
  <1>7. PICK k0 \in Int : 365 * k0 <= s /\ s < 365 * k0 + 365
    <2>1. s \div 365 \in Int /\ 365 * (s \div 365) <= s /\ s < 365 * (s \div 365) + 365
      BY SMT, DivFacts
    <2>2. QED
      BY SMT, <2>1
  <1>8. CASE s = 1460
    <2>1. IsPlace(c, q, 3, 365) /\ doe = DayAt(c, q, 3, 365)
      BY SMT, <1>3, <1>5, <1>6, <1>8 DEF IsPlace, DayAt
    <2>2. QED
      BY SMT, <2>1
  <1>9. CASE s # 1460
    <2>1. k0 \in 0 .. 3 /\ s - 365 * k0 \in 0 .. 364
      <3>1. s < 1460
        BY SMT, <1>6, <1>9
      <3>2. 0 <= k0 /\ k0 < 4
        BY SMT, <1>7, <3>1
      <3>3. QED
        BY SMT, <1>7, <3>2
    <2>2. IsPlace(c, q, k0, s - 365 * k0)
      BY SMT, <1>5, <2>1 DEF IsPlace
    <2>3. doe = DayAt(c, q, k0, s - 365 * k0)
      BY SMT, <1>3, <1>5, <1>6, <2>1 DEF DayAt
    <2>4. QED
      BY SMT, <2>2, <2>3
  <1>10. QED
    BY <1>8, <1>9

\* The divisions of YearOfEra find the year of a place: the corrections undo the
\* leap days before it, but for the one that ends a year (late).
LEMMA YearAt ==
    ASSUME NEW c, NEW q, NEW k, NEW doy, IsPlace(c, q, k, doy),
           NEW doe, doe = DayAt(c, q, k, doy)
    PROVE  /\ doe \in Nat /\ doe < 146097
           /\ (doe - doe \div 1460 + doe \div 36524 - doe \div 146096) \div 365
                = 100 * c + 4 * q + k
           /\ (100 * c + 4 * q + k) \div 4 = 25 * c + q
           /\ (100 * c + 4 * q + k) \div 100 = c
           /\ doe - (365 * (100 * c + 4 * q + k) + (25 * c + q) - c) = doy
  <1>1. /\ c \in 0 .. 3 /\ q \in 0 .. 24 /\ k \in 0 .. 3 /\ doy \in 0 .. 365
        /\ doy = 365 => k = 3 /\ (q < 24 \/ c = 3)
    BY DEF IsPlace
  <1>2. doe = 36524 * c + 1461 * q + 365 * k + doy
    BY DEF DayAt
  <1>3. doe \in Nat /\ doe < 146097
    BY SMT, <1>1, <1>2
  <1>4. doe - (365 * (100 * c + 4 * q + k) + (25 * c + q) - c) = doy
    BY SMT, <1>1, <1>2
  <1>5. (100 * c + 4 * q + k) \div 4 = 25 * c + q
    BY SMT, <1>1, DivIs
  <1>6. (100 * c + 4 * q + k) \div 100 = c
    BY SMT, <1>1, DivIs
  <1>7. PICK late \in 0 .. 1 : doe \div 1460 = 25 * c + q + late
                               /\ doy - late \in 0 .. 364
    <2>1. CASE 24 * c + q + 365 * k + doy < 1460
      <3>1. 1460 * (25 * c + q) <= doe /\ doe < 1460 * (25 * c + q) + 1460
        BY SMT, <1>1, <1>2, <2>1
      <3>2. doe \div 1460 = 25 * c + q
        BY SMT, <1>1, <1>3, <3>1, DivIs
      <3>3. doy - 0 \in 0 .. 364
        BY SMT, <1>1, <2>1
      <3>4. QED
        BY SMT, <1>1, <3>2, <3>3
    <2>2. CASE 24 * c + q + 365 * k + doy >= 1460
      <3>1. /\ 1460 * (25 * c + q + 1) <= doe
            /\ doe < 1460 * (25 * c + q + 1) + 1460
        BY SMT, <1>1, <1>2, <2>2
      <3>2. doe \div 1460 = 25 * c + q + 1
        BY SMT, <1>1, <1>3, <3>1, DivIs
      <3>3. doy - 1 \in 0 .. 364
        BY SMT, <1>1, <2>2
      <3>4. QED
        BY SMT, <1>1, <3>2, <3>3
    <2>3. QED
      BY SMT, <1>1, <2>1, <2>2
  <1>8. doe \div 36524 - doe \div 146096 = c
    <2>1. CASE doe = 146096
      <3>1. doe \div 36524 = 4 /\ doe \div 146096 = 1
        BY SMT, <2>1, DivIs
      <3>2. c = 3
        BY SMT, <1>1, <1>2, <2>1
      <3>3. QED
        BY SMT, <3>1, <3>2
    <2>2. CASE doe # 146096
      <3>1. 36524 * c <= doe /\ doe < 36524 * c + 36524
        BY SMT, <1>1, <1>2, <2>2
      <3>2. doe \div 36524 = c
        BY SMT, <1>1, <1>3, <3>1, DivIs
      <3>3. doe \div 146096 = 0
        BY SMT, <1>3, <2>2, DivIs
      <3>4. QED
        BY SMT, <1>1, <3>2, <3>3
    <2>3. QED
      BY <2>1, <2>2
  <1>9. doe - doe \div 1460 + doe \div 36524 - doe \div 146096
            = 365 * (100 * c + 4 * q + k) + (doy - late)
    <2>1. doe \div 36524 \in Int /\ doe \div 146096 \in Int
      BY SMT, <1>3, DivFacts
    <2>2. QED
      BY SMT, <1>1, <1>2, <1>7, <1>8, <2>1
  <1>10. (365 * (100 * c + 4 * q + k) + (doy - late)) \div 365 = 100 * c + 4 * q + k
    BY SMT, <1>1, <1>7, DivIs
  <1>11. QED
    BY SMT, <1>3, <1>4, <1>5, <1>6, <1>9, <1>10


\* The date of day doy of the year that begins in March of y.
DateAt(y, doy) ==
    LET m == MonthNumber(MonthFromMarch(doy))
    IN  [y |-> y + (IF m <= 2 THEN 1 ELSE 0), m |-> m,
         d |-> doy - FirstOfMonth(MonthFromMarch(doy)) + 1]

\* The days the months begin, from March on, and the end of February.
LEMMA Firsts ==
    /\ FirstOfMonth(0) = 0    /\ FirstOfMonth(1) = 31   /\ FirstOfMonth(2) = 61
    /\ FirstOfMonth(3) = 92   /\ FirstOfMonth(4) = 122  /\ FirstOfMonth(5) = 153
    /\ FirstOfMonth(6) = 184  /\ FirstOfMonth(7) = 214  /\ FirstOfMonth(8) = 245
    /\ FirstOfMonth(9) = 275  /\ FirstOfMonth(10) = 306 /\ FirstOfMonth(11) = 337
    /\ FirstOfMonth(12) = 367
  BY SMT DEF FirstOfMonth

\* The month MonthFromMarch finds is the one the day is in, and no other is.
LEMMA MonthAt ==
    ASSUME NEW doy \in 0 .. 365
    PROVE  \E mp \in 0 .. 11 : /\ MonthFromMarch(doy) = mp
                               /\ FirstOfMonth(mp) \in 0 .. 337
                               /\ FirstOfMonth(mp) <= doy /\ doy < FirstOfMonth(mp + 1)
  <1>1. /\ MonthFromMarch(doy) \in 0 .. 11
        /\ FirstOfMonth(MonthFromMarch(doy)) \in 0 .. 337
        /\ FirstOfMonth(MonthFromMarch(doy)) <= doy
        /\ doy < FirstOfMonth(MonthFromMarch(doy) + 1)
    BY SMT DEF MonthFromMarch, FirstOfMonth
  <1>2. QED
    BY Zenon, <1>1

LEMMA MonthIs ==
    ASSUME NEW doy \in 0 .. 365, NEW mp \in 0 .. 11,
           FirstOfMonth(mp) <= doy, doy < FirstOfMonth(mp + 1)
    PROVE  MonthFromMarch(doy) = mp
  <1>1. /\ 153 * mp <= 5 * doy + 2
        /\ 5 * doy + 2 < 153 * mp + 153
    BY SMT DEF FirstOfMonth
  <1>2. QED
    BY SMT, <1>1, DivIs DEF MonthFromMarch

\* March to January have the days of the calendar; February has what is left.
LEMMA MonthDays ==
    ASSUME NEW y, NEW mp \in 0 .. 10
    PROVE  DaysOf(y, MonthNumber(mp)) = FirstOfMonth(mp + 1) - FirstOfMonth(mp)
  <1>1. DaysOf(y, MonthNumber(mp)) = IF MonthNumber(mp) \in {4, 6, 9, 11} THEN 30 ELSE 31
    BY SMT DEF DaysOf, MonthNumber
  <1>2. CASE mp \in {0, 1, 2, 3}
    BY SMT, <1>1, <1>2, Firsts DEF MonthNumber
  <1>3. CASE mp \in {4, 5, 6, 7}
    BY SMT, <1>1, <1>3, Firsts DEF MonthNumber
  <1>4. CASE mp \in {8, 9, 10}
    BY SMT, <1>1, <1>4, Firsts DEF MonthNumber
  <1>5. QED
    BY SMT, <1>2, <1>3, <1>4

\* NextDate of a date given by its parts, and the parts of DateAt.
LEMMA NextOf ==
    ASSUME NEW y, NEW m, NEW d
    PROVE  NextDate([y |-> y, m |-> m, d |-> d]) =
             IF d < DaysOf(y, m) THEN [y |-> y, m |-> m, d |-> d + 1]
             ELSE IF m < 12 THEN [y |-> y, m |-> m + 1, d |-> 1]
             ELSE [y |-> y + 1, m |-> 1, d |-> 1]
  BY SMT DEF NextDate

LEMMA DateIn ==
    ASSUME NEW y, NEW doy, NEW mp, MonthFromMarch(doy) = mp
    PROVE  DateAt(y, doy) = [y |-> y + (IF MonthNumber(mp) <= 2 THEN 1 ELSE 0),
                             m |-> MonthNumber(mp), d |-> doy - FirstOfMonth(mp) + 1]
  BY SMT DEF DateAt

\* Within a year, the date of the next day is the next date.
LEMMA NextDay ==
    ASSUME NEW y \in Int, NEW doy \in 0 .. 364, doy = 364 => LeapYear(y + 1)
    PROVE  DateAt(y, doy + 1) = NextDate(DateAt(y, doy))
  <1>1. doy \in 0 .. 365
    BY SMT
  <1>2. PICK next \in 0 .. 365 : next = doy + 1
    BY SMT
  <1>3. PICK mp \in 0 .. 11 : /\ MonthFromMarch(doy) = mp
                              /\ FirstOfMonth(mp) \in 0 .. 337
                              /\ FirstOfMonth(mp) <= doy /\ doy < FirstOfMonth(mp + 1)
    BY Zenon, <1>1, MonthAt
  <1>4. PICK f \in 0 .. 337 : f = FirstOfMonth(mp)
    BY SMT, <1>3
  <1>5. PICK yy \in Int : yy = y + (IF MonthNumber(mp) <= 2 THEN 1 ELSE 0)
    BY SMT
  <1>6. PICK m \in 1 .. 12 : m = MonthNumber(mp)
    BY SMT DEF MonthNumber
  <1>7. PICK d \in Int : d = doy - f + 1
    BY SMT
  <1>8. DateAt(y, doy) = [y |-> yy, m |-> m, d |-> d]
    BY SMT, <1>3, <1>4, <1>5, <1>6, <1>7, DateIn
  <1>9. NextDate(DateAt(y, doy)) =
             IF d < DaysOf(yy, m) THEN [y |-> yy, m |-> m, d |-> d + 1]
             ELSE IF m < 12 THEN [y |-> yy, m |-> m + 1, d |-> 1]
             ELSE [y |-> yy + 1, m |-> 1, d |-> 1]
    BY Zenon, <1>8, NextOf
  <1>10. CASE mp # 11 /\ next < FirstOfMonth(mp + 1)
    <2>0. mp \in 0 .. 10
      BY SMT, <1>10
    <2>1. MonthFromMarch(next) = mp
      <3>1. FirstOfMonth(mp) <= next
        BY SMT, <1>3, <1>2
      <3>2. QED
        BY Zenon, <1>2, <1>3, <1>10, <3>1, MonthIs
    <2>2. DateAt(y, next) = [y |-> yy, m |-> m, d |-> next - f + 1]
      BY SMT, <1>4, <1>5, <1>6, <2>1, DateIn
    <2>3. FirstOfMonth(mp + 1) \in Int
      BY SMT, <2>0, Firsts
    <2>4. DaysOf(yy, m) = FirstOfMonth(mp + 1) - f
      BY SMT, <1>4, <1>6, <2>0, MonthDays
    <2>5. d < DaysOf(yy, m) /\ next - f + 1 = d + 1
      BY SMT, <1>2, <1>7, <1>10, <2>3, <2>4
    <2>6. QED
      BY SMT, <1>2, <1>9, <2>2, <2>5
  <1>11. CASE mp # 11 /\ next >= FirstOfMonth(mp + 1)
    <2>0. mp \in 0 .. 10
      BY SMT, <1>11
    <2>1. FirstOfMonth(mp + 1) = next
      <3>1. FirstOfMonth(mp + 1) \in Int
        BY SMT, <2>0, Firsts
      <3>2. QED
        BY SMT, <1>2, <1>3, <1>11, <3>1
    <2>2. PICK after \in 1 .. 11 : after = mp + 1
      BY SMT, <2>0
    <2>3. FirstOfMonth(after) < FirstOfMonth(after + 1)
      BY SMT, Firsts
    <2>4. MonthFromMarch(next) = after
      <3>1. after \in 0 .. 11 /\ FirstOfMonth(after) <= next /\ next < FirstOfMonth(after + 1)
        BY SMT, <2>1, <2>2, <2>3
      <3>2. QED
        BY Zenon, <1>2, <3>1, MonthIs
    <2>5. DateAt(y, next) = [y |-> y + (IF MonthNumber(after) <= 2 THEN 1 ELSE 0),
                             m |-> MonthNumber(after), d |-> 1]
      <3>1. next - FirstOfMonth(after) + 1 = 1
        BY SMT, <2>1, <2>2
      <3>2. QED
        BY SMT, <2>4, <3>1, DateIn
    <2>6. DaysOf(yy, m) = FirstOfMonth(mp + 1) - f
      BY SMT, <1>4, <1>6, <2>0, MonthDays
    <2>7. ~(d < DaysOf(yy, m))
      BY SMT, <1>2, <1>7, <2>1, <2>6
    <2>8. NextDate(DateAt(y, doy)) =
              IF m < 12 THEN [y |-> yy, m |-> m + 1, d |-> 1]
              ELSE [y |-> yy + 1, m |-> 1, d |-> 1]
      BY Zenon, <1>9, <2>7
    <2>9. MonthNumber(after) = (IF m < 12 THEN m + 1 ELSE 1)
          /\ y + (IF MonthNumber(after) <= 2 THEN 1 ELSE 0) = (IF m < 12 THEN yy ELSE yy + 1)
      BY SMT, <1>5, <1>6, <2>0, <2>2 DEF MonthNumber
    <2>10. QED
      BY SMT, <1>2, <2>5, <2>8, <2>9
  <1>12. CASE mp = 11
    <2>1. f = 337 /\ FirstOfMonth(12) = 367 /\ FirstOfMonth(11) = 337
      BY SMT, <1>4, <1>12, Firsts
    <2>2. MonthFromMarch(next) = mp
      <3>1. FirstOfMonth(mp) <= next /\ next < FirstOfMonth(mp + 1)
        BY SMT, <1>2, <1>3, <1>12, <2>1
      <3>2. QED
        BY Zenon, <1>2, <1>3, <3>1, MonthIs
    <2>3. DateAt(y, next) = [y |-> yy, m |-> m, d |-> next - f + 1]
      BY SMT, <1>4, <1>5, <1>6, <2>2, DateIn
    <2>4. yy = y + 1 /\ m = 2
      BY SMT, <1>5, <1>6, <1>12 DEF MonthNumber
    <2>5. DaysOf(yy, m) = IF LeapYear(y + 1) THEN 29 ELSE 28
      BY SMT, <2>4 DEF DaysOf
    <2>6. d < DaysOf(yy, m) /\ next - f + 1 = d + 1
      BY SMT, <1>2, <1>7, <2>1, <2>5
    <2>7. QED
      BY SMT, <1>2, <1>9, <2>3, <2>6
  <1>13. QED
    <2>1. CASE mp # 11
      <3>0. mp \in 0 .. 10
        BY SMT, <2>1
      <3>1. FirstOfMonth(mp + 1) \in Int
        BY SMT, <3>0, Firsts
      <3>2. QED
        BY SMT, <1>10, <1>11, <2>1, <3>1
    <2>2. QED
      BY <1>12, <2>1

\* After the last day of February a year begins.
LEMMA NextYear ==
    ASSUME NEW y \in Int, NEW doy, doy = IF LeapYear(y + 1) THEN 365 ELSE 364
    PROVE  DateAt(y + 1, 0) = NextDate(DateAt(y, doy))
  <1>1. FirstOfMonth(11) = 337 /\ FirstOfMonth(12) = 367 /\ FirstOfMonth(0) = 0 /\ FirstOfMonth(1) = 31
    BY Firsts
  <1>2. MonthFromMarch(doy) = 11 /\ MonthFromMarch(0) = 0
    <2>1. doy \in 0 .. 365 /\ 337 <= doy /\ doy < 367
      BY SMT
    <2>2. QED
      BY SMT, <1>1, <2>1, MonthIs
  <1>3. DateAt(y + 1, 0) = [y |-> y + 1, m |-> 3, d |-> 1]
    BY SMT, <1>1, <1>2 DEF DateAt, MonthNumber
  <1>4. DateAt(y, doy) = [y |-> y + 1, m |-> 2, d |-> doy - 336]
    BY SMT, <1>1, <1>2 DEF DateAt, MonthNumber
  <1>5. DaysOf(y + 1, 2) = doy - 336
    BY SMT DEF DaysOf
  <1>6. doy \in Int
    BY SMT
  <1>7. QED
    BY SMT, <1>3, <1>4, <1>5, <1>6 DEF NextDate

\* The leap years are those whose last day has place 365.
LEMMA LeapAt ==
    ASSUME NEW era \in Nat, NEW c, NEW q, NEW k, NEW doy, IsPlace(c, q, k, doy),
           NEW y \in Int, IsYear(y, era, c, q, k)
    PROVE  LeapYear(y + 1) <=> IsPlace(c, q, k, 365)
  <1>0. c \in 0 .. 3 /\ q \in 0 .. 24 /\ k \in 0 .. 3 /\ y = 400 * era + 100 * c + 4 * q + k
    BY DEF IsPlace, IsYear
  <1>1. (y + 1) % 4 = 0 <=> k = 3
    BY SMT, <1>0
  <1>2. ASSUME k = 3 PROVE (y + 1) % 100 = 0 <=> q = 24
    BY SMT, <1>0, <1>2
  <1>3. ASSUME k = 3, q = 24 PROVE (y + 1) % 400 = 0 <=> c = 3
    BY SMT, <1>0, <1>3
  <1>4. QED
    BY SMT, <1>0, <1>1, <1>2, <1>3 DEF LeapYear, IsPlace

\* from_days finds the date of a place.
LEMMA FromPlace ==
    ASSUME NEW era \in Nat, NEW c, NEW q, NEW k, NEW doy, IsPlace(c, q, k, doy),
           NEW day \in Int, day + 719468 = 146097 * era + DayAt(c, q, k, doy),
           NEW y \in Int, y = 400 * era + 100 * c + 4 * q + k
    PROVE  from_days(day) = DateAt(y, doy)
  <1> DEFINE doe == DayAt(c, q, k, doy)
             yoe == 100 * c + 4 * q + k
  <1>0. c \in Int /\ q \in Int /\ k \in Int /\ doy \in Int
    BY SMT DEF IsPlace
  <1>1. /\ doe \in Nat /\ doe < 146097
        /\ YearOfEra(doe) = yoe
        /\ doe - FirstOfYear(yoe) = doy
    <2>1. /\ doe \in Nat /\ doe < 146097
          /\ (doe - doe \div 1460 + doe \div 36524 - doe \div 146096) \div 365 = yoe
          /\ yoe \div 4 = 25 * c + q
          /\ yoe \div 100 = c
          /\ doe - (365 * yoe + (25 * c + q) - c) = doy
      BY SMT, YearAt
    <2>2. YearOfEra(doe) = yoe
      BY SMT, <2>1 DEF YearOfEra
    <2>3. doe - FirstOfYear(yoe) = doy
      BY SMT, <1>0, <2>1 DEF FirstOfYear
    <2>4. QED
      BY <2>1, <2>2, <2>3
  <1> HIDE DEF doe, yoe
  <1>2. (day + 719468) \div 146097 = era
    BY SMT, <1>1, DivIs DEF doe
  <1>3. day + 719468 - era * 146097 = doe
    <2>1. day + 719468 = 146097 * era + doe
      BY ONLY SMT, day + 719468 = 146097 * era + DayAt(c, q, k, doy) DEF doe
    <2>2. QED
      BY ONLY SMT, <2>1, <1>1, era \in Nat, day \in Int
  <1>4. y = yoe + era * 400
    BY SMT, <1>0 DEF yoe
  <1>5. from_days(day) =
            [y |-> yoe + era * 400 + (IF MonthNumber(MonthFromMarch(doy)) <= 2 THEN 1 ELSE 0),
             m |-> MonthNumber(MonthFromMarch(doy)),
             d |-> doy - FirstOfMonth(MonthFromMarch(doy)) + 1]
    BY SMT, <1>1, <1>2, <1>3 DEF from_days
  <1>6. QED
    BY SMT, <1>4, <1>5 DEF DateAt

\* Every day from 1970 on has a place in some era.
LEMMA DayHasPlace ==
    ASSUME NEW day \in Nat
    PROVE  \E era \in Nat, c \in Int, q \in Int, k \in Int, doy \in Int :
               IsPlace(c, q, k, doy) /\ day + 719468 = 146097 * era + DayAt(c, q, k, doy)
  <1> DEFINE z == day + 719468
  <1>1. z \in Nat
    BY SMT
  <1> HIDE DEF z
  <1>2. z \div 146097 \in Int /\ 146097 * (z \div 146097) <= z /\ z < 146097 * (z \div 146097) + 146097
    BY SMT, <1>1, DivFacts
  <1>3. PICK era \in Nat : 146097 * era <= z /\ z < 146097 * era + 146097
    BY SMT, <1>1, <1>2
  <1>4. PICK doe \in Nat : doe < 146097 /\ z = 146097 * era + doe
    BY SMT, <1>1, <1>3
  <1>5. PICK c, q, k, doy : IsPlace(c, q, k, doy) /\ doe = DayAt(c, q, k, doy)
    BY SMT, <1>4, PlaceOf
  <1>6. day + 719468 = 146097 * era + DayAt(c, q, k, doy)
    BY SMT, <1>4, <1>5 DEF z
  <1>7. c \in Int /\ q \in Int /\ k \in Int /\ doy \in Int
    BY SMT, <1>5 DEF IsPlace
  <1>8. QED
    BY SMT, <1>5, <1>6, <1>7

LEMMA DayZero == from_days(0) = [y |-> 1970, m |-> 1, d |-> 1]
  <1>1. PICK day \in Int, era \in Nat, y \in Int : day = 0 /\ era = 4 /\ y = 1969
    BY SMT
  <1>2. from_days(day) = DateAt(y, 306)
    <2>1. IsPlace(3, 17, 1, 306) /\ y = 400 * era + 100 * 3 + 4 * 17 + 1
      BY SMT, <1>1 DEF IsPlace
    <2>2. day + 719468 = 146097 * era + DayAt(3, 17, 1, 306)
      BY SMT, <1>1 DEF DayAt
    <2>3. QED
      BY SMT, <2>1, <2>2, FromPlace
  <1>3. MonthFromMarch(306) = 10 /\ FirstOfMonth(10) = 306
    BY SMT, Firsts, MonthIs
  <1>4. QED
    BY SMT, <1>1, <1>2, <1>3 DEF DateAt, MonthNumber

\* The next place is the next day of the year, or the first day of the next
\* year of the four, of the next four, of the next century or of the next era.
LEMMA NextFromDays ==
    ASSUME NEW day \in Nat
    PROVE  from_days(day + 1) = NextDate(from_days(day))
  <1>1. PICK era \in Nat, c \in Int, q \in Int, k \in Int, doy \in Int :
            IsPlace(c, q, k, doy) /\ day + 719468 = 146097 * era + DayAt(c, q, k, doy)
    BY SMT, DayHasPlace
  <1>2. /\ c \in 0 .. 3 /\ q \in 0 .. 24 /\ k \in 0 .. 3 /\ doy \in 0 .. 365
        /\ doy = 365 => k = 3 /\ (q < 24 \/ c = 3)
    BY <1>1 DEF IsPlace
  <1>3. PICK y \in Int : y = 400 * era + 100 * c + 4 * q + k
    BY SMT, <1>2
  <1>4. LeapYear(y + 1) <=> k = 3 /\ (q < 24 \/ c = 3)
    <2>1. IsYear(y, era, c, q, k)
      BY <1>3 DEF IsYear
    <2>2. LeapYear(y + 1) <=> IsPlace(c, q, k, 365)
      <3>1. era \in Nat /\ y \in Int /\ IsPlace(c, q, k, doy)
        BY SMT, <1>1
      <3>2. QED
        BY ONLY Zenon, <2>1, <3>1, LeapAt
    <2>3. QED
      BY SMT, <1>2, <2>2 DEF IsPlace
  <1>5. from_days(day) = DateAt(y, doy)
    BY SMT, <1>1, <1>3, FromPlace
  <1>6. PICK next \in Nat : next = day + 1
    BY SMT
  <1>7. next + 719468 = 146097 * era + DayAt(c, q, k, doy) + 1
    BY SMT, <1>1, <1>6, <1>2 DEF DayAt
  <1>8. CASE doy < 365 /\ (doy = 364 => LeapYear(y + 1))
    <2>1. IsPlace(c, q, k, doy + 1) /\ next + 719468 = 146097 * era + DayAt(c, q, k, doy + 1)
      BY SMT, <1>2, <1>4, <1>7, <1>8 DEF IsPlace, DayAt
    <2>2. from_days(next) = DateAt(y, doy + 1)
      BY SMT, <1>3, <2>1, FromPlace
    <2>3. doy \in 0 .. 364
      BY SMT, <1>2, <1>8
    <2>4. DateAt(y, doy + 1) = NextDate(DateAt(y, doy))
      BY SMT, <1>8, <2>3, NextDay
    <2>5. QED
      BY SMT, <1>5, <1>6, <2>2, <2>4
  <1>9. CASE ~ (doy < 365 /\ (doy = 364 => LeapYear(y + 1)))
    <2>1. doy = IF LeapYear(y + 1) THEN 365 ELSE 364
      BY SMT, <1>2, <1>4, <1>9
    <2>2. DateAt(y + 1, 0) = NextDate(DateAt(y, doy))
      BY SMT, <2>1, NextYear
    <2>3. PICK later \in Int : later = y + 1
      BY SMT
    <2>4. from_days(next) = DateAt(later, 0)
      <3>1. CASE k < 3
        <4>1. IsPlace(c, q, k + 1, 0) /\ next + 719468 = 146097 * era + DayAt(c, q, k + 1, 0)
          BY SMT, <1>2, <1>4, <1>7, <2>1, <3>1 DEF IsPlace, DayAt
        <4>2. QED
          <5>1. later = 400 * era + 100 * c + 4 * q + (k + 1)
            BY SMT, <1>2, <1>3, <2>3
          <5>2. QED
            BY SMT, <4>1, <5>1, FromPlace
      <3>2. CASE k = 3 /\ q < 24
        <4>1. IsPlace(c, q + 1, 0, 0) /\ next + 719468 = 146097 * era + DayAt(c, q + 1, 0, 0)
          BY SMT, <1>2, <1>4, <1>7, <2>1, <3>2 DEF IsPlace, DayAt
        <4>2. QED
          <5>1. later = 400 * era + 100 * c + 4 * (q + 1) + 0
            BY SMT, <1>2, <1>3, <2>3, <3>2
          <5>2. QED
            BY SMT, <4>1, <5>1, FromPlace
      <3>3. CASE k = 3 /\ q = 24 /\ c < 3
        <4>1. IsPlace(c + 1, 0, 0, 0) /\ next + 719468 = 146097 * era + DayAt(c + 1, 0, 0, 0)
          BY SMT, <1>2, <1>4, <1>7, <2>1, <3>3 DEF IsPlace, DayAt
        <4>2. QED
          <5>1. later = 400 * era + 100 * (c + 1) + 4 * 0 + 0
            BY SMT, <1>2, <1>3, <2>3, <3>3
          <5>2. QED
            BY SMT, <4>1, <5>1, FromPlace
      <3>4. CASE k = 3 /\ q = 24 /\ c = 3
        <4>1. PICK e \in Nat : e = era + 1
          BY SMT
        <4>2. IsPlace(0, 0, 0, 0) /\ next + 719468 = 146097 * e + DayAt(0, 0, 0, 0)
          BY SMT, <1>2, <1>4, <1>7, <2>1, <3>4, <4>1 DEF IsPlace, DayAt
        <4>3. later = 400 * e + 100 * 0 + 4 * 0 + 0
          BY SMT, <1>3, <2>3, <3>4, <4>1
        <4>4. QED
          BY SMT, <4>2, <4>3, FromPlace
      <3>5. QED
        BY SMT, <1>2, <3>1, <3>2, <3>3, <3>4
    <2>5. QED
      BY SMT, <1>5, <1>6, <2>2, <2>3, <2>4
  <1>10. QED
    BY <1>8, <1>9

(***************************************************************************)
(* chain_conversions.hpp:58-69, for every day from 1970 on: day 0 is       *)
(* 1970-01-01 and each day's date is the one after the day before's.       *)
(***************************************************************************)
THEOREM CalendarFollowed == \A day \in Nat : FollowsCalendar(day)
  <1> SUFFICES ASSUME NEW day \in Nat PROVE FollowsCalendar(day)
    OBVIOUS
  <1>1. CASE day = 0
    BY SMT, <1>1, DayZero DEF FollowsCalendar
  <1>2. CASE day # 0
    <2>1. PICK before \in Nat : day = before + 1 /\ day - 1 = before
      BY SMT, <1>2
    <2>2. from_days(day) = NextDate(from_days(before))
      BY Zenon, <2>1, NextFromDays
    <2>3. QED
      BY SMT, <1>2, <2>1, <2>2 DEF FollowsCalendar
  <1>3. QED
    BY <1>1, <1>2

(***************************************************************************)
(* chain_conversions.hpp:70-79: to_days takes the date of a day back to    *)
(* that day, for every day from 1970 on.                                   *)
(***************************************************************************)
THEOREM DaysComeBack ==
    ASSUME NEW day \in Nat
    PROVE  to_days(from_days(day)) = day
  <1>1. PICK era \in Nat, c \in Int, q \in Int, k \in Int, doy \in Int :
            IsPlace(c, q, k, doy) /\ day + 719468 = 146097 * era + DayAt(c, q, k, doy)
    BY SMT, DayHasPlace
  <1>2. c \in 0 .. 3 /\ q \in 0 .. 24 /\ k \in 0 .. 3 /\ doy \in 0 .. 365
    BY <1>1 DEF IsPlace
  <1>3. PICK yoe \in Nat : yoe = 100 * c + 4 * q + k /\ yoe < 400
    BY SMT, <1>2
  <1>4. PICK mp \in 0 .. 11 : MonthFromMarch(doy) = mp /\ FirstOfMonth(mp) \in 0 .. 337
    BY Zenon, <1>2, MonthAt
  <1>5. PICK y \in Int : y = 400 * era + yoe
    BY SMT
  <1>6. PICK date : date = from_days(day)
    OBVIOUS
  <1>7. /\ date.y = y + (IF MonthNumber(mp) <= 2 THEN 1 ELSE 0)
        /\ date.m = MonthNumber(mp)
        /\ date.d = doy - FirstOfMonth(mp) + 1
    <2>1. y = 400 * era + 100 * c + 4 * q + k
      BY SMT, <1>2, <1>3, <1>5
    <2>2. date = DateAt(y, doy)
      BY SMT, <1>1, <1>6, <2>1, FromPlace
    <2>3. QED
      BY SMT, <1>4, <2>2, DateIn
  <1>8. /\ (IF date.m > 2 THEN date.m - 3 ELSE date.m + 9) = mp
        /\ date.y - (IF date.m <= 2 THEN 1 ELSE 0) = y
    BY SMT, <1>7 DEF MonthNumber
  <1>9. y \div 400 = era /\ y - era * 400 = yoe
    BY SMT, <1>3, <1>5, DivIs
  <1>10. FirstOfMonth(mp) + date.d - 1 = doy
    BY SMT, <1>2, <1>4, <1>7
  <1>11. to_days(date) = era * 146097 + (FirstOfYear(yoe) + doy) - 719468
    BY SMT, <1>8, <1>9, <1>10 DEF to_days
  <1>12. FirstOfYear(yoe) + doy = DayAt(c, q, k, doy)
    <2>1. yoe \div 4 = 25 * c + q /\ yoe \div 100 = c
      BY SMT, <1>2, <1>3, DivIs
    <2>2. QED
      BY SMT, <1>2, <1>3, <2>1 DEF FirstOfYear, DayAt
  <1>13. QED
    <2>1. PICK doe \in Int : doe = DayAt(c, q, k, doy)
      BY SMT, <1>2 DEF DayAt
    <2>2. day + 719468 = 146097 * era + doe
      BY SMT, <1>1, <2>1
    <2>3. to_days(date) = era * 146097 + doe - 719468
      BY SMT, <1>11, <1>12, <2>1
    <2>4. to_days(date) = day
      BY SMT, <2>2, <2>3
    <2>5. QED
      BY <1>6, <2>4

\* Four digits hold the year of every time of 32 bits.
LEMMA YearFits ==
    ASSUME NEW day \in Nat, day <= 49710
    PROVE  /\ from_days(day).y \in Nat /\ from_days(day).y < 10000
           /\ from_days(day) = [y |-> from_days(day).y, m |-> from_days(day).m,
                                d |-> from_days(day).d]
  <1>1. PICK era \in Nat, c \in Int, q \in Int, k \in Int, doy \in Int :
            IsPlace(c, q, k, doy) /\ day + 719468 = 146097 * era + DayAt(c, q, k, doy)
    BY ONLY SMT, day \in Nat, DayHasPlace
  <1>2. c \in 0 .. 3 /\ q \in 0 .. 24 /\ k \in 0 .. 3 /\ doy \in 0 .. 365
    BY <1>1 DEF IsPlace
  <1>3. PICK y \in Int : y = 400 * era + 100 * c + 4 * q + k
    BY SMT, <1>2
  <1>4. from_days(day) = DateAt(y, doy)
    BY SMT, <1>1, <1>3, FromPlace
  <1>5. era <= 5
    BY SMT, <1>1, <1>2 DEF DayAt
  <1>6. y \in Nat /\ y <= 2400
    BY SMT, <1>2, <1>3, <1>5
  <1>7. QED
    BY SMT, <1>4, <1>6 DEF DateAt

\* A time in range is what it wraps to.
LEMMA WrappedInRange ==
    ASSUME NEW day \in Nat, NEW sec \in Nat, sec < SecondsPerDay,
           day < Wrap.day \/ (day = Wrap.day /\ sec < Wrap.sec)
    PROVE  Wrapped(day, sec) = [day |-> day, sec |-> sec]
  <1> DEFINE Day(k) == day - k * Wrap.day + (sec - k * Wrap.sec) \div SecondsPerDay
             Sec(k) == (sec - k * Wrap.sec) % SecondsPerDay
             Fits(k) == /\ Day(k) >= 0
                        /\ \/ Day(k) < Wrap.day
                           \/ Day(k) = Wrap.day /\ Sec(k) < Wrap.sec
  <1>1. Day(0) = day /\ Sec(0) = sec
    BY SMT DEF Wrap, SecondsPerDay
  <1>2. Fits(0)
    BY SMT, <1>1 DEF Wrap
  <1>3. ASSUME NEW k \in -20 .. 80, Fits(k) PROVE k = 0
    <2>1. PICK a \in Int, b \in Nat :
              /\ a = (sec - k * 23296) \div 86400 /\ b = (sec - k * 23296) % 86400
              /\ sec - k * 23296 = 86400 * a + b /\ b < 86400
      BY SMT, DivFacts
    <2>2. Day(k) = day - k * 49710 + a /\ Sec(k) = b
      BY SMT, <2>1 DEF Wrap, SecondsPerDay
    <2>3. day - k * 49710 + a >= 0
      BY SMT, <1>3, <2>2
    <2>4. day - k * 49710 + a < 49710 \/ (day - k * 49710 + a = 49710 /\ b < 23296)
      BY SMT, <1>3, <2>2 DEF Wrap
    <2>5. sec < 86400 /\ (day < 49710 \/ (day = 49710 /\ sec < 23296))
      BY SMT DEF Wrap, SecondsPerDay
    <2>6. QED
      BY ONLY SMT, <2>1, <2>3, <2>4, <2>5, day \in Nat, sec \in Nat, k \in -20 .. 80
  <1> HIDE DEF Day, Sec, Fits
  <1>4. (CHOOSE k \in -20 .. 80 : Fits(k)) = 0
    BY <1>2, <1>3
  <1>5. Wrapped(day, sec) = [day |-> Day(CHOOSE k \in -20 .. 80 : Fits(k)),
                             sec |-> Sec(CHOOSE k \in -20 .. 80 : Fits(k))]
    BY DEF Wrapped, Fits, Day, Sec
  <1>6. Wrapped(day, sec) = [day |-> Day(0), sec |-> Sec(0)]
    BY Zenon, <1>4, <1>5
  <1>7. QED
    BY Zenon, <1>1, <1>6

(***************************************************************************)
(* chain_conversions.hpp:231-311: the text of a time_point_sec is read     *)
(* back as that time, for every time 32 bits of seconds can hold.          *)
(***************************************************************************)
THEOREM TimesComeBack ==
    ASSUME NEW day \in Nat, NEW sec \in Nat, sec < SecondsPerDay,
           day < Wrap.day \/ (day = Wrap.day /\ sec < Wrap.sec), NEW micro
    PROVE  string_to_utc_seconds(microseconds_to_str([day |-> day, sec |-> sec], micro))
               = {[day |-> day, sec |-> sec]}
  <1> DEFINE text == microseconds_to_str([day |-> day, sec |-> sec], micro)
  <1>1. /\ text.date = [from_days(day) EXCEPT !.y = @ % 10000]
        /\ text.h = sec \div 3600 /\ text.min = (sec \div 60) % 60 /\ text.sec = sec % 60
        /\ text.tail = "fraction"
    BY SMT DEF microseconds_to_str
  <1> HIDE DEF text
  <1>2. text.date = from_days(day)
    <2>1. day <= 49710
      BY SMT DEF Wrap
    <2>2. /\ from_days(day).y % 10000 = from_days(day).y
          /\ from_days(day) = [y |-> from_days(day).y, m |-> from_days(day).m,
                               d |-> from_days(day).d]
      BY SMT, <2>1, YearFits
    <2>3. QED
      BY SMT, <1>1, <2>2
  <1>3. to_days(text.date) = day
    BY SMT, <1>2, DaysComeBack
  <1>4. text.h * 3600 + text.min * 60 + text.sec = sec
    <2>1. (sec \div 3600) * 3600 + ((sec \div 60) % 60) * 60 + (sec % 60) = sec
      BY SMT
    <2>2. QED
      BY SMT, <1>1, <2>1
  <1>5. utc_seconds(text) = [day |-> day, sec |-> sec]
    BY SMT, <1>3, <1>4, WrappedInRange DEF utc_seconds
  <1>6. QED
    BY <1>1, <1>5 DEF string_to_utc_seconds, text

(***************************************************************************)
(* time.hpp:213-237: a block's slot comes back from its time, for every    *)
(* slot of 32 bits.                                                        *)
(***************************************************************************)
THEOREM SlotsComeBack ==
    ASSUME NEW day \in Nat, NEW half \in Nat, half < SlotsPerDay,
           day < SlotWrap.day \/ (day = SlotWrap.day /\ half < SlotWrap.half)
    PROVE  to_block_timestamp(to_time_point([day |-> day, half |-> half]))
               = [day |-> day, half |-> half]
  <1> DEFINE time == to_time_point([day |-> day, half |-> half])
  <1>1. /\ time.day = EpochDay + day /\ time.sec = half \div 2
        /\ time.micro = (half % 2) * 500000
    BY SMT DEF to_time_point
  <1> HIDE DEF time
  <1>2. time.day - EpochDay = day
    BY SMT, <1>1 DEF EpochDay
  <1>3. 2 * time.sec + time.micro \div 500000 = half
    <2>1. PICK bit \in 0 .. 1 : bit = half % 2 /\ 2 * (half \div 2) + bit = half
      BY SMT
    <2>2. (bit * 500000) \div 500000 = bit
      BY SMT, <2>1
    <2>3. QED
      BY SMT, <1>1, <2>1, <2>2
  <1>4. Slots(day, half) = [day |-> day, half |-> half]
    <2>1. half < 172800
      BY SMT DEF SlotsPerDay, SecondsPerDay
    <2>2. half \div 172800 = 0 /\ half % 172800 = half
      BY SMT, <2>1
    <2>3. SlotsPerDay = 172800
      BY SMT DEF SlotsPerDay, SecondsPerDay
    <2>4. QED
      BY SMT, <2>2, <2>3 DEF Slots
  <1>5. ~(day < 0) /\ ~(day > SlotWrap.day \/ (day = SlotWrap.day /\ half >= SlotWrap.half))
    BY SMT DEF SlotWrap
  <1>6. QED
    BY SMT, <1>2, <1>3, <1>4, <1>5 DEF to_block_timestamp, WrappedSlot, time

----------------------------------------------------------------------------
\* The blocks a bitset of its size needs.
IsBitset(b) ==
    /\ b = [size |-> b.size, blocks |-> b.blocks]
    /\ b.size \in Nat /\ b.blocks \in Seq(SUBSET (0 .. 7))
    /\ Len(b.blocks) = (b.size + 7) \div 8

\* The class invariant: no ones beyond the bits.
UnusedAreZero(b) ==
    \A k \in 1 .. Len(b.blocks) : \A bit \in b.blocks[k] : 8 * (k - 1) + bit < b.size

IsSound(b) == IsBitset(b) /\ UnusedAreZero(b)

\* The bits that are set: what a bitset stands for.
Ones(b) == {pos \in 0 .. b.size - 1 : Test(b, pos)}

\* calc_num_blocks does not wrap.  2 ^ Bits is a number: TLAPS knows nothing of
\* powers.
SizeFits(n) == 2 ^ Bits \in Nat /\ n + 7 < 2 ^ Bits

LEMMA ElementIn ==
    ASSUME NEW S, NEW s \in Seq(S), NEW k \in 1 .. Len(s)
    PROVE  s[k] \in S
  BY SMT

LEMMA FunctionIsSeq ==
    ASSUME NEW S, NEW N \in Nat, NEW f \in [1 .. N -> S]
    PROVE  f \in Seq(S) /\ Len(f) = N
  BY SMT

LEMMA BlocksOf ==
    ASSUME NEW n \in Nat, SizeFits(n)
    PROVE  calc_num_blocks(n) = (n + 7) \div 8 /\ (n + 7) \div 8 \in Nat
  <1> DEFINE W == 2 ^ Bits
  <1>1. W \in Nat /\ n + 7 < W
    BY DEF SizeFits
  <1>2. calc_num_blocks(n) = ((n + 7) % W) \div 8
    BY DEF calc_num_blocks
  <1> HIDE DEF W
  <1>3. (n + 7) % W = n + 7
    BY SMT, <1>1
  <1>4. QED
    BY SMT, <1>2, <1>3

\* The block and the bit in it of a position, and back.
LEMMA PlaceOfBit ==
    ASSUME NEW n \in Nat, NEW pos \in Nat, pos < n
    PROVE  /\ pos \div 8 + 1 \in 1 .. (n + 7) \div 8
           /\ pos % 8 \in 0 .. 7
           /\ 8 * ((pos \div 8 + 1) - 1) + (pos % 8) = pos
  BY SMT

LEMMA BitOfPlace ==
    ASSUME NEW k \in Nat \ {0}, NEW bit \in 0 .. 7
    PROVE  /\ 8 * (k - 1) + bit \in Nat
           /\ (8 * (k - 1) + bit) \div 8 + 1 = k
           /\ (8 * (k - 1) + bit) % 8 = bit
  BY SMT

\* The bits of the last block that are used, where not all are.
LEMMA LastBlock ==
    ASSUME NEW n \in Nat, n % 8 # 0
    PROVE  /\ (n + 7) \div 8 \in Nat \ {0}
           /\ \A bit \in 0 .. 7 :
                  bit \in 0 .. (n % 8) - 1 <=> 8 * ((n + 7) \div 8 - 1) + bit < n
           /\ \A k \in Nat, bit \in 0 .. 7 :
                  k < (n + 7) \div 8 => 8 * (k - 1) + bit < n
  <1>1. PICK q \in Nat, r \in 1 .. 7 : n = 8 * q + r /\ n % 8 = r /\ (n + 7) \div 8 = q + 1
    BY SMT
  <1>2. QED
    BY SMT, <1>1

\* Other blocks for the same size.
LEMMA NewBlocks ==
    ASSUME NEW n, NEW blocks, NEW new
    PROVE  [[size |-> n, blocks |-> blocks] EXCEPT !.blocks = new] = [size |-> n, blocks |-> new]
  BY SMT

\* zero_unused_bits clears the bits beyond the size and no other.
LEMMA ZeroUnused ==
    ASSUME NEW b, IsBitset(b)
    PROVE  /\ IsBitset(zero_unused_bits(b))
           /\ zero_unused_bits(b).size = b.size
           /\ \A k \in 1 .. Len(b.blocks) :
                  zero_unused_bits(b).blocks[k] = {bit \in b.blocks[k] : 8 * (k - 1) + bit < b.size}
  <1> DEFINE n == b.size
             blocks == b.blocks
             extra == n % 8
             z == zero_unused_bits(b)
  <1>1. /\ b = [size |-> n, blocks |-> blocks] /\ n \in Nat
        /\ blocks \in Seq(SUBSET (0 .. 7)) /\ Len(blocks) = (n + 7) \div 8
    BY DEF IsBitset
  <1>2. z = IF extra = 0 THEN b
            ELSE [b EXCEPT !.blocks[Len(b.blocks)] = @ \cap (0 .. extra - 1)]
    BY DEF zero_unused_bits
  <1> HIDE DEF n, blocks, z
  <1>3. CASE extra = 0
    <2>1. z = b
      BY <1>2, <1>3
    <2>2. ASSUME NEW k \in 1 .. Len(blocks), NEW bit \in blocks[k]
          PROVE  8 * (k - 1) + bit < n
      <3>1. bit \in 0 .. 7
        BY SMT, <1>1, <2>2
      <3>2. k <= (n + 7) \div 8
        BY SMT, <1>1, <2>2
      <3>3. 8 * k <= n
        BY SMT, <1>1, <1>3, <3>2, <2>2
      <3>4. QED
        BY SMT, <1>1, <3>1, <3>3
    <2>3. QED
      BY <2>1, <2>2 DEF z, n, blocks
  <1>4. CASE extra # 0
    <2> DEFINE last == Len(blocks)
               low  == blocks[last] \cap (0 .. extra - 1)
               new  == [blocks EXCEPT ![last] = low]
    <2>1. /\ last \in Nat \ {0}
          /\ \A bit \in 0 .. 7 : bit \in 0 .. extra - 1 <=> 8 * (last - 1) + bit < n
          /\ \A k \in Nat, bit \in 0 .. 7 : k < last => 8 * (k - 1) + bit < n
      BY SMT, <1>1, <1>4, LastBlock
    <2> HIDE DEF extra
    <2>2. z = [size |-> n, blocks |-> new]
      <3>1. z = [b EXCEPT !.blocks = new]
        BY <1>2, <1>4 DEF blocks
      <3>2. QED
        BY Zenon, <1>1, <3>1, NewBlocks
    <2>3. last \in 1 .. Len(blocks)
      BY SMT, <2>1
    <2>4. low \in SUBSET (0 .. 7)
      BY SMT, <1>1, <2>3
    <2>5. new \in Seq(SUBSET (0 .. 7)) /\ Len(new) = Len(blocks)
      <3> HIDE DEF low, last
      <3>1. QED
        BY SMT, <1>1, <2>3, <2>4
    <2>6. ASSUME NEW k \in 1 .. Len(blocks)
          PROVE  new[k] = {bit \in blocks[k] : 8 * (k - 1) + bit < n}
      <3>1. blocks[k] \in SUBSET (0 .. 7)
        BY SMT, <1>1, <2>6
      <3>2. CASE k = last
        <4>1. new[k] = blocks[k] \cap (0 .. extra - 1)
          BY SMT, <1>1, <2>3, <3>2
        <4>2. ASSUME NEW bit \in blocks[k]
              PROVE  bit \in 0 .. extra - 1 <=> 8 * (k - 1) + bit < n
          <5>1. bit \in 0 .. 7
            BY <3>1
          <5>2. QED
            BY Zenon, <2>1, <3>2, <5>1
        <4>3. QED
          BY Zenon, <4>1, <4>2
      <3>3. CASE k # last
        <4>1. new[k] = blocks[k]
          BY SMT, <1>1, <2>3, <3>3
        <4>2. ASSUME NEW bit \in blocks[k]
              PROVE  8 * (k - 1) + bit < n
          <5>1. bit \in 0 .. 7
            BY <3>1
          <5>2. k \in Nat /\ k < last
            BY SMT, <2>6, <3>3, <2>3, <2>1
          <5>3. QED
            BY Zenon, <2>1, <5>1, <5>2
        <4>3. QED
          BY Zenon, <4>1, <4>2
      <3>4. QED
        BY <3>2, <3>3
    <2> HIDE DEF new
    <2>7. IsBitset(z)
      BY SMT, <1>1, <2>2, <2>5 DEF IsBitset
    <2>8. z.size = n /\ z.blocks = new
      BY SMT, <2>2
    <2>9. QED
      BY <2>6, <2>7, <2>8 DEF z, n, blocks
  <1>5. QED
    BY <1>3, <1>4

LEMMA TestAt ==
    ASSUME NEW b, IsBitset(b), NEW pos \in 0 .. b.size - 1
    PROVE  /\ Test(b, pos) <=> pos % 8 \in b.blocks[pos \div 8 + 1]
           /\ pos \div 8 + 1 \in 1 .. Len(b.blocks)
           /\ pos % 8 \in 0 .. 7
           /\ 8 * ((pos \div 8 + 1) - 1) + (pos % 8) = pos
  <1>1. b.size \in Nat /\ Len(b.blocks) = (b.size + 7) \div 8
    BY DEF IsBitset
  <1>2. pos \in Nat /\ pos < b.size
    BY SMT, <1>1
  <1>3. QED
    BY <1>1, <1>2, PlaceOfBit DEF Test

\* It establishes the class invariant and changes no bit.
LEMMA Trimmed ==
    ASSUME NEW b, IsBitset(b)
    PROVE  /\ IsSound(zero_unused_bits(b))
           /\ zero_unused_bits(b).size = b.size
           /\ Ones(zero_unused_bits(b)) = Ones(b)
  <1> DEFINE z == zero_unused_bits(b)
  <1>1. /\ IsBitset(z) /\ z.size = b.size
        /\ \A k \in 1 .. Len(b.blocks) :
               z.blocks[k] = {bit \in b.blocks[k] : 8 * (k - 1) + bit < b.size}
    BY ZeroUnused
  <1> HIDE DEF z
  <1>2. Len(z.blocks) = Len(b.blocks)
    BY <1>1 DEF IsBitset
  <1>3. UnusedAreZero(z)
    BY Zenon, <1>1, <1>2 DEF UnusedAreZero
  <1>4. ASSUME NEW pos \in 0 .. b.size - 1
        PROVE  Test(z, pos) <=> Test(b, pos)
    <2>1. /\ Test(b, pos) <=> pos % 8 \in b.blocks[pos \div 8 + 1]
          /\ pos \div 8 + 1 \in 1 .. Len(b.blocks)
          /\ 8 * ((pos \div 8 + 1) - 1) + (pos % 8) = pos
      BY TestAt
    <2>2. Test(z, pos) <=> pos % 8 \in z.blocks[pos \div 8 + 1]
      BY DEF Test
    <2>3. pos < b.size
      BY SMT, <1>1 DEF IsBitset
    <2>4. z.blocks[pos \div 8 + 1]
              = {bit \in b.blocks[pos \div 8 + 1] : 8 * ((pos \div 8 + 1) - 1) + bit < b.size}
      BY Zenon, <1>1, <2>1
    <2>5. QED
      BY Zenon, <2>1, <2>2, <2>3, <2>4
  <1>5. QED
    BY Zenon, <1>1, <1>3, <1>4 DEF IsSound, Ones, z

\* Bitsets of one size with the same bits are equal, block by block.
LEMMA SameBits ==
    ASSUME NEW a, IsSound(a), NEW b, IsSound(b), a.size = b.size, Ones(a) = Ones(b)
    PROVE  a = b
  <1>1. /\ a = [size |-> a.size, blocks |-> a.blocks]
        /\ b = [size |-> b.size, blocks |-> b.blocks]
        /\ a.size \in Nat /\ Len(a.blocks) = Len(b.blocks)
        /\ a.blocks \in Seq(SUBSET (0 .. 7)) /\ b.blocks \in Seq(SUBSET (0 .. 7))
    BY DEF IsSound, IsBitset
  <1>2. ASSUME NEW x, NEW y, IsSound(x), IsSound(y), x.size = y.size, Ones(x) = Ones(y),
               Len(x.blocks) = Len(y.blocks),
               NEW k \in 1 .. Len(x.blocks), NEW bit \in x.blocks[k]
        PROVE  bit \in y.blocks[k]
    <2>1. x.blocks \in Seq(SUBSET (0 .. 7)) /\ x.size \in Nat
      BY <1>2 DEF IsSound, IsBitset
    <2>2. bit \in 0 .. 7 /\ k \in Nat \ {0}
      BY SMT, <1>2, <2>1
    <2>3. PICK pos \in Nat : pos = 8 * (k - 1) + bit /\ pos \div 8 + 1 = k /\ pos % 8 = bit
      BY <2>2, BitOfPlace
    <2>4. pos < x.size
      BY Zenon, <1>2, <2>3 DEF IsSound, UnusedAreZero
    <2>5. pos \in 0 .. x.size - 1
      BY SMT, <2>1, <2>4
    <2>6. Test(x, pos)
      BY <1>2, <2>3 DEF Test
    <2>7. Test(y, pos)
      BY Zenon, <1>2, <2>5, <2>6 DEF Ones
    <2>8. QED
      BY <2>3, <2>7 DEF Test
  <1>3. \A k \in 1 .. Len(a.blocks) : a.blocks[k] = b.blocks[k]
    <2> SUFFICES ASSUME NEW k \in 1 .. Len(a.blocks) PROVE a.blocks[k] = b.blocks[k]
      OBVIOUS
    <2>1. \A bit \in a.blocks[k] : bit \in b.blocks[k]
      BY Zenon, <1>1, <1>2
    <2>2. \A bit \in b.blocks[k] : bit \in a.blocks[k]
      BY Zenon, <1>1, <1>2
    <2>3. QED
      BY Zenon, <2>1, <2>2
  <1>4. a.blocks = b.blocks
    BY SMT, <1>1, <1>3
  <1>5. QED
    BY Zenon, <1>1, <1>4

LEMMA OtherBlocks ==
    ASSUME NEW b, IsBitset(b), NEW new
    PROVE  [b EXCEPT !.blocks = new] = [size |-> b.size, blocks |-> new]
  <1>1. PICK n, old : b = [size |-> n, blocks |-> old]
    BY Zenon DEF IsBitset
  <1>2. b.size = n
    BY SMT, <1>1
  <1>3. [b EXCEPT !.blocks = new] = [size |-> n, blocks |-> new]
    <2>1. [[size |-> n, blocks |-> old] EXCEPT !.blocks = new] = [size |-> n, blocks |-> new]
      BY NewBlocks
    <2>2. QED
      BY ONLY Zenon, <1>1, <2>1
  <1>4. QED
    BY ONLY Zenon, <1>2, <1>3

\* A bitset made of a size and blocks, before the unused bits are cleared.
LEMMA MadeOf ==
    ASSUME NEW n \in Nat, NEW blocks \in Seq(SUBSET (0 .. 7)), Len(blocks) = (n + 7) \div 8
    PROVE  LET made == [size |-> n, blocks |-> blocks]
           IN  /\ IsBitset(made)
               /\ Ones(made) = {pos \in 0 .. n - 1 : pos % 8 \in blocks[pos \div 8 + 1]}
  BY SMT DEF IsBitset, Ones, Test

(***************************************************************************)
(* resize (bitset.hpp 42-46), for every size: a bitset that shrinks or     *)
(* grows keeps its bits, and the bits that are added are 0, which they are *)
(* because the unused bits of the old last block were.                     *)
(***************************************************************************)
THEOREM ResizeKeepsBits ==
    ASSUME NEW b, IsSound(b), NEW n \in Nat, SizeFits(n)
    PROVE  /\ IsSound(resize(b, n)) /\ resize(b, n).size = n
           /\ Ones(resize(b, n)) = Ones(b) \cap (0 .. n - 1)
  <1> DEFINE Block(i) == IF i <= Len(b.blocks) THEN b.blocks[i] ELSE {}
             N      == (n + 7) \div 8
             blocks == [i \in 1 .. N |-> Block(i)]
             made   == [size |-> n, blocks |-> blocks]
  <1>1. N \in Nat /\ resize(b, n) = zero_unused_bits(made)
    BY BlocksOf DEF resize
  <1>2. /\ b.size \in Nat /\ b.blocks \in Seq(SUBSET (0 .. 7))
        /\ Len(b.blocks) = (b.size + 7) \div 8 /\ IsBitset(b) /\ UnusedAreZero(b)
    BY DEF IsSound, IsBitset
  <1>3. \A i \in 1 .. N : Block(i) \in SUBSET (0 .. 7)
    BY SMT, <1>1, <1>2
  <1> HIDE DEF Block
  <1>4. blocks \in Seq(SUBSET (0 .. 7)) /\ Len(blocks) = N
    <2> HIDE DEF N
    <2>1. QED
      BY SMT, <1>1, <1>3
  <1>5. /\ IsBitset(made) /\ made.size = n
        /\ Ones(made) = {pos \in 0 .. n - 1 : pos % 8 \in blocks[pos \div 8 + 1]}
    <2> HIDE DEF blocks
    <2>1. QED
      BY SMT, <1>4, MadeOf
  <1>6. ASSUME NEW pos \in 0 .. n - 1
        PROVE  pos % 8 \in blocks[pos \div 8 + 1] <=> pos \in Ones(b)
    <2>0. pos \in Nat /\ pos < n
      BY SMT
    <2>1. pos \div 8 + 1 \in 1 .. N /\ pos % 8 \in 0 .. 7
          /\ 8 * ((pos \div 8 + 1) - 1) + (pos % 8) = pos
      BY <2>0, PlaceOfBit
    <2>2. blocks[pos \div 8 + 1] = Block(pos \div 8 + 1)
      BY Zenon, <2>1
    <2>3. CASE pos < b.size
      <3>1. pos \in 0 .. b.size - 1
        BY SMT, <1>2, <2>0, <2>3
      <3>2. /\ Test(b, pos) <=> pos % 8 \in b.blocks[pos \div 8 + 1]
            /\ pos \div 8 + 1 \in 1 .. Len(b.blocks)
        BY <1>2, <3>1, TestAt
      <3>3. pos \div 8 + 1 <= Len(b.blocks)
        BY SMT, <1>2, <3>2
      <3>4. QED
        BY Zenon, <2>2, <3>1, <3>2, <3>3 DEF Block, Ones
    <2>4. CASE ~(pos < b.size)
      <3>1. pos \notin Ones(b)
        BY SMT, <1>2, <2>4 DEF Ones
      <3>2. ASSUME pos % 8 \in Block(pos \div 8 + 1) PROVE FALSE
        <4>1. pos \div 8 + 1 <= Len(b.blocks) /\ pos % 8 \in b.blocks[pos \div 8 + 1]
          BY Zenon, <3>2 DEF Block
        <4>2. pos \div 8 + 1 \in 1 .. Len(b.blocks)
          BY SMT, <1>2, <2>0, <4>1
        <4>3. 8 * ((pos \div 8 + 1) - 1) + (pos % 8) < b.size
          BY Zenon, <1>2, <4>1, <4>2 DEF UnusedAreZero
        <4>4. QED
          BY Zenon, <2>1, <2>4, <4>3
      <3>3. QED
        BY Zenon, <2>2, <3>1, <3>2
    <2>5. QED
      BY <2>3, <2>4
  <1>7. Ones(made) = Ones(b) \cap (0 .. n - 1)
    BY Zenon, <1>5, <1>6
  <1> HIDE DEF made
  <1>8. QED
    BY Zenon, <1>1, <1>5, <1>7, Trimmed

(***************************************************************************)
(* flip of all bits (bitset.hpp 75-80), for every size: each bit changes,  *)
(* and the unused bits, flipped with their block, do not stay flipped.     *)
(***************************************************************************)
THEOREM FlipAllFlips ==
    ASSUME NEW b, IsSound(b)
    PROVE  /\ IsSound(flip_all(b)) /\ flip_all(b).size = b.size
           /\ Ones(flip_all(b)) = (0 .. b.size - 1) \ Ones(b)
  <1> DEFINE n == b.size
             blocks == [i \in 1 .. Len(b.blocks) |-> (0 .. 7) \ b.blocks[i]]
             made == [size |-> n, blocks |-> blocks]
  <1>1. /\ b = [size |-> n, blocks |-> b.blocks] /\ n \in Nat
        /\ b.blocks \in Seq(SUBSET (0 .. 7)) /\ Len(b.blocks) = (n + 7) \div 8
        /\ IsBitset(b)
    BY DEF IsSound, IsBitset
  <1> HIDE DEF n
  <1>2. flip_all(b) = zero_unused_bits(made)
    <2>1. flip_all(b) = zero_unused_bits([b EXCEPT !.blocks = blocks])
      BY DEF flip_all
    <2>2. [b EXCEPT !.blocks = blocks] = made
      <3> HIDE DEF blocks
      <3>1. QED
        BY Zenon, <1>1, OtherBlocks DEF n
    <2>3. QED
      BY Zenon, <2>1, <2>2
  <1>3. blocks \in Seq(SUBSET (0 .. 7)) /\ Len(blocks) = (n + 7) \div 8
    <2>1. PICK N \in Nat : N = Len(b.blocks)
      BY SMT, <1>1
    <2>2. \A i \in 1 .. N : (0 .. 7) \ b.blocks[i] \in SUBSET (0 .. 7)
      OBVIOUS
    <2>3. blocks = [i \in 1 .. N |-> (0 .. 7) \ b.blocks[i]]
      BY Zenon, <2>1
    <2>4. [i \in 1 .. N |-> (0 .. 7) \ b.blocks[i]] \in Seq(SUBSET (0 .. 7))
      BY SMT, <2>2
    <2>5. Len([i \in 1 .. N |-> (0 .. 7) \ b.blocks[i]]) = N
      BY SMT
    <2>6. QED
      BY Zenon, <1>1, <2>1, <2>3, <2>4, <2>5
  <1>4. /\ IsBitset(made) /\ made.size = n
        /\ Ones(made) = {pos \in 0 .. n - 1 : pos % 8 \in blocks[pos \div 8 + 1]}
    <2> HIDE DEF blocks, n
    <2>1. QED
      BY SMT, <1>1, <1>3, MadeOf
  <1>5. ASSUME NEW pos \in 0 .. n - 1
        PROVE  pos % 8 \in blocks[pos \div 8 + 1] <=> pos \notin Ones(b)
    <2>1. /\ Test(b, pos) <=> pos % 8 \in b.blocks[pos \div 8 + 1]
          /\ pos \div 8 + 1 \in 1 .. Len(b.blocks)
          /\ pos % 8 \in 0 .. 7
      BY <1>1, TestAt DEF n
    <2>2. QED
      BY Zenon, <2>1 DEF Ones, n
  <1>6. Ones(made) = (0 .. n - 1) \ Ones(b)
    BY Zenon, <1>4, <1>5
  <1> HIDE DEF made
  <1>7. QED
    BY Zenon, <1>2, <1>4, <1>6, Trimmed DEF n

\* One block becomes another that differs at most in the bit of pos.
LEMMA OneBlock ==
    ASSUME NEW b, IsSound(b), NEW pos \in 0 .. b.size - 1, NEW bits,
           NEW k, k = pos \div 8 + 1,
           \A bit : bit # pos % 8 => (bit \in bits <=> bit \in b.blocks[k]),
           NEW z, z = [b EXCEPT !.blocks[k] = bits]
    PROVE  /\ IsSound(z) /\ z.size = b.size
           /\ \A p \in 0 .. b.size - 1 : p # pos => (Test(z, p) <=> Test(b, p))
           /\ Test(z, pos) <=> pos % 8 \in bits
  <1> DEFINE new == [b.blocks EXCEPT ![k] = bits]
  <1>1. /\ b.size \in Nat /\ b.blocks \in Seq(SUBSET (0 .. 7)) /\ IsBitset(b)
        /\ Len(b.blocks) = (b.size + 7) \div 8 /\ UnusedAreZero(b)
    BY DEF IsSound, IsBitset
  <1>2. /\ k \in 1 .. Len(b.blocks) /\ pos % 8 \in 0 .. 7
        /\ 8 * (k - 1) + (pos % 8) = pos
    BY <1>1, TestAt
  <1>3. bits \in SUBSET (0 .. 7)
    <2>1. b.blocks[k] \in SUBSET (0 .. 7)
      BY ONLY Zenon, <1>1, <1>2, ElementIn
    <2>2. QED
      BY Zenon, <1>2, <2>1
  <1>4. new \in Seq(SUBSET (0 .. 7)) /\ Len(new) = Len(b.blocks)
        /\ \A i \in 1 .. Len(b.blocks) : new[i] = IF i = k THEN bits ELSE b.blocks[i]
    BY ONLY SMT, <1>1, <1>2, <1>3 DEF new
  <1> HIDE DEF new
  <1>5. z = [size |-> b.size, blocks |-> new]
    <2>1. z = [b EXCEPT !.blocks = new]
      BY Zenon DEF new
    <2>2. QED
      BY ONLY Zenon, <1>1, <2>1, OtherBlocks
  <1>6. z.size = b.size /\ z.blocks = new
    BY SMT, <1>5
  <1>7. IsBitset(z)
    BY Zenon, <1>1, <1>4, <1>5, <1>6 DEF IsBitset
  <1>8. UnusedAreZero(z)
    <2> SUFFICES ASSUME NEW i \in 1 .. Len(b.blocks), NEW bit \in new[i]
                 PROVE  8 * (i - 1) + bit < b.size
      BY Zenon, <1>4, <1>6 DEF UnusedAreZero
    <2>1. CASE bit \in b.blocks[i]
      BY Zenon, <1>1, <2>1 DEF UnusedAreZero
    <2>2. CASE bit \notin b.blocks[i]
      <3>1. i = k /\ bit = pos % 8
        BY Zenon, <1>4, <2>2
      <3>2. pos < b.size
        BY SMT, <1>1
      <3>3. QED
        BY Zenon, <1>2, <3>1, <3>2
    <2>3. QED
      BY <2>1, <2>2
  <1>9. ASSUME NEW p \in 0 .. b.size - 1, p # pos
        PROVE  Test(z, p) <=> Test(b, p)
    <2>1. /\ p \div 8 + 1 \in 1 .. Len(b.blocks)
          /\ 8 * ((p \div 8 + 1) - 1) + (p % 8) = p
      BY <1>1, TestAt
    <2>2. CASE p \div 8 + 1 = k
      <3>1. p % 8 # pos % 8
        BY Zenon, <1>2, <1>9, <2>1, <2>2
      <3>2. QED
        BY Zenon, <1>4, <1>6, <2>1, <2>2, <3>1 DEF Test
    <2>3. CASE p \div 8 + 1 # k
      BY Zenon, <1>4, <1>6, <2>1, <2>3 DEF Test
    <2>4. QED
      BY <2>2, <2>3
  <1>10. Test(z, pos) <=> pos % 8 \in bits
    BY Zenon, <1>2, <1>4, <1>6 DEF Test
  <1>11. QED
    BY Zenon, <1>6, <1>7, <1>8, <1>9, <1>10 DEF IsSound

(***************************************************************************)
(* set, clear and flip of one bit (bitset.hpp 48-56, 67-73), for every     *)
(* size: that bit changes and no other does, whatever block they share.    *)
(***************************************************************************)
THEOREM OneBitChanges ==
    ASSUME NEW b, IsSound(b), NEW pos \in 0 .. b.size - 1
    PROVE  /\ IsSound(set(b, pos)) /\ set(b, pos).size = b.size
           /\ Ones(set(b, pos)) = Ones(b) \cup {pos}
           /\ IsSound(clear(b, pos)) /\ clear(b, pos).size = b.size
           /\ Ones(clear(b, pos)) = Ones(b) \ {pos}
           /\ flip(b, pos) = IF pos \in Ones(b) THEN clear(b, pos) ELSE set(b, pos)
  <1> DEFINE k == pos \div 8 + 1
  <1>1. /\ IsSound(set(b, pos)) /\ set(b, pos).size = b.size
        /\ \A p \in 0 .. b.size - 1 : p # pos => (Test(set(b, pos), p) <=> Test(b, p))
        /\ Test(set(b, pos), pos)
    <2> DEFINE bits == b.blocks[k] \cup {pos % 8}
    <2>1. \A bit : bit # pos % 8 => (bit \in bits <=> bit \in b.blocks[k])
      BY Zenon
    <2>2. set(b, pos) = [b EXCEPT !.blocks[k] = bits]
      BY Zenon DEF set
    <2>3. pos % 8 \in bits
      BY Zenon
    <2> HIDE DEF bits, k
    <2>4. k = pos \div 8 + 1
      BY DEF k
    <2>5. QED
      BY SMT, <2>1, <2>2, <2>3, <2>4, OneBlock
  <1>2. /\ IsSound(clear(b, pos)) /\ clear(b, pos).size = b.size
        /\ \A p \in 0 .. b.size - 1 : p # pos => (Test(clear(b, pos), p) <=> Test(b, p))
        /\ ~Test(clear(b, pos), pos)
    <2> DEFINE bits == b.blocks[k] \ {pos % 8}
    <2>1. \A bit : bit # pos % 8 => (bit \in bits <=> bit \in b.blocks[k])
      BY Zenon
    <2>2. clear(b, pos) = [b EXCEPT !.blocks[k] = bits]
      BY Zenon DEF clear
    <2>3. pos % 8 \notin bits
      BY Zenon
    <2> HIDE DEF bits, k
    <2>4. k = pos \div 8 + 1
      BY DEF k
    <2>5. QED
      BY SMT, <2>1, <2>2, <2>3, <2>4, OneBlock
  <1>3. Ones(set(b, pos)) = Ones(b) \cup {pos}
    BY Zenon, <1>1 DEF Ones
  <1>4. Ones(clear(b, pos)) = Ones(b) \ {pos}
    BY Zenon, <1>2 DEF Ones
  <1>5. flip(b, pos) = IF pos \in Ones(b) THEN clear(b, pos) ELSE set(b, pos)
    BY Zenon DEF flip, Ones
  <1>6. QED
    BY Zenon, <1>1, <1>2, <1>3, <1>4, <1>5

(***************************************************************************)
(* operator|= and zero_all_bits (bitset.hpp 96-106), for every size: the   *)
(* union of two bitsets and the empty one, without ones beyond the bits.   *)
(***************************************************************************)
THEOREM OrAndZero ==
    ASSUME NEW b, IsSound(b), NEW o, IsSound(o), o.size = b.size
    PROVE  /\ IsSound(or_assign(b, o)) /\ or_assign(b, o).size = b.size
           /\ Ones(or_assign(b, o)) = Ones(b) \cup Ones(o)
           /\ IsSound(zero_all_bits(b)) /\ zero_all_bits(b).size = b.size
           /\ Ones(zero_all_bits(b)) = {}
  <1>1. /\ b.size \in Nat /\ b.blocks \in Seq(SUBSET (0 .. 7)) /\ IsBitset(b)
        /\ Len(b.blocks) = (b.size + 7) \div 8 /\ UnusedAreZero(b)
        /\ o.blocks \in Seq(SUBSET (0 .. 7)) /\ IsBitset(o)
        /\ Len(o.blocks) = (b.size + 7) \div 8 /\ UnusedAreZero(o)
    BY DEF IsSound, IsBitset
  <1>2. PICK N \in Nat : N = Len(b.blocks) /\ N = Len(o.blocks) /\ N = (b.size + 7) \div 8
    BY SMT, <1>1
  <1>3. PICK both : both = [i \in 1 .. N |-> b.blocks[i] \cup o.blocks[i]]
    OBVIOUS
  <1>4. PICK none : none = [i \in 1 .. N |-> {}]
    OBVIOUS
  <1>5. \A i \in 1 .. N : b.blocks[i] \cup o.blocks[i] \in SUBSET (0 .. 7)
    <2> SUFFICES ASSUME NEW i \in 1 .. N PROVE b.blocks[i] \cup o.blocks[i] \in SUBSET (0 .. 7)
      OBVIOUS
    <2>1. b.blocks[i] \in SUBSET (0 .. 7) /\ o.blocks[i] \in SUBSET (0 .. 7)
      BY SMT, <1>1, <1>2
    <2>2. QED
      BY Zenon, <2>1
  <1>6. both \in Seq(SUBSET (0 .. 7)) /\ Len(both) = N
    <2>1. both \in [1 .. N -> SUBSET (0 .. 7)]
      BY Zenon, <1>3, <1>5
    <2>2. QED
      BY Zenon, <2>1, FunctionIsSeq
  <1>7. none \in Seq(SUBSET (0 .. 7)) /\ Len(none) = N
    BY SMT, <1>4
  <1>8. or_assign(b, o) = [size |-> b.size, blocks |-> both]
    <2>1. or_assign(b, o) = [b EXCEPT !.blocks = both]
      BY Zenon, <1>2, <1>3 DEF or_assign
    <2>2. QED
      BY ONLY Zenon, <1>1, <2>1, OtherBlocks
  <1>9. zero_all_bits(b) = [size |-> b.size, blocks |-> none]
    <2>1. zero_all_bits(b) = [b EXCEPT !.blocks = none]
      BY Zenon, <1>2, <1>4 DEF zero_all_bits
    <2>2. QED
      BY ONLY Zenon, <1>1, <2>1, OtherBlocks
  <1>10. /\ or_assign(b, o).size = b.size /\ or_assign(b, o).blocks = both
         /\ zero_all_bits(b).size = b.size /\ zero_all_bits(b).blocks = none
    BY SMT, <1>8, <1>9
  <1>11. IsBitset(or_assign(b, o)) /\ IsBitset(zero_all_bits(b))
    BY Zenon, <1>1, <1>2, <1>6, <1>7, <1>8, <1>9, <1>10 DEF IsBitset
  <1>12. UnusedAreZero(or_assign(b, o))
    BY Zenon, <1>1, <1>2, <1>3, <1>6, <1>10 DEF UnusedAreZero
  <1>13. UnusedAreZero(zero_all_bits(b))
    BY Zenon, <1>4, <1>7, <1>10 DEF UnusedAreZero
  <1>14. ASSUME NEW pos \in 0 .. b.size - 1
         PROVE  /\ Test(or_assign(b, o), pos) <=> Test(b, pos) \/ Test(o, pos)
                /\ ~Test(zero_all_bits(b), pos)
    <2>1. pos \div 8 + 1 \in 1 .. N
      <3>1. pos \div 8 + 1 \in 1 .. Len(b.blocks)
        BY <1>1, TestAt
      <3>2. QED
        BY Zenon, <1>2, <3>1
    <2>2. QED
      BY Zenon, <1>3, <1>4, <1>10, <2>1 DEF Test
  <1>15. Ones(or_assign(b, o)) = Ones(b) \cup Ones(o) /\ Ones(zero_all_bits(b)) = {}
    BY Zenon, <1>10, <1>14 DEF Ones
  <1>16. QED
    BY Zenon, <1>10, <1>11, <1>12, <1>13, <1>15 DEF IsSound

LEMMA EmptyIsSound == IsSound(Empty) /\ Empty.size = 0
  <1>1. Empty.size = 0 /\ Empty.blocks = << >> /\ Empty = [size |-> 0, blocks |-> << >>]
    BY SMT DEF Empty
  <1>2. Len(Empty.blocks) = 0 /\ Empty.blocks \in Seq(SUBSET (0 .. 7))
    BY SMT, <1>1
  <1>3. IsBitset(Empty)
    BY SMT, <1>1, <1>2 DEF IsBitset
  <1>4. UnusedAreZero(Empty)
    BY SMT, <1>2 DEF UnusedAreZero
  <1>5. QED
    BY <1>1, <1>3, <1>4 DEF IsSound

(***************************************************************************)
(* to_string and from_string (bitset.hpp 142-171), for every size: the     *)
(* text of a bitset is read back as that bitset, block by block.           *)
(***************************************************************************)
THEOREM BitsetTextComesBack ==
    ASSUME NEW b, IsSound(b), SizeFits(b.size)
    PROVE  from_string(to_string(b)) = {b}
  <1>1. PICK n \in Nat : n = b.size
    BY DEF IsSound, IsBitset
  <1>2. PICK text : text = [i \in 1 .. n |-> IF Test(b, n - i) THEN "1" ELSE "0"]
    OBVIOUS
  <1>3. to_string(b) = text
    BY Zenon, <1>1, <1>2 DEF to_string
  <1>4. Len(text) = n
    BY SMT, <1>2
  <1>5. \A i \in 1 .. n : text[i] \in {"0", "1"}
    BY Zenon, <1>2
  <1>6. PICK empty : empty = resize(Empty, n)
    OBVIOUS
  <1>7. IsSound(empty) /\ empty.size = n
    BY Zenon, <1>1, <1>6, EmptyIsSound, ResizeKeepsBits
  <1>8. PICK N \in Nat : N = Len(empty.blocks) /\ N = (n + 7) \div 8 /\ IsBitset(empty)
    BY SMT, <1>7 DEF IsSound, IsBitset
  <1> DEFINE Block(k) == {bit \in 0 .. 7 : /\ 8 * (k - 1) + bit < n
                                           /\ text[n - (8 * (k - 1) + bit)] = "1"}
  <1>9. PICK blocks : blocks = [k \in 1 .. N |-> Block(k)]
    OBVIOUS
  <1>10. from_string(text) = {[empty EXCEPT !.blocks = blocks]}
    BY ZenonT(60), <1>4, <1>5, <1>6, <1>8, <1>9 DEF from_string
  <1>11. \A k \in 1 .. N : Block(k) \in SUBSET (0 .. 7)
    BY Zenon
  <1>12. blocks \in Seq(SUBSET (0 .. 7)) /\ Len(blocks) = N
    <2> HIDE DEF Block
    <2>1. QED
      BY SMT, <1>9, <1>11
  <1>13. PICK read : read = [size |-> n, blocks |-> blocks]
    OBVIOUS
  <1>14. from_string(text) = {read}
    <2>1. [empty EXCEPT !.blocks = blocks] = read
      BY ONLY Zenon, <1>7, <1>8, <1>13, OtherBlocks
    <2>2. QED
      BY ONLY Zenon, <1>10, <2>1
  <1>15. read.size = n /\ read.blocks = blocks
    BY SMT, <1>13
  <1>16. IsSound(read)
    <2>1. IsBitset(read)
      BY Zenon, <1>8, <1>12, <1>13, <1>15 DEF IsBitset
    <2>2. \A k \in 1 .. N : \A bit \in Block(k) : 8 * (k - 1) + bit < n
      BY Zenon
    <2>3. UnusedAreZero(read)
      BY Zenon, <1>9, <1>12, <1>15, <2>2 DEF UnusedAreZero
    <2>4. QED
      BY <2>1, <2>3 DEF IsSound
  <1>17. ASSUME NEW pos \in 0 .. n - 1
         PROVE  Test(read, pos) <=> Test(b, pos)
    <2>1. /\ pos \div 8 + 1 \in 1 .. N /\ pos % 8 \in 0 .. 7
          /\ 8 * ((pos \div 8 + 1) - 1) + (pos % 8) = pos
      <3>1. pos \in Nat /\ pos < n
        BY SMT
      <3>2. QED
        BY <1>8, <3>1, PlaceOfBit
    <2>2. Test(read, pos) <=> pos % 8 \in Block(pos \div 8 + 1)
      <3> HIDE DEF Block
      <3>1. blocks[pos \div 8 + 1] = Block(pos \div 8 + 1)
        BY Zenon, <1>9, <2>1
      <3>2. QED
        BY Zenon, <1>15, <3>1 DEF Test
    <2>3. @ <=> pos < n /\ text[n - pos] = "1"
      BY Zenon, <2>1
    <2>4. n - pos \in 1 .. n /\ n - (n - pos) = pos /\ pos < n
      BY SMT
    <2>5. text[n - pos] = IF Test(b, pos) THEN "1" ELSE "0"
      BY Zenon, <1>2, <2>4
    <2>6. QED
      BY Zenon, <2>2, <2>3, <2>4, <2>5
  <1>18. Ones(read) = Ones(b)
    BY Zenon, <1>1, <1>15, <1>17 DEF Ones
  <1>19. read = b
    BY Zenon, <1>1, <1>15, <1>16, <1>18, SameBits
  <1>20. QED
    BY Zenon, <1>3, <1>14, <1>19
=============================================================================
