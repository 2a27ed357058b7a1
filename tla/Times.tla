-------------------------------- MODULE Times --------------------------------
(***************************************************************************)
(* time_point_sec, time_point and block_timestamp in text                  *)
(* (chain_conversions.hpp, time.hpp).  A time is modelled as the pair of   *)
(* its day since 1970 and the second in it, with the microsecond in a      *)
(* time_point; the slot of a block, half a second long, as its day since   *)
(* 2025 and the half second in it.  A text is the record of its six        *)
(* numbers and of what follows them: nothing, a point with any digits, or  *)
(* anything else.  The dates are those of Calendar.                        *)
(***************************************************************************)
EXTENDS Calendar, Sequences

LOCAL INSTANCE SequencesExt

SecondsPerDay == 86400

(* 2^32 seconds as days and seconds. *)
Wrap == [day |-> 49710, sec |-> 23296]

(* Days and seconds as a number of 32 bits: k times 2^32 is taken off. *)
Wrapped(day, sec) ==
    LET Less(k) == [day |-> day - k * Wrap.day + (sec - k * Wrap.sec) \div SecondsPerDay,
                    sec |-> (sec - k * Wrap.sec) % SecondsPerDay]
        k == CHOOSE k \in -20 .. 80 :
                 /\ Less(k).day >= 0
                 /\ \/ Less(k).day < Wrap.day
                    \/ Less(k).day = Wrap.day /\ Less(k).sec < Wrap.sec
    IN  Less(k)

(* The seconds of the six numbers, and no look at what follows. *)
utc_seconds(text) == Wrapped(to_days(text.date), text.h * 3600 + text.min * 60 + text.sec)

string_to_utc_seconds(text) == IF text.tail = "other" THEN {} ELSE {utc_seconds(text)}

(* Six digits after the point at most; a digit's scale is its place. *)
string_to_utc_microseconds(text) ==
    IF text.tail = "other" \/ Len(text.fraction) > 6 THEN {}
    ELSE {[day |-> utc_seconds(text).day, sec |-> utc_seconds(text).sec,
           micro |-> FoldLeft(LAMBDA n, i : n + text.fraction[i] * 10 ^ (6 - i), 0,
                              [i \in 1 .. Len(text.fraction) |-> i])]}

(* Four digits of the year are written, and three of the second's fraction.*)
microseconds_to_str(time, micro) ==
    [date |-> [from_days(time.day) EXCEPT !.y = @ % 10000],
     h    |-> time.sec \div 3600,
     min  |-> (time.sec \div 60) % 60,
     sec  |-> time.sec % 60,
     tail |-> "fraction",
     fraction |-> [i \in 1 .. 3 |-> (micro \div 10 ^ (6 - i)) % 10]]

----------------------------------------------------------------------------
(* 2025-01-01, the slots of a day, and 2^32 slots as days and slots. *)
EpochDay == 20089
SlotsPerDay == 2 * SecondsPerDay
SlotWrap == [day |-> 24855, half |-> 23296]

Slots(day, half) == [day |-> day + half \div SlotsPerDay, half |-> half % SlotsPerDay]

(* The cast to 32 bits. *)
WrappedSlot(slots) ==
    IF slots.day < 0 THEN Slots(slots.day + SlotWrap.day, slots.half + SlotWrap.half)
    ELSE IF slots.day > SlotWrap.day \/ (slots.day = SlotWrap.day /\ slots.half >= SlotWrap.half)
    THEN Slots(slots.day - SlotWrap.day, slots.half - SlotWrap.half)
    ELSE slots

(* Faulty: the overload for time_point_sec is taken. *)
to_block_timestamp_of_seconds(time) ==
    WrappedSlot(Slots(time.day - EpochDay, 2 * time.sec))

(* Division truncates: a time before the epoch is in the later of the two  *)
(* slots it lies between, and its slot wraps.                              *)
to_block_timestamp(time) ==
    LET day   == time.day - EpochDay
        halves == 2 * time.sec + time.micro \div 500000
        over  == IF (time.micro \div 1000) % 500 # 0 THEN 1 ELSE 0
    IN  WrappedSlot(Slots(day, IF day < 0 THEN halves + over ELSE halves))

to_time_point(slots) ==
    [day |-> EpochDay + slots.day, sec |-> slots.half \div 2, micro |-> (slots.half % 2) * 500000]

string_to_block_timestamp(text) ==
    {to_block_timestamp(time) : time \in string_to_utc_microseconds(text)}
=============================================================================
