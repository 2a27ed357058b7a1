-------------------------------- MODULE Names --------------------------------
(***************************************************************************)
(* Account names (chain_conversions.hpp, name.hpp).  A name is a 64-bit    *)
(* number: NameSize five-bit digits, 12 in the code, and a last digit of   *)
(* the four bits that are left.  It is modelled as the sequence of its     *)
(* digits, a text as the sequence of the digits of its characters: "." is  *)
(* 0, "1" to "5" are 1 to 5, "a" to "z" are 6 to 31, and Other is any      *)
(* other character.                                                        *)
(***************************************************************************)
EXTENDS Integers, Sequences

CONSTANT NameSize

ASSUME NameAssumption == NameSize \in Nat

Other == 32

Padded(text) ==
    [i \in 1 .. NameSize + 1 |-> IF i <= Len(text) THEN text[i] ELSE 0]

(* Digits are cut to their width and other characters are dots: the        *)
(* conversion of the C interface never refuses.                            *)
string_to_name(text) ==
    [i \in 1 .. NameSize + 1 |->
        IF Padded(text)[i] = Other THEN 0
        ELSE IF i = NameSize + 1 THEN Padded(text)[i] % 16 ELSE Padded(text)[i]]

try_string_to_name_strict(text) ==
    IF \/ \E i \in 1 .. Len(text) : i <= NameSize + 1 /\ text[i] = Other
       \/ Len(text) > NameSize /\ text[NameSize + 1] >= 16
       \/ Len(text) > NameSize + 1
    THEN {}
    ELSE {Padded(text)}

(* murmur64 of the text stands in for a name that is none: any name.       *)
murmur64(names) == names

hash_name(text, names) ==
    IF try_string_to_name_strict(text) # {} THEN try_string_to_name_strict(text)
    ELSE murmur64(names)

name_to_string(name) ==
    LET last == CHOOSE k \in 0 .. NameSize + 1 :
                    /\ \A i \in k + 1 .. NameSize + 1 : name[i] = 0
                    /\ k > 0 => name[k] # 0
    IN  SubSeq(name, 1, last)
=============================================================================
