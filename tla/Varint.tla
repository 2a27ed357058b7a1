-------------------------------- MODULE Varint --------------------------------
(***************************************************************************)
(* The variable-length integers of the binary form (to_bin.hpp,            *)
(* from_bin.hpp, varint.hpp): seven bits a byte, the low ones first, the   *)
(* top bit of a byte set if another one follows.  Bits is the width of the *)
(* integer, 32 in the code, and MaxBytes the bytes its loop reads at most, *)
(* 5 in the code.  A reader gives the set of the pairs of value and number *)
(* of bytes read: empty when it refuses.                                   *)
(***************************************************************************)
EXTENDS Integers, Sequences

CONSTANTS Bits, MaxBytes

ASSUME VarintAssumption ==
    /\ Bits \in Nat \ {0} /\ MaxBytes \in Nat
    /\ 7 * (MaxBytes - 1) < Bits /\ Bits <= 7 * MaxBytes

varuint32_to_bin(val) ==
    LET n == CHOOSE k \in 1 .. MaxBytes : val < 128 ^ k /\ (k = 1 \/ val >= 128 ^ (k - 1))
    IN  [i \in 1 .. n |-> ((val \div 128 ^ (i - 1)) % 128) + (IF i < n THEN 128 ELSE 0)]

(* Bits shifted out at the top are lost, and longer forms than necessary   *)
(* are taken.                                                              *)
varuint_from_bin(bin, bits, bytes) ==
    LET ends == {i \in 1 .. Len(bin) : bin[i] < 128 /\ \A j \in 1 .. i - 1 : bin[j] >= 128}
        Shifted[i \in 0 .. Len(bin)] ==
            IF i = 0 THEN 0 ELSE Shifted[i - 1] + (bin[i] % 128) * 128 ^ (i - 1)
    IN  {<<Shifted[i] % 2 ^ bits, i>> : i \in {k \in ends : k <= bytes}}

varuint32_from_bin(bin) == varuint_from_bin(bin, Bits, MaxBytes)

(* (uint32(v) << 1) ^ uint32(v >> 31) and its inverse: the sign goes to    *)
(* the lowest bit.                                                         *)
ZigZag(v) == IF v >= 0 THEN 2 * v ELSE -2 * v - 1
UnZigZag(u) == IF u % 2 = 0 THEN u \div 2 ELSE -(u \div 2) - 1

varint32_to_bin(v) == varuint32_to_bin(ZigZag(v))
varint32_from_bin(bin) == {<<UnZigZag(r[1]), r[2]>> : r \in varuint32_from_bin(bin)}
=============================================================================
