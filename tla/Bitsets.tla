-------------------------------- MODULE Bitsets -------------------------------
(***************************************************************************)
(* The bitset of bitset.hpp: a number of bits and blocks of eight of them, *)
(* low ones first.  A block is modelled as the set of the positions of its *)
(* ones.  Sizes have the width of Varint's integers; those close to the    *)
(* top, where calc_num_blocks wraps to 0 and zero_unused_bits touches a    *)
(* block that is not there, are not among the inputs.                      *)
(***************************************************************************)
EXTENDS Varint, FiniteSetsExt

calc_num_blocks(num_bits) == ((num_bits + 7) % 2 ^ Bits) \div 8

BitsOf(byte) == {b \in 0 .. 7 : (byte \div 2 ^ b) % 2 = 1}
ByteOf(block) == MapThenSumSet(LAMBDA b : 2 ^ b, block)

(* Faulty: the unused bits of the last block stay. *)
keep_unused_bits(bitset) == bitset

zero_unused_bits(bitset) ==
    LET extra_bits == bitset.size % 8
    IN  IF extra_bits = 0 THEN bitset
        ELSE [bitset EXCEPT !.blocks[Len(bitset.blocks)] = @ \cap 0 .. extra_bits - 1]

Empty == [size |-> 0, blocks |-> <<>>]

(* Blocks that are there already stay as they are. *)
resize(bitset, num_bits) ==
    LET Block(i) == IF i <= Len(bitset.blocks) THEN bitset.blocks[i] ELSE {}
    IN  zero_unused_bits([size   |-> num_bits,
                          blocks |-> [i \in 1 .. calc_num_blocks(num_bits) |-> Block(i)]])

Test(bitset, pos) == pos % 8 \in bitset.blocks[pos \div 8 + 1]

set(bitset, pos) == [bitset EXCEPT !.blocks[pos \div 8 + 1] = @ \cup {pos % 8}]
clear(bitset, pos) == [bitset EXCEPT !.blocks[pos \div 8 + 1] = @ \ {pos % 8}]
flip(bitset, pos) == IF Test(bitset, pos) THEN clear(bitset, pos) ELSE set(bitset, pos)

(* Whole blocks are flipped, the unused bits among them. *)
flip_all(bitset) ==
    zero_unused_bits([bitset EXCEPT !.blocks =
                         [i \in 1 .. Len(bitset.blocks) |-> 0 .. 7 \ bitset.blocks[i]]])

zero_all_bits(bitset) ==
    [bitset EXCEPT !.blocks = [i \in 1 .. Len(bitset.blocks) |-> {}]]

or_assign(bitset, o) ==
    [bitset EXCEPT !.blocks = [i \in 1 .. Len(bitset.blocks) |-> bitset.blocks[i] \cup o.blocks[i]]]

(* The highest bit is the first character. *)
from_string(text) ==
    LET n     == Len(text)
        empty == resize(Empty, n)
    IN  IF \E i \in 1 .. n : text[i] \notin {"0", "1"} THEN {}
        ELSE {[empty EXCEPT !.blocks =
                  [k \in 1 .. Len(empty.blocks) |->
                      {b \in 0 .. 7 : LET pos == 8 * (k - 1) + b
                                      IN  pos < n /\ text[n - pos] = "1"}]]}

to_string(bitset) ==
    [i \in 1 .. bitset.size |-> IF Test(bitset, bitset.size - i) THEN "1" ELSE "0"]

to_bin(bitset) ==
    varuint32_to_bin(bitset.size)
    \o [i \in 1 .. calc_num_blocks(bitset.size) |-> ByteOf(bitset.blocks[i])]

(* The unused bits of the last byte are ignored. *)
from_bin(bin) ==
    {zero_unused_bits([size   |-> r[1],
                       blocks |-> [i \in 1 .. calc_num_blocks(r[1]) |-> BitsOf(bin[r[2] + i])]]) :
        r \in {q \in varuint32_from_bin(bin) : q[2] + calc_num_blocks(q[1]) <= Len(bin)}}
=============================================================================
