------------------------------ MODULE FixedBytes ------------------------------
(***************************************************************************)
(* fixed_bytes, of which the checksums are made (fixed_bytes.hpp): a       *)
(* number of bytes kept in words, the first byte in the highest part of    *)
(* the first word, so that words sort as the bytes do.  A type is the      *)
(* record of its size and of the bytes of a word; what the last word has   *)
(* too many stays 0.                                                       *)
(***************************************************************************)
EXTENDS Integers, Sequences, SequencesExt

count_words(T) == (T.size + T.word - 1) \div T.word

(* The highest bytes of a word first. *)
write_be(word, bytes) == [i \in 1 .. bytes |-> (word \div 256 ^ (bytes - i)) % 256]

(* Missing bytes are 0. *)
read_be(T, bytes, first) ==
    FoldLeft(LAMBDA n, i : 256 * n + (IF i <= Len(bytes) THEN bytes[i] ELSE 0),
             0, [k \in 1 .. T.word |-> first + k - 1])

extract_as_byte_array(T, words) ==
    SubSeq(FlattenSeq([i \in 1 .. Len(words) |-> write_be(words[i], T.word)]), 1, T.size)

convert_array(T, bytes) ==
    [i \in 1 .. count_words(T) |-> read_be(T, bytes, (i - 1) * T.word + 1)]
===============================================================================
