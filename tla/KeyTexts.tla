------------------------------- MODULE KeyTexts -------------------------------
(***************************************************************************)
(* Public keys, private keys and signatures in text (crypto.cpp): a prefix *)
(* for the type, then the bytes and a checksum of them in base 58.  Radix  *)
(* is that base, 58 in the code, Byte the values of a byte, 256 there, and *)
(* ChecksumSize the bytes of the checksum, 4 there.  A digit is its value; *)
(* the table that maps characters to digits is filled from the array of 58 *)
(* digits and the 0 that ends it, so the character 0 is read as the digit  *)
(* Radix.  -1 is any character that is no digit.                           *)
(***************************************************************************)
EXTENDS Codec, BigNumbers

CONSTANTS Radix, Byte, ChecksumSize,
          KeySize, PrivateSize, SignatureSize,  \* 33, 32 and 65 in the code
          Checksum(_, _)    \* RIPEMD-160 of the bytes and the suffix, cut off

ASSUME KeyTextAssumption ==
    /\ Radix \in Nat /\ Byte \in Nat
    /\ 1 < Radix /\ Radix < Byte /\ Byte <= 256
    /\ {KeySize, PrivateSize, SignatureSize, ChecksumSize} \subseteq Nat

ByteArray(n) == [kind |-> "array", of |-> [kind |-> "uint", bytes |-> 1], size |-> n]

webauthn_public_key ==
    [kind |-> "tuple",
     of   |-> <<ByteArray(KeySize), [kind |-> "uint", bytes |-> 1], [kind |-> "string"]>>]
webauthn_signature ==
    [kind |-> "tuple",
     of   |-> <<ByteArray(SignatureSize),
                [kind |-> "vector", of |-> [kind |-> "uint", bytes |-> 1]], [kind |-> "string"]>>]

(* The kinds of keys, in the order of the variants; private keys have no   *)
(* text but those of the first two.  A text is its prefix and suffix, for  *)
(* the family and the kind, and its digits.                                *)
KeyKinds == <<"K1", "R1", "WA", "EM", "ED">>

Family ==
    [public_key  |-> [kind |-> "variant",
                      of   |-> [[i \in 1 .. 5 |-> ByteArray(KeySize)] EXCEPT ![3] = webauthn_public_key]],
     private_key |-> [kind |-> "variant", of |-> [i \in 1 .. 3 |-> ByteArray(PrivateSize)]],
     signature   |-> [kind |-> "variant",
                      of   |-> [[i \in 1 .. 5 |-> ByteArray(SignatureSize)] EXCEPT ![3] = webauthn_signature]]]

Written == [public_key |-> 1 .. 5, private_key |-> 1 .. 2, signature |-> 1 .. 5]
Prefix == [public_key |-> "PUB_", private_key |-> "PVT_", signature |-> "SIG_"]

LeadingZeros(s) ==
    CHOOSE n \in 0 .. Len(s) :
        /\ \A i \in 1 .. n : s[i] = 0
        /\ n < Len(s) => s[n + 1] # 0

Zeros(n) == [i \in 1 .. n |-> 0]

(* One more byte at most for each digit: a carry fits in a byte. *)
base58_to_binary(s) ==
    LET Consume(bytes, digit) ==
            LET r == MultiplyAdd(bytes, Byte, Radix, digit)
            IN  IF r.carry = 0 THEN r.digits ELSE Append(r.digits, r.carry % Byte)
    IN  Reverse(FoldLeft(Consume, <<>>, s) \o Zeros(LeadingZeros(s)))

binary_to_base58(bin) ==
    LET Consume(digits, byte) ==
            LET r == MultiplyAdd(digits, Radix, Byte, byte)
            IN  r.digits \o CarryDigits(r.carry, Radix)
    IN  Reverse(FoldLeft(Consume, <<>>, bin) \o Zeros(LeadingZeros(bin)))

convert_from_bin(T, bin) == {r[1] : r \in value_from_bin(T, bin)}

IsBase58(digits) == \A i \in 1 .. Len(digits) : digits[i] >= 0

(* At least one byte before the checksum; bytes after the key are ignored. *)
string_to_key(family, digits, index, suffix) ==
    LET whole == base58_to_binary(digits)
        n     == Len(whole) - ChecksumSize
        data  == SubSeq(whole, 1, n)
    IN  IF /\ IsBase58(digits)
           /\ n >= 1
           /\ SubSeq(whole, n + 1, Len(whole)) = Checksum(data, suffix)
        THEN convert_from_bin(Family[family], <<index - 1>> \o data)
        ELSE {}

(* The type's byte is dropped: the prefix stands for it. *)
key_to_string(family, key) ==
    IF key.index + 1 \notin Written[family] THEN {}
    ELSE LET suffix == KeyKinds[key.index + 1]
         IN  {[prefix |-> Prefix[family], suffix |-> suffix,
               digits |-> binary_to_base58(Tail(bin) \o Checksum(Tail(bin), suffix))] :
                 bin \in convert_to_bin(Family[family], key)}

(* Private keys were once written without a prefix: what stands for the    *)
(* type is dropped, and so is the checksum, which nobody compares.         *)
legacy_private_key(digits) ==
    LET whole == base58_to_binary(digits)
        n     == Len(whole) - ChecksumSize
    IN  IF IsBase58(digits) /\ n >= 1
        THEN convert_from_bin(Family["private_key"], <<0>> \o SubSeq(whole, 2, n))
        ELSE {}

(* The old form of a public key has no type and no suffix. *)
key_from_string(family, text) ==
    IF family = "public_key" /\ text.prefix = "SYS" THEN string_to_key(family, text.digits, 1, "")
    ELSE IF family = "private_key" /\ text.prefix = "" THEN legacy_private_key(text.digits)
    ELSE IF text.prefix # Prefix[family] THEN {}
    ELSE UNION {string_to_key(family, text.digits, index, KeyKinds[index]) :
                   index \in {i \in Written[family] : KeyKinds[i] = text.suffix}}
=============================================================================
