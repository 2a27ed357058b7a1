------------------------------ MODULE AbiSchema ------------------------------
(***************************************************************************)
(* The resolved type table of one ABI: the abi_type nodes that abi.cpp     *)
(* leaves behind once convert() has replaced every definition by pointers. *)
(* The three conversions (JsonToBin, JvalueToBin, BinToJson) walk this     *)
(* table.  A node is a member of Types and a pointer to it is its name.    *)
(*                                                                         *)
(* Aliases have disappeared: get_type returns what an alias points at.     *)
(* Inheritance has disappeared: resolve(struct_def) copies the fields of   *)
(* the base in front of the struct's own.                                  *)
(***************************************************************************)
EXTENDS Integers, Sequences

CONSTANTS
    Types,     \* the nodes of abi::abi_types that are not aliases
    Kind,      \* which alternative of abi_type::_data a node holds
    Element,   \* optional_of / extension_of / array_of / fixed_array_of
    Size,      \* fixed_array::size
    Fields,    \* struct_::fields, or the alternatives of a variant
    Strings,   \* the texts of keys, type names and scalars
    MaxByte,   \* largest value of a one-byte scalar
    TextOf     \* the text to_json writes for a scalar, one per byte

Kinds == {"builtin", "optional", "extension", "array", "fixed_array",
          "struct", "variant"}

Byte == 0 .. MaxByte

ASSUME ByteAssumption ==
    /\ MaxByte \in Nat
    /\ TextOf \in [Byte -> Strings]
    /\ \A b, c \in Byte : TextOf[b] = TextOf[c] => b = c

(***************************************************************************)
(* The shape of the table (abi_field, abi_type::_data).                    *)
(***************************************************************************)
ASSUME TableAssumption ==
    /\ Kind    \in [Types -> Kinds]
    /\ Element \in [Types -> Types]
    /\ Size    \in [Types -> Nat \ {0}]
    /\ Fields  \in [Types -> Seq([name : Strings, type : Types])]

(***************************************************************************)
(* What get_type checks before it adds a node: no optional of an optional  *)
(* or an extension, no array of either, no extension of an extension.  It  *)
(* is why starting a value pushes at most one stack entry.                 *)
(***************************************************************************)
ASSUME NestingAssumption ==
    \A t \in Types :
        /\ Kind[t] \in {"optional", "array", "fixed_array"} =>
               Kind[Element[t]] \notin {"optional", "extension"}
        /\ Kind[t] = "extension" => Kind[Element[t]] # "extension"

Extension(t) == Kind[t] = "extension"

\* The type below the pseudo_extension serializer.
Unextended(t) == IF Extension(t) THEN Element[t] ELSE t

Optional(t) == Kind[Unextended(t)] = "optional"

\* The type below both pseudo serializers that push no stack entry.
Base(t) == IF Optional(t) THEN Element[Unextended(t)] ELSE Unextended(t)

\* `position` counts from 0 (and from -1 before the first field) in the code.
Field(t, position) == Fields[t][position + 1]

\* allow_extensions && &field == &fields.back()
AllowIn(t, position, allow) == allow /\ position + 1 = Len(Fields[t])

\* from_json accepts the text of a one-byte scalar and nothing else.
Scalars == {TextOf[b] : b \in Byte}
ByteOf(text) == CHOOSE b \in Byte : TextOf[b] = text

(***************************************************************************)
(* Fields of extension type come last: what the code never checks of an    *)
(* ABI, and what makes a skipped extension harmless.                       *)
(***************************************************************************)
ExtensionsLast ==
    \A t \in Types : Kind[t] = "struct" =>
        \A i, j \in DOMAIN Fields[t] :
            i < j /\ Extension(Fields[t][i].type) => Extension(Fields[t][j].type)
==============================================================================
