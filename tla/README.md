# abieos in TLA+

abieos converts between JSON text, C++ values and the binary form of blockchain
data, driven by a contract's ABI. The interesting code is sequential but
intricate: three hand-written stack machines that must agree with each other, a
type table built from mutually referring definitions, a C interface that lends
pointers into its own state, and a set of value conversions whose corner cases
lie at the limits of numbers. This directory holds TLA+ models of these parts,
TLC configurations that check them on small instances, and TLAPS proofs of the
properties where "for every ABI" or "for every width" says more than an
instance.

Paths below are relative to the repository: `abieos.hpp`, `abi.cpp`,
`abieos.cpp`, `crypto.cpp`, `test.cpp` are in `src/`, the other headers in
`include/sysio/`.

    tlc -workers 2 -config MCJsonToBin.cfg MCJsonToBin.tla    # any MC module
    tlapm JsonToBin_proofs.tla                                # any *_proofs module

## 1. Inventory

| Component | State | Operations | What makes it correct |
|---|---|---|---|
| json_to_bin stack machine (`abieos.hpp` 202-275, 756-944) | stack of entries, output buffer, list of size insertions, `skipped_extension` | driver loop, one serializer per kind of type, the splice of the sizes | unchecked indexes are in range; sizes land where their array began; nothing follows an omitted extension |
| json_to_bin_reorderable (`abieos.hpp` 131-755) | event stack of raw pointers into a growing tree; then an encoder stack | `receive_event`, `json_to_jobject`, `json_to_jarray`, serializers over the tree | no pointer outlives its node; every unchecked `std::get` meets the kind that was checked; the loop ends |
| bin_to_json stack machine (`abieos.hpp` 945-1110) | input position, stack, JSON writer | driver loop, serializers, commas | well-formed JSON, bounded reads, inverse of the above |
| ABI type resolution (`abi.cpp`, `abi.hpp`) | map from names to nodes that point to each other | `convert` both ways, `resolve`, `fill`, `get_type`, `add_type<T>` | no definition is left unresolved; no forbidden nesting; circles are refused; the table only grows; its definitions lead back to it |
| C interface (`abieos.cpp`, `abieos.h`) | context: contracts, last error, last binary, last string | every exported function | lent pointers stay valid; errors are fresh; a failed call destroys nothing |
| JSON reader (`from_json.hpp` 164-380) | one token of lookahead over rapidjson | `peek_token`, `eat_token`, `get_*` | delivers what the grammar allows (rapidjson itself is external) |
| Integers in text and binary (`from_json.hpp`, `to_json.hpp`, `varint.hpp`, `from_bin.hpp`, `to_bin.hpp`) | none | `from_json_int`, `int_to_decimal`, varints | exact at the limits of every width; text and value are inverse |
| Names, symbols, times (`chain_conversions.hpp` and one header each) | none | text forms both ways, calendar, block slots | a value's text leads back to it; the calendar is the Gregorian one |
| Assets (`asset.hpp`) | amount, symbol, contract of each object | text forms; constructors, setters, operators of `asset` and `extended_asset` | an amount that was checked is the exact one; what a throwing operator leaves behind can be told |
| 128-bit integers without native support (`abieos_numeric.hpp`, `abieos.hpp` 406-459) | sixteen bytes | text forms, sign, negation | exact at both ends of the range |
| Checksums (`fixed_bytes.hpp`) | bytes in words | words and bytes both ways | bytes, order and key are those of the byte string |
| Bitset (`bitset.hpp`) | bits in blocks | changes of single and all bits, resize, text, binary, key | the unused bits of the last block are zero |
| Keys and signatures (`crypto.cpp`, `crypto.hpp`) | none | base 58, prefixes, checksum | text and key are inverse |
| Key codec (`to_key.hpp`) | none | `to_key` of every type | byte order of keys is the order of the values; no key is a prefix of another |
| Streams (`stream.hpp`) | position, end | bounds checks, counting pass and writing pass | no reader passes the end |
| Codec of C++ types (`from_bin.hpp`, `to_bin.hpp`, `convert.hpp`) | none | vectors, variants, reflected structs | decode inverts encode; no more is allocated than is there |
| JSON of C++ types (`from_json.hpp`, `to_json.hpp`) | the reader's token | strings and escapes, containers, reflected structs, skipped members | the text of a value leads back to it; unknown members change nothing |
| Tools, tests, fuzzer, state-history types, hash | - | - | - |

How they interact: the C interface parses an ABI (JSON reader or binary codec),
hands it to `convert`, and keeps the resulting type table per contract. A
conversion looks a type up (which may add derived types to the table), then runs
one of the stack machines from that node; the machines call the serializer that
the node points to and, for builtin types, the value conversions. Everything
runs in the caller's thread. There is no concurrency, no persistence and no
network, so there are no interleavings, crashes or lost messages to model. What
is hard instead:

* **Protocols between unchecked parts.** A serializer trusts that the reader
  never delivers a value where the stack expects a key, that a position kept in a
  stack entry still means the same field when the entry is on top again, that a
  tree node has the kind seen when it was pushed.
* **Pointers and iterators into moving data.** The event stack of the tree
  builder points into vectors that grow and objects that are overwritten by a
  repeated key; the context lends names that live in a map.
* **Left-out extensions.** Whether a `$` field may be missing depends on every
  enclosing level, on what was left out before, and on the order of the fields.
* **Three copies of one algorithm**, each with its own stack limit in a
  different place.
* **Boundaries**: wrapping amounts, four-bit last characters, division-based
  overflow tests, leap rules, escapes in keys.

PROJECT.json lists each of these hazards at its line with the properties that
cover it.

## 2. The models and the code

### The conversions

`AbiSchema` is the type table the machines walk: constants `Kind`, `Element`,
`Size`, `Fields` over a set `Types`, with the assumptions that `convert`
establishes (`TableSound` of `AbiTypes`, checked and proved there). Scalars stand for one builtin
type of one byte: which builtin it is, and what its text looks like, is of no
concern to the machines. `expected_number` stands for any error of a builtin's
`from_json`.

`JsonReader` is `json_token_stream` together with the grammar that rapidjson
follows: the text is not fixed in advance; whenever the code asks for a token,
every token the grammar allows may come, or the text turns out malformed. The
variable `doc` of the machines records what was read. Boolean tokens are left
out; a bool is a scalar with two values.

`JsonToBin` is `json_to_bin` for `json_to_bin_state`. An action is one turn of
the driver loop, that is, one serializer call with all it does: `Begin` the call
on the root type, `Object`, `Array`, `FixedArray`, `Variant` the calls on the top
entry, `RecursionLimit` the loop's own check, `SyntaxError` an exception out of
the reader, `Finish` the end of the loop with the splice. A struct serializer
that has just pushed its entry goes on without returning to the loop (past the
depth check): `pc = "object"` is that moment.

`JvalueToBin` is the reorderable conversion: `Build` one event of the tree
builder (`nodes` is the heap, addresses are indexes; a repeated key replaces the
subtree and frees it), `Built` its end, then `Encode`, `Object`, `Elements`,
`Variant` the serializers over the tree.

`BinToJson` is the conversion back; the text is the sequence of lexemes it
writes, commas included. A bool byte that is neither 0 nor 1 is an undefined
value of a C++ `bool`: the presence test may go either way.

`RoundTrip` composes the three machines on one document and `BinRoundTrip` two
of them on one binary, as `run_check_type` in `test.cpp` and the two tools do.

### What the conversions promise

`Format` is the binary format as a relation between a document, a tree, and its
bytes, written type by type without stacks, positions or flags. A document that
is only read in part is a tree whose innermost values are open; its set of
binaries is empty as soon as no continuation has one. `Conversion` is the
abstract specification of any conversion of JSON to binary: it reads tokens,
then succeeds with the binary of the document, or refuses a document that has
none, or meets a text that is no JSON or too deep. `JsonToBin` (fields in order,
`DepthLimit` one above the stack limit) and `JvalueToBin` (any order, the last
of a repeated key, unknown keys ignored) are both shown to implement it:
`MCJsonToBin` and `MCJvalueToBin` instantiate `Conversion` with a mapping of the
machine's variables (`Promised`), and `ImplementsConversion` is a property of
both runs. So the text decides the binary whichever way it is converted, an
extension is left out at the very end or not at all, and no document is refused
that has a binary.

`Wire` says the same of a whole text and its binary in a form that can be proved
about, without recursion over documents: `Codes(root, tokens, bin)` if there is a
way through both, token by token (`Way`). At each point of the way a stack says which
values are open and where in them it is, and how many bytes and array sizes came before;
each step is what one token stands for (`KeyMove`, `ScalarMove`, `NameMove`, ...). The
binary is given as json_to_bin makes it, bytes and sizes apart, and `Joined` puts the
sizes in their places. No machine of the models uses `Wire`; it is what the theorems
about the conversions in section 4 meet at.

### The type table

`AbiTypes` is `convert(const abi_def&, abi&)` and what can be done with its
table. `Enter` puts the definitions into the map, `Fill` is a turn of the last
loop, `Request` a later `get_type`, `AddCppType` an `add_type<T>` for a type of
the program (a struct that contains itself, a variant, one that is refused for its
nesting), and `Converted` ends the loop. `ConvertBack` makes definitions of the
table (`convert(const abi&, abi_def&)`) and goes on with those; `source` remembers
the nodes they were made from.

`get_type`, `resolve` and `add_type` call each other. The stack `calls` has a frame
for each call that is under way (what it does, for which name, at which depth, the
members it has resolved and those it has not), `returned` the type the call that
ended last gave back. An action is what one of them does up to its next call or
its return: `GetType`, `Derived` (after the type below is known), `ResolveAlias`,
`ResolveStruct`, `ResolveBase`, `ResolveMembers`; `AddType`, `AddDerivedType`,
`AddVariant`, `AddStruct`. An exception (`Throw`) drops the whole stack and leaves
the table as it is.

### The context

`Context` has one action per function of `abieos.h` that touches the context. An
ABI is one of a small set with the types it defines; what a conversion yields is
decided by `Fits`. `lent` records the type names the caller holds.

### The values

`Decimal`, `BigNumbers`, `Varint`, `Names`, `Assets`, `Calendar`, `Times`,
`Bitsets`, `KeyTexts`, `FixedBytes` and `ToKey` are the conversions as operators,
with the names of the C++ functions. A reader gives the set of the values it may yield,
empty when it refuses. Widths and alphabets are constants (`Bits`, `NameSize`,
`AmountBits`, `WideBytes`, `Radix`, ...); arithmetic wraps where the code's does.

`Codec` and `TypedJson` are the codec of C++ values in binary and in JSON. A type
is a record of its kind and what it is made of, a struct a tuple with names. In
`Codec` a writer gives the sequence of its writes. The counting pass
(`size_stream`) and the writing pass (`fixed_buf_stream`) of `convert_to_bin` are
two folds over that one sequence, as the code instantiates one template for
both: that the passes agree is how the code is built and not a result of the
model. A reader gives the value and what is left of the stream. The
size of a vector of numbers is multiplied by their width in `SizeBits` bits, as
`from_bin.hpp` 98 does. `TypedJson` reads into an object that already has
values, as `from_json` does (a repeated key appends to a vector), skips members
the struct does not know, and writes strings as `to_json` does, cut at the first
byte that is no UTF-8.

`Values` puts all of these into a state machine: a value travels between text,
memory, binary and key, one library call a step, a bitset is changed on the way
(`ChangeBits`). Two history variables serve the properties: `origin` remembers the
first value in memory, `given` the text that a time was read from.

### Arithmetic of assets

`AssetArithmetic` has a few objects of type `asset` or `extended_asset`; an
action is one call of a constructor, setter, reader or operator on them, with
the order in which the code stores and checks. A caller may catch what a call
throws and go on with the objects as they are. `exact` is a history variable:
the amounts without a width; `unchecked` is the set of objects whose amount no
check has seen.

### Faulty variants

Next to some operators stands a variant named for a plausible slip
(`EndArrayOffByOne`, `AddChildOnce`, `keep_unused_bits`, ...). Nothing uses
them: PROJECT.json names, for each checked property, the variant that it catches
when it takes the place of the right operator.

## 3. Runs

All runs use full breadth-first search. `MCSchema` holds the type tables.

| Run | Instance | Shows |
|---|---|---|
| json_to_bin | 13 types of every kind, texts of up to 14 tokens, stack limit 4 | `ReaderInStep`, `IndexesInBounds`, `OpenArraysOwnTheirSize`, `ExtensionsTrail`, `OnlyExtensionsLeftOut`; `ImplementsConversion` |
| json_to_bin_reorderable | 12 types, arbitrary documents of up to 9 tokens with repeated keys, stack limit 3 | `BuilderSound` (no stale pointer), `EncoderSound` (unchecked accesses meet what was checked), `Terminates`; `ImplementsConversion` |
| bin_to_json | 13 types, every binary of up to 6 bytes over three values | `WritesJson`, `NothingAfterOmission`, `Terminates` |
| round_trip | 13 types, texts of up to 12 tokens | below the stack limit the conversions agree: `SameBinary`, `ReorderableAccepts`, `BackToTheSameText` |
| bin_round_trip | 13 types, every binary of up to 5 bytes | `SameBytes` |
| context | two contracts, two ABIs sharing a type, two texts, any sequence of calls | `LentNamesLive`, `NoStaleError`, `FailureKeepsResults` |
| abi_types | every ABI over three names and thirteen definitions (seven aliases, five structs, a variant), some with odd names or sizes, then any requests, three C++ types, and the definitions converted back | `TableSound`, `DefinitionsComeBack`, `FieldsFlattened`, `CirclesRefused`, `TableOnlyGrows` |
| values | see below | `ValuesComeBack`, `TimeTextsComeBack`, `IntegersReadExactly`, `DatesFollowCalendar`, `KeysKeepOrder`, `ReadsNoMore`, `UnknownMembersIgnored` |
| assets | two objects, two symbols, two contracts, four-bit amounts with cap 3, any sequence of calls | `CheckedIsExact`, `FailureIsVisible` |
| extension_before_field | a struct `{int8$ x; int8 y}` | **violated**: a missing required field is accepted |
| extension_before_field_json | a struct `{int8$ x; none y}` | **violated**: `{,"y":{}}` |
| block_times | the five `block_timestamp_type` texts of `test.cpp` 849-853 | **violated**, `BlockTimesComeBack`: the year 2000 comes back as 2068 |

The first run's document bound lets an `all` value be complete with its
extension, a variant holding a `tail` that leaves out its own extension; a `tree`
can nest past the stack limit; two arrays can be open and siblings closed. The
reorderable run needs a repeated key whose old value is an open container's
sibling, and a tree too deep by one level: nine tokens hold both. Six bytes hold
a presence byte, a size, a variant index and trailing bytes at once. The second
type table isolates an extension before a required field, which `convert`
accepts; the main table has extensions last, as the format intends.

In `abi_types` the ABIs with three free names are joined by ones that define
`b?` as a type of its own, that use sizes and names `get_type` refuses or the
built-in struct `extended_asset`, and that define a name that is empty or taken.
The depth limit is 12 instead of 32. With three names an acyclic
ABI needs at most about eight levels, so 12 separates chains from circles just
as 32 does; the evaluation of a circle 32 levels deep is merely long.

In `values` integers have 8 bits (all decimal texts around the range and all
texts of four characters over a small alphabet), the 128-bit integers made of
bytes two bytes (`WideBytes`; all texts at both ends and around every carry),
varints 10 bits in at most two bytes (so that a byte is cut at the top, as the
fifth byte is at 32), names two five-bit digits and one of four bits, amounts 8
bits, base 3 over bytes of five values instead of 58 over 256, keys of one or two
bytes (`KeySize`, `PrivateSize`, `SignatureSize`) with a checksum of one. Web keys
and signatures have their variable parts. Dates are true dates: every day and
month number of years around each leap rule (1972, 2000, 2100) and at both ends
of a 32-bit time, and odd dates outside; `time_point` and `block_timestamp` take
both sides of 2025-01-01, where slots begin, the last slot, and fractions of one
to seven digits. `ValuesComeBack` compares values, and only from the first reading
on: it says that a date or slot that wrapped is settled, not that it was right.
That the text itself comes back is `TimeTextsComeBack`, for texts in the form the
writer uses and times the type has; for a block these begin in 2025. The
repository's test expects the same of texts of 2000 and 2018, which the run
`block_times` shows not to hold. Bitsets have up to nine bits, one more than a block, and are
changed up to that size (`MaxBits`). Sizes have 12 bits (`SizeBits`), so that the
product of a size and a width wraps as it does at 64.

The types of `Codec` and `TypedJson` (`MCShapes`) hold every kind once: strings
of bytes that are and are not UTF-8, numbers copied bitwise, strings in a vector,
nested structs with an optional, variants, maps, sets, lists, arrays, a checksum
whose last word is half full, a struct that ends in two members that might not
exist. Their binaries are all byte strings of up to four or five bytes over the
values that matter to them, with sizes that are too long, too short and longer
encoded than necessary; their texts are all objects of up to three members with
repeated, unknown and ill-typed ones, lists of up to three items, and texts cut
short. A `vector<bool>` occurs among the key types only, where the code has an
overload for it; the readers and writers copy a vector's memory and do not compile
for it. The integers of the key codec have their true widths, with values at each
boundary of an encoding; floating-point numbers are patterns of two bytes instead of
four or eight, NaN left out because it has no order.

In `assets` the 64-bit integer has four bits and the cap is a quarter of its
range, as 2^62 - 1 is: the sum of two amounts within the cap is always within the
integer's range. That of two others may not be; signed overflow is undefined in C++ and
the build has no `-fwrapv`, so the result is then any integer (`Outcomes`), also one
that looks right. The numbers passed are both limits, both
caps and their neighbours.

### Fairness

`JvalueToBin` and `BinToJson` assume weak fairness of `Step`, for the property
`Terminates`: the loop of a sequential function goes on as long as a step is
enabled. There is nothing else to be fair to. The bound `MaxTokens` is a
property of the text (every text is finite), not of the code; `JsonToBin` makes
no liveness claim, because each of its steps consumes a token or shrinks the
stack and the text is what the environment chooses.

### Deadlock

Every machine has a `Terminated` step, so that a deadlock would be a state the
code has no step for; `values` is checked without, since a conversion that was
refused, or a key, is an end.

## 4. Proofs

`JsonToBin_proofs` proves, for every type table that satisfies the assumptions
of `AbiSchema`, every stack limit and every length of text, the invariants
and action properties of the json_to_bin run but the refinement: `TypeCorrect`, `ReaderFollowsStack`,
`NoOverrun`, `SpliceForward`, `SizesApart`, `EndReached`,
`NothingAfterOmission`, and `RequiredFieldsRead` (the latter under
`ExtensionsLast`, the assumption whose absence the violated run shows). `SpliceForward`
is `InsertionsOrdered`, a part of the induction that no run checks by itself: that the
splice puts each size in its place is in `ImplementsConversion`.

The invariants are not inductive one by one. `IInv` relates three sequences
level by level (`Levels`): below the top, a stack entry and the container of the
text at the same depth are *inside* a value (`Inside`: a struct with a current
field, a variant with its alternative chosen, an array with a size of its own);
the top entry is looser (`AtTop`). `AllowTrail` says that an entry may leave out
extensions only if every level below is at its end: with `SkippedAtEnd` this is
what keeps anything from following an omission. `OwnSizes` orders the size
indexes of open arrays. Serializer calls are composed of pushing a value
(`StartValueStep`), moving the top entry (`UpdateTop`) and popping
(`PopLevels`); each action lemma only has to show which of these it is.

`AllowTrail` also shows something about the code: in the direct conversion, the
test of `skipped_extension` when a key arrives (`abieos.hpp` 836) can never
fire, since nothing may follow at a level whose extension was left out. The
reorderable conversion does need its test.

`BinaryOfTheText` says what all of this is for: what json_to_bin writes is the binary
of the text it read (`Codes`), for every type table, with extensions last or not. Its
invariant `WInv` is that there is a way from the beginning of the text to the point
where the conversion stands, whose stack is the machine's. A byte that is appended
leaves a way a way; noting that an array has one more element changes the size the way
will compare with, which is why a way is not asked about the sizes of open arrays
(`SizesGrown`). At the end the driver splices the sizes into the bytes, one after the
other, and `SpliceJoins` shows that this gives a `Joined` binary: the insertions are in
order and within the bytes, which are the invariants above.

`Context_proofs` proves the four properties of the context run for every set of
contracts, ABIs, types and texts. Its invariant adds that the loaded contracts
are a function, so that deleting a contract that is not loaded changes nothing;
with `LentNamesLive` itself that is enough.

`Values_proofs` proves what the operators of the values compute where no
recursive definition is involved. The range test of `from_json_int`, which
divides the limit instead of multiplying the number, refuses a digit exactly if
the number with it would be out of range, for signed and unsigned types of every
width of at least eight bits. (For a limit below 9 it would be wrong: the proof
needs `limit >= 9`.) The run checks whole texts at eight bits.

It also proves the calendar for every day from 1970 on, where the run has the dates of
chosen years: `CalendarFollowed` says that `from_days` counts the dates of the
Gregorian calendar (`FollowsCalendar`, which `DatesFollowCalendar` checks),
`DaysComeBack` that `to_days` is its inverse. The divisions by 1460, 36524 and
146096 hide what they do: the proof gives every day of an era a place (century,
four years, year, day), shows that there is one for each (`PlaceOf`) and which
year the divisions find there (`YearAt`), and goes from a place to the next, month
by month. From this follow `TimesComeBack`, for all 2^32 values of a
`time_point_sec`, and, apart from it, `SlotsComeBack` for all 2^32 slots of a block.
The digits after the point of a `time_point` are read by a fold and stay with the
run.

And it proves the bitset for every size, where the run has those about the end of a
block. A bitset stands for its size and a set of positions (`Ones`); what is kept
besides is that no bit beyond the size is on (`UnusedAreZero`). This is why the bits
`resize` adds are 0 and why equal bits are equal blocks, which `==` compares, so
each theorem has it as hypothesis and as result: `ResizeKeepsBits`, `FlipAllFlips`,
`OneBitChanges`, `OrAndZero`, and `BitsetTextComesBack` for the text. `resize` and the
text have one supposition, `SizeFits`: the sum of `calc_num_blocks` does not wrap,
which is the hazard at `bitset.hpp` 28. (It also says that `2 ^ Bits` is a natural
number, since TLAPS has no facts about powers.) The binary form reads its bytes with a
sum over sets and stays with the run.

`AssetArithmetic_proofs` proves the three properties of the assets run for every
cap, every set of objects and every set of numbers: `TypeCorrect`,
`AmountsExact` and `FailuresVisible`. The first needs that a
quotient of two 64-bit numbers is one, but for the one the code refuses; the second that a sum of two amounts below the cap does not leave 64
bits, so that the check after the addition sees the true sum (`RangeFits`). They
rest on `AssetObjectAssumption`: a cap that is a natural number and integers that
reach twice as far, as in the code.

`BinToJson_proofs` proves the safety properties of bin_to_json: `TypeCorrect`
for every table, input and stack limit; `TextIsJson` and `OmissionIsFinal` under
`ExtensionsLast`. What is written depends on the stack in a way that no single
property says, so `IInv` says it: `Wrote` relates the text to the stack (its open
containers are those of the stack, and the last lexeme ends a value exactly if the
top entry is past one, which is what makes `position # 0` the right test for a
comma), and `Omitted` says that once an extension was left out nothing but
extensions can follow at any level and no byte is left to read one from. What a
text means is a recursive function over its positions; `ReadsAs(t, rd)` says that
a function satisfying its definition exists and that all such functions end in
`rd`, and each lexeme carries that one position further (`ReadMore`). In this
way no induction over texts is needed: the steps of the conversion are the
induction.

It also proves the way back. `TextOfTheBinary`: given the binary of a text (`Codes`),
and bytes that are bytes (`Inputs`), bin_to_json writes the tokens of that text and
reads all of the input, or stops at the stack limit; no other error is left. The invariant
keeps the machine abreast of any way through its input (`Going`, `Abreast`): both stacks
are at the same places, and what was written is what the way has passed. At one place the
machine does not know what the way knows: the decoder leaves out an extension wherever
the input has ended (`abieos.hpp` 998), the way may go on to one that takes no bytes. So
the theorem supposes that extensions take bytes (`ExtensionsTakeBytes`: they are in a set
of types of which each struct has a required field of the set, and each fixed array
elements of it). Then a way that has no bytes left cannot go on to an extension, since the
value it begins would have no end (`Endless`): it can only close what is open, as the
machine does (`Omitting`). The tables of the runs have only such extensions; what happens
otherwise is in section 5.

`WritesWhatItRead` is the other direction, for any input whatever, the binary of a text
or not: when bin_to_json succeeds, what it wrote is a text of the bytes it took, by a way
that ends where it stopped reading. The binary of this text differs from the input at
most in the byte of an optional, where any value but 0 and 1 was read into a bool that is
undefined (`abieos.hpp` 971, `Flags`). The invariant `SaysWhatItRead` has a way that grows
with the input: what is read next does not disturb it (`MoveStays` in
`AbiSchema_proofs`).

Since the theorems meet at `Codes`, they say of json → bin → json that the same tokens
come back. That sentence itself, `BackToTheSameText` of `RoundTrip`, stays a property of
the run: TLAPS cannot use theorems through `INSTANCE`, and its bound, a document below the
stack limit, is a fold over the text. `Codes` of the proofs and `Format` of the runs are
two formulations of one format, and it is not proved that they agree; the machine is
shown to follow either.

`JvalueToBin_proofs` proves the safety properties of the reorderable conversion,
`TypeCorrect`, `PointersStayValid` and `AccessesInRange`, for every table, text
and limit. The builder keeps raw pointers into a tree that it changes, the
encoder indexes with positions it checked when it pushed an entry, and has no stack
limit. The invariant gives each node of the tree a depth (`Layered`: a child is
one deeper than its parent, so nothing links back up), and each entry of either
stack lies at its depth (`Placed`): two entries are never the same node, so an
event changes the one container it means and leaves the path below as it was
(`Path`), and the stack of the encoder cannot outgrow the tree, which the builder's
limit bounds (`Follows` keeps it on a path of the tree). The builder's limit is
thus what the encoder's loop relies on.

`AbiTypes_proofs` proves six properties of the type table, for every set of ABIs,
requests and C++ types and every depth limit. `TypeCorrect` needs what every frame
may count on when its callee returns: the node it works on is still there and of the
kind it was, or resolved meanwhile by a callee that came back to it (`WorkedOn`),
though callees have changed the table in any number of steps. `IInv` says that of each
frame (`FrameOK`), and `Evolves` is what one step may do to a table: nodes come,
definitions are resolved, nothing else changes kind. `Progress` adds that the loop of
`convert` leaves no definition behind it. `TablesOnlyGrow` follows step by step: only
`AddStruct` changes a node that is there, and only the one it is entering.

`TablesAreSound` is the assumption `NestingAssumption` of `AbiSchema` as a result: no
node of a finished table points at an alias or a definition that was never resolved,
and no derived type wraps what it must not, whatever order the names come in. It
needs `NInv`: what a call returns is never an alias, nor are the members a frame has
gathered. For `get_type` that is so because it follows an alias once and every
alias's own target was already followed; for `add_type` it is not, since it returns
the node it finds under a name. So the theorem supposes that no ABI gives an alias the
name of a type the program adds or of a part of one (`AliasesApart`). The supposition
is needed, and what happens without it is in section 5; the library's own uses of
`add_type` start from an empty table, where it holds. The run checks on its instance
that it holds there.

`StructsFlattened` is `FieldsFlattened` for every ABI, without that supposition. A
struct is resolved by calls that hold a list of names and gather types for it, while the
calls they make resolve other entries, perhaps the ones they are at themselves: a base
by way of an alias that leads back, an alias a derived type stands on. If two calls on
the stack had the same name, the one below would go on with a definition that is no
longer in the table, or resolve it a second time with other fields. `FInv` excludes it.
It says of every call under way what it has not resolved yet (`Pending`), which name it
waits for, and that the call above it is about that name or what it leads to (`Link`);
of a struct, that it has the fields of its base and of the members asked for so far
(`Members`); of what is resolved, that it stays so (`Entries`, `Stays`). When an answer
comes back, the name it was asked for is known; a call of the same name further down
waits for the same name, and the call above that one would have to be still pending for
something known. So at the moment a node is written its name is one call's only
(`GettersDiffer`, `ResolversDiffer`). Afterwards callers only add nodes, and the structs
`add_type` is filling are none of the ABI's (`EntersNew`). The invariant was checked by
TLC on the instance of `abi_types` before it was proved.

`CirclesAreRefused` is `CirclesRefused` for every ABI and every depth limit. The code
never looks for a circle; that it finds all of them, and stops few others, has two
proofs. That no circle survives (`CInv`): a definition is resolved only when the
definition it leads to (`Follows`) is, so no set of resolved definitions leads back
into itself (`Apart`). Names with suffixes are what makes this long: a derived type is
entered for a name that the ABI does not define, and stands on the longest part of it
that the ABI does define (`DefinedBelow`, `Grounded`); an alias keeps only its last
target (`Aliased`), so the definitions it went through have to be remembered as a path
(`Reaches`, every set closed under `Follows` that has the one has the other, which is
transitive without an induction). When all definitions are resolved the ABI has no
circle at all. That the limit stops nothing else (`WInv`) is about the stack: each call
stands beyond those below it or takes the same name apart (`Under`, `Way`), so two calls
of one name would be a circle (`LimitIsCircle`); the calls of a stack that has none have
different names, structs with a base below and the parts of one mentioned name and of the
targets of aliases above, and that many names cannot be more than
`Cardinality(Extending) + 1 + Cardinality(Prefixes(name) \cup BelowAliases)`
(`FewCalls`, a count by injection). `Small` says that this number is within the limit
for every name an ABI mentions. The supposition is a sharp one to state but not an empty
one: a chain of aliases longer than the limit may be refused although it has no end
in itself, depending on the order of its names (section 5).

`SameDefinitions` is what `DefinitionsComeBack` says of a table that was converted
again: every alias, struct and variant is the node it was (`Same`). When the table is
written its names are resolved, so no definition names an alias (`Written`, from the
invariant of `TablesAreSound`, hence the same supposition `AliasesApart`); when all of
them are resolved a name that is no alias leads to itself, and what `FInv` says of
structs and variants and `CInv` of aliases gives back the node. The other half of
`DefinitionsComeBack`, that the way back is not refused, is true of the instance and not
of every one: `add_type` has no depth limit, so a C++ type may nest deeper than
`get_type` follows. The theorem speaks of the states that are not refused, the run of
all.

`AbiSchema_proofs` holds the lemmas that the three proofs of conversions share: about
the type table, about sequences used as stacks, and about ways, which go on from point to
point and stay ways when more is read or written. It also has an induction over sets
of numbers (`SetInduction`), which needs no operator as a parameter and so can be used:
a set of natural numbers with 0 and the successor of each of its members is all of them.
With it facts about each position of a sequence can be proved, though not about what a
recursive definition computes.

Only model-checked: `Terminates` (liveness); the refinements of `Conversion`, and
`RoundTrip` and `BinRoundTrip`, whose properties compare whole documents (`Format` is
recursive over documents) or compose the conversions by `INSTANCE`; that the
reorderable conversion writes the same binary; of AbiTypes that the definitions of a table are never
refused when they are converted again (a C++ type nested deeper than the limit has a
definition and is refused, so this is a property of instances); `Codec`, `TypedJson` and `ToKey` and with them the properties of `Values`
(recursive operators; `Values_proofs` proves the operators under
`DatesFollowCalendar` and those that times and slots go through); and the other
value conversions (folds over texts, whose operator would have to be a parameter).

## 5. What the work brought out

The three violated runs, with the lines they contradict, are the findings of
PROJECT.json. One of them is an error of the code; one is a claim of the documentation
that an unusual ABI gets round; and in `block_times` the test supposes that blocks
have times in 2000, while their epoch in the code is 2025 (`time.hpp` 230): the five
`check_type` calls of `test.cpp` 849-853 expect the text they give, and
2000-01-01T00:00:00.000 comes back as 2068-01-19T03:14:08.000, any time before 2025
as one 2^32 half seconds later. Besides:

* `abieos_set_abi` for a contract that is already loaded reports success and
  keeps the old ABI (`map::insert`, `abieos.cpp` 106). `LentNamesLive` depends
  on it: replacing the ABI would free names the caller holds.
* Whether a long chain of aliases or bases is accepted depends on the
  alphabetical order of its names: what was resolved before costs no depth.
* `abieos_bin_to_json` for a contract that is not loaded passes a local string to
  `set_error` (`abieos.cpp` 236), so that `abieos_get_error` gives the placeholder
  "binary decode error" and the reason is lost. `abieos.h` 66-67 promises the error
  there; `abieos_json_to_bin` sets it. (The error is that of the call, as
  `NoStaleError` says.)
* `abieos_delete_contract` is the only function of a context that does not test
  it for null (`abieos.cpp` 302); the model calls it on a live context only.
* The base-58 table is filled from the terminating 0 of the digit string as
  well, so the character 0 is read as digit 58 (`crypto.cpp` 32).
* Amounts of assets, precisions of symbols and seconds after 2106 wrap without
  an error when a text is read; months and days out of range are counted on.
  `ValuesComeBack` shows that the value is settled from then on.
* The three stack limits differ: the direct loop checks before a call (792),
  `receive_event` counts the value being entered too (485), `bin_to_json` checks
  after the call (958). A document nested to `max_stack_size` converts directly and
  back; the reorderable conversion refuses it if a value stands in a container at
  that depth. The direct one can even go one deeper, to an innermost object that is
  empty, which `bin_to_json` then refuses. So `ReorderableAccepts` speaks of
  documents below the limit, `BackToTheSameText` of those up to it.
* An extension whose value takes no bytes, such as an empty struct, is written as
  nothing and does not come back: `bin_to_json` leaves out an extension wherever the
  input has ended (`abieos.hpp` 998). The text that comes back lacks the field, and
  its binary is the same; `test.cpp` 1270 expects just that of `"z3":{}`.
* Reading into an object that has values: `from_bin` of a list, deque, set or map
  adds to it, while a vector is replaced; in JSON it is a vector that a repeated
  key adds to. `from_bin` of a variable-length size of a vector takes 64 bits,
  the writer refuses 2^32 elements or more.
* The microseconds of a `time_point` below the millisecond are lost in its text, as
  `test.cpp` expects (846). A `time_point` read from
  binary may lie outside what its text reader accepts.
* The 128-bit reader for builds without native support takes an empty text for 0
  and refuses -0, unlike `from_json_int`, which does the opposite.
* The text of a legacy private key is accepted with any checksum
  (`crypto.cpp` 184-190).
* `symbol_code::is_valid` accepts an eighth byte, which no text can hold.
* Assets: `+=`, `-=` and `set_amount` store before they check, so a caller that
  catches is left with an amount out of range; `*=` and `/=` check first. `==` of
  `extended_asset` throws for different symbols before it looks at the contract.
  The ratio of two assets is undefined for -2^63 and -1 (a trap on common
  processors), as is `-` of -2^63 and a sum beyond 64 bits: only amounts that no check
  has seen get there.
* `convert(const abi&, abi_def&)` writes a variant's alternative under its
  target's name if it was an alias, and leaves out actions and tables;
  `to_json(abi_def)` does not write `abi_extensions`.
* `add_type` refuses `vector<vector<T>>` and `optional<vector<T>>`, which
  `get_type` accepts as `T[][]` and `T[]?`; a struct whose member is refused stays
  in the table with the members before it; and if the ABI has an alias by the
  struct's name, `add_type` returns the alias node itself.
* The overload of `to_key_optional` for `const bool*` (`to_key.hpp` 65) has a
  template parameter that cannot be deduced: bools take the encoding of other
  one-byte values, which keeps the order as well.

## 6. Not modelled

* Floating-point text (read by the C library, written by a third-party printer)
  and pretty printing.
* rapidjson (external, a grammar here), RIPEMD-160, and what murmur64 computes
  (any name of a set stands for it).
* Array sizes other than 2 and those that are refused.
* Bitsets of nearly 2^32 bits, where `calc_num_blocks` wraps and the access that
  follows is undefined; arrays of more than 2^31 elements of no bytes.
* State-history types and the embedded ABI: data, converted by what `Codec` and
  `TypedJson` model.
* Argument handling of the tools, the tests and the fuzzer.

## 7. Plan

Done, in this order: AbiSchema and JsonReader; JsonToBin with its proofs;
JvalueToBin; BinToJson; RoundTrip and BinRoundTrip; Context with its proofs;
AbiTypes; Values and the conversions under it; Decimal's proofs; AssetArithmetic
with its proofs; Codec and TypedJson; Format and Conversion with the two
refinements; the way back of AbiTypes and the types of the program; times, keys
and signatures, bitset changes; BigNumbers and FixedBytes; the proofs of BinToJson,
of JvalueToBin and of AbiTypes, whose calls became a stack for it; the calendar and the bitset, with their proofs;
Wire, with the proofs that the direct conversion writes the binary of its text and that
the conversion back gives that text.

Next, models: a run with a small depth limit that states the order dependence; a table
with an extension that takes no bytes.

Next, theorems:

1. That the reorderable conversion writes the binary of the text as well, when the
   text has its fields in order and no key twice.
2. The key codec without recursive operators, per constructor: order and prefix
   freedom of vectors, given those of the elements.
3. Negation of big numbers, and the base they are written in.
