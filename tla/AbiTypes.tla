------------------------------- MODULE AbiTypes -------------------------------
(***************************************************************************)
(* How an ABI becomes the type table that the conversions walk: convert()  *)
(* enters every definition and then resolves them one after the other,     *)
(* abi::get_type adds a type a caller names (abi.cpp:47-226), abi::add_type*)
(* one that is a C++ type (abi.hpp:303-385), and convert() turns the table *)
(* into definitions again (abi.cpp:228-272).                               *)
(*                                                                         *)
(* A type name is a sequence: a plain name, perhaps the empty one, and     *)
(* then suffixes, so that <<"a", "[]", "?">> stands for "a[]?".  An ABI    *)
(* may define such a name as well.  A node of the table is known by its    *)
(* name, which is what its address is to the code: std::map never moves a  *)
(* node.                                                                   *)
(*                                                                         *)
(* get_type, resolve and add_type call each other.  What they have not     *)
(* finished is the stack calls, and a step is what one of them does up to  *)
(* the next call or return.                                                *)
(***************************************************************************)
EXTENDS Naturals, Sequences, FiniteSets

CONSTANTS
    Builtins,       \* the plain names for_each_abi_type enters
    Order,          \* the names that may be definitions, in std::map order
    Abis,           \* what an abi_def may hold: definitions by name
    Requests,       \* type names a caller asks for
    Reflected,      \* C++ structs and variants: the types they are made of
    CppRequests,    \* C++ types a caller adds
    MaxDepth        \* 32 in the code


VARIABLES
    abi,        \* the abi_def: a definition for some of the names
    source,     \* the nodes the abi_def was made from, if it was made from any
    types,      \* abi::abi_types
    filled,     \* how far convert's last loop has come, in Order
    pc,         \* "enter", "fill", "ready" or "failed"
    error,      \* why convert or the last get_type failed, or "none"
    calls,      \* the calls of get_type, resolve and add_type under way
    returned    \* the type the call that ended last gave its caller, or << >>

vars == <<abi, source, types, filled, pc, error, calls, returned>>

----------------------------------------------------------------------------
(***************************************************************************)
(* abi_type::_data.  element is the type below a derived type, the target  *)
(* of an alias or the base of a struct_def (<< >> without one); fields are *)
(* the types of the fields or alternatives.  In a *_def node both are      *)
(* names as the ABI writes them, elsewhere they are nodes.                 *)
(***************************************************************************)
Node(kind, element, fields) == [kind |-> kind, element |-> element, fields |-> fields]

DefKinds == {"alias_def", "struct_def", "variant_def"}
DerivedKinds == {"optional", "extension", "array", "fixed_array"}

\* What ends in a bracket and is no size, and what get_type says of it.
BadSizes == [size \in {"[0]", "[-1]", "[02]", "[x]", "]"} |->
               CASE size = "[0]"  -> "zero_size"
                 [] size = "[-1]" -> "negative_size"
                 [] size = "[02]" -> "leading_zeros"
                 [] size = "[x]"  -> "unexpected_size"
                 [] OTHER         -> "no_matching_bracket"]

\* The names of C++ types, and those that a caller or an ABI may come up with.
NamesWith(suffixes) ==
    {n \in Seq(STRING) : n # << >> /\ \A i \in 2 .. Len(n) : n[i] \in suffixes}

Suffixes == {"?", "$", "[]", "[2]"}
CppNames == NamesWith(Suffixes)
Names    == NamesWith(Suffixes \cup DOMAIN BadSizes)

SuffixOf == [optional |-> "?", extension |-> "$", array |-> "[]", fixed_array |-> "[2]"]

KindOf(name) == CHOOSE kind \in DerivedKinds : SuffixOf[kind] = name[Len(name)]

Forbidden(kind) == IF kind = "extension" THEN {"extension"} ELSE {"optional", "extension"}

\* An alias_def, struct_def or variant_def.
IsDefinition(node) ==
    /\ node = Node(node.kind, node.element, node.fields)
    /\ node.kind \in DefKinds
    /\ node.element \in Names \cup {<< >>} /\ node.fields \in Seq(Names)
    /\ node.kind = "alias_def" => node.element \in Names
    /\ node.kind = "variant_def" => node.element = << >>

Definable == {Order[i] : i \in DOMAIN Order}

ExtendedAsset == <<"extended_asset">>
Predefined    == {<<b>> : b \in Builtins} \cup {ExtendedAsset}
Nameless      == <<"">>

ASSUME BuiltinAssumption ==
    Builtins \cup {"extended_asset"} \subseteq STRING /\ {"asset", "name"} \subseteq Builtins

ASSUME AbiAssumption ==
    /\ Order \in Seq(Names) /\ MaxDepth \in Nat \ {0}
    /\ \A a \in Abis :
          /\ DOMAIN a \subseteq Definable \cup Predefined \cup {Nameless}
          /\ \A n \in DOMAIN a : IsDefinition(a[n])

ASSUME CallerAssumption ==
    /\ Requests \subseteq Names /\ CppRequests \subseteq CppNames
    /\ DOMAIN Reflected \subseteq Definable
    /\ \A n \in DOMAIN Reflected :
          Reflected[n].kind \in {"struct", "variant"} /\ Reflected[n].fields \in Seq(CppNames)

With(table, name, node) == [n \in DOMAIN table \cup {name} |->
                              IF n = name THEN node ELSE table[n]]

\* Faulty: what was made is not entered.
EmplaceNothing(table, name, node) == table

TryEmplace(table, name, node) == IF name \in DOMAIN table THEN table ELSE With(table, name, node)

----------------------------------------------------------------------------
(***************************************************************************)
(* A call: what it is doing, for which type, and how deep it is; fields    *)
(* has the types of the members it has seen, rest the names of the others. *)
(***************************************************************************)
Frame(fn, name, depth, rest) ==
    [fn |-> fn, name |-> name, depth |-> depth, fields |-> << >>, rest |-> rest]

Top   == calls[Len(calls)]
Below == SubSeq(calls, 1, Len(calls) - 1)

Entered(fn) == calls # << >> /\ Top.fn = fn /\ returned = << >>
Resumed(fn) == calls # << >> /\ Top.fn = fn /\ returned # << >>

\* The innermost call goes on as the first of frames and calls the second.
Continue(frames, table) ==
    /\ types' = table
    /\ calls' = Below \o frames
    /\ returned' = << >>
    /\ UNCHANGED <<abi, source, filled, pc, error>>

Return(type, table) ==
    /\ types' = table
    /\ calls' = Below
    /\ returned' = IF Below = << >> THEN << >> ELSE type
    /\ UNCHANGED <<abi, source, filled, pc, error>>

\* Faulty: the structs that add_type is entering go again.
ThrowCleansUp(e) ==
    /\ LET unfinished == {i \in DOMAIN calls : calls[i].fn = "members"}
       IN  types' = [n \in DOMAIN types \ {calls[i].name : i \in unfinished} |-> types[n]]
    /\ calls' = << >> /\ returned' = << >>
    /\ pc' = IF pc = "fill" THEN "failed" ELSE pc
    /\ error' = e
    /\ UNCHANGED <<abi, source, filled>>

\* The table stays as it is; convert's is never used.
Throw(e) ==
    /\ calls' = << >> /\ returned' = << >>
    /\ pc' = IF pc = "fill" THEN "failed" ELSE pc
    /\ error' = e
    /\ UNCHANGED <<abi, source, types, filled>>

\* The members seen so far, with the one whose type was just returned.
Gathered == IF returned = << >> THEN Top.fields ELSE Append(Top.fields, returned)

----------------------------------------------------------------------------
\* A name that is not in the table.
GetDerived(name) ==
    IF Len(name) = 1 THEN Throw("unknown_type")
    ELSE IF name[Len(name)] \in DOMAIN BadSizes THEN Throw(BadSizes[name[Len(name)]])
    ELSE Continue(<<[Top EXCEPT !.fn = "derived"],
                    Frame("get_type", SubSeq(name, 1, Len(name) - 1), Top.depth + 1, << >>)>>,
                  types)

GetType ==
    /\ Entered("get_type")
    /\ LET name == Top.name
           node == types[name]
       IN  IF Top.depth >= MaxDepth THEN Throw("recursion_limit_reached")
           ELSE IF name \notin DOMAIN types THEN GetDerived(name)
           ELSE IF node.kind = "alias"     THEN Return(node.element, types)
           ELSE IF node.kind = "alias_def"
             THEN Continue(<<[Top EXCEPT !.fn = "alias"],
                             Frame("get_type", node.element, Top.depth + 1, << >>)>>, types)
           ELSE Return(name, types)

\* Faulty: what is below is not looked at.
DerivedUnchecked ==
    /\ Resumed("derived")
    /\ Return(Top.name, TryEmplace(types, Top.name, Node(KindOf(Top.name), returned, << >>)))

Derived ==
    /\ Resumed("derived")
    /\ LET kind == KindOf(Top.name)
       IN  IF types[returned].kind \in Forbidden(kind) THEN Throw("invalid_nesting")
           ELSE Return(Top.name, TryEmplace(types, Top.name, Node(kind, returned, << >>)))

\* The target's own aliases are gone in what get_type returns.
ResolveAlias ==
    /\ Resumed("alias")
    /\ IF types[returned].kind = "extension" THEN Throw("extension_typedef")
       ELSE Return(returned, With(types, Top.name, Node("alias", returned, << >>)))

ResolveStruct ==
    /\ Entered("struct")
    /\ LET base == types[Top.name].element
       IN  IF Top.depth >= MaxDepth THEN Throw("recursion_limit_reached")
           ELSE IF base = << >> THEN Continue(<<[Top EXCEPT !.fn = "fields"]>>, types)
           ELSE Continue(<<[Top EXCEPT !.fn = "base"],
                           Frame("get_type", base, Top.depth + 1, << >>)>>, types)

\* Faulty: a base that is resolved gives no fields, or one that is not is passed over.
InheritNothing(base) == Continue(<<[Top EXCEPT !.fn = "fields"]>>, types)
ResolvedLater(base) == Continue(<<[Top EXCEPT !.fn = "fields"]>>, types)

Inherit(base) == Continue(<<[Top EXCEPT !.fn = "fields", !.fields = types[base].fields]>>, types)

ResolveFirst(base) ==
    Continue(<<Top, Frame("struct", base, Top.depth + 1, types[base].fields)>>, types)

\* The struct below, itself resolved first when it is still a definition.
ResolveBase ==
    /\ Resumed("base")
    /\ CASE types[returned].kind = "struct"     -> Inherit(returned)
         [] types[returned].kind = "struct_def" -> ResolveFirst(returned)
         [] OTHER                               -> Throw("base_not_a_struct")

\* A turn of resolve's loop over the fields of a struct or the types of a variant.
ResolveMembers ==
    /\ calls # << >> /\ Top.fn \in {"fields", "types"}
    /\ IF Top.rest = << >>
         THEN LET kind == IF Top.fn = "fields" THEN "struct" ELSE "variant"
              IN  Return(Top.name, With(types, Top.name, Node(kind, << >>, Gathered)))
         ELSE Continue(<<[Top EXCEPT !.fields = Gathered, !.rest = Tail(@)],
                         Frame("get_type", Head(Top.rest), Top.depth + 1, << >>)>>, types)

----------------------------------------------------------------------------
(***************************************************************************)
(* add_type<T>: a C++ type has the name get_type_name gives it, which for  *)
(* derived types is the ABI's.  A struct is entered before its members,    *)
(* which may contain it, and keeps those it has if one of them fails.      *)
(***************************************************************************)

\* vector and optional refuse arrays too, which get_type lets pass.
ForbiddenInCpp(kind) ==
    CASE kind \in {"array", "optional"} -> {"optional", "extension", "array"}
      [] kind = "fixed_array"          -> {"optional", "extension"}
      [] OTHER                         -> {"extension"}

\* How a C++ type without suffixes is made.
Shape(name) == IF name \in DOMAIN Reflected THEN Reflected[name].kind ELSE "basic"

AddType ==
    /\ Entered("add_type")
    /\ LET name == Top.name
       IN  IF Len(name) > 1
             THEN Continue(<<[Top EXCEPT !.fn = "element"],
                             Frame("add_type", SubSeq(name, 1, Len(name) - 1), 0, << >>)>>, types)
           ELSE IF Shape(name) = "variant"
             THEN Continue(<<Frame("alternatives", name, 0, Reflected[name].fields)>>, types)
           ELSE IF name \in DOMAIN types THEN Return(name, types)
           ELSE IF Shape(name) = "struct"
             THEN Continue(<<Frame("members", name, 0, Reflected[name].fields)>>,
                           With(types, name, Node("struct", << >>, << >>)))
           ELSE Throw("unknown_type")

AddDerivedType ==
    /\ Resumed("element")
    /\ LET kind == KindOf(Top.name)
       IN  IF types[returned].kind \in ForbiddenInCpp(kind) THEN Throw("invalid_nesting")
           ELSE Return(Top.name, TryEmplace(types, Top.name, Node(kind, returned, << >>)))

\* The next member or alternative.
AddNext(fields) ==
    <<[Top EXCEPT !.fields = fields, !.rest = Tail(@)],
      Frame("add_type", Head(Top.rest), 0, << >>)>>

AddVariant ==
    /\ calls # << >> /\ Top.fn = "alternatives"
    /\ IF Top.rest = << >>
         THEN Return(Top.name, TryEmplace(types, Top.name, Node("variant", << >>, Gathered)))
         ELSE Continue(AddNext(Gathered), types)

AddStruct ==
    /\ calls # << >> /\ Top.fn = "members"
    /\ LET entered == IF returned = << >> THEN types
                      ELSE [types EXCEPT ![Top.name].fields = Append(@, returned)]
       IN  IF Top.rest = << >> THEN Return(Top.name, entered)
           ELSE Continue(AddNext(<< >>), entered)

----------------------------------------------------------------------------
(***************************************************************************)
(* convert(abi, abi_def): aliases, structs and variants become definitions *)
(* again.  A struct has lost its base, and names all its fields itself.    *)
(***************************************************************************)
Defined(table) ==
    {n \in DOMAIN table \ {ExtendedAsset} : table[n].kind \in {"alias", "struct", "variant"}}

\* Faulty: the name is the alias's own.
AliasToItself(table, name) == Node("alias_def", name, << >>)

AliasDef(table, name) == Node("alias_def", table[name].element, << >>)

to_abi_def(table) ==
    [n \in Defined(table) |->
        CASE table[n].kind = "alias"  -> AliasDef(table, n)
          [] table[n].kind = "struct" -> Node("struct_def", << >>, table[n].fields)
          [] OTHER                    -> Node("variant_def", << >>, table[n].fields)]

----------------------------------------------------------------------------
Fns == {"get_type", "derived", "alias", "struct", "base", "fields", "types",
        "add_type", "element", "members", "alternatives"}

Frames == [fn : Fns, name : Names, depth : Nat, fields : Seq(DOMAIN types), rest : Seq(Names)]

TypeOK ==
    /\ pc \in {"enter", "fill", "ready", "failed"}
    /\ filled \in 0 .. Len(Order)
    /\ calls \in Seq(Frames)
    /\ returned \in DOMAIN types \cup {<< >>}
    /\ \A n \in DOMAIN types :
         /\ types[n].kind \in {"builtin", "alias", "struct", "variant"}
                              \cup DefKinds \cup DerivedKinds
         /\ types[n].kind \notin DefKinds =>
              /\ types[n].element \in DOMAIN types \cup {<< >>}
              /\ \A i \in DOMAIN types[n].fields : types[n].fields[i] \in DOMAIN types

BuiltinTypes ==
    With([n \in Predefined |-> Node("builtin", << >>, << >>)],
         ExtendedAsset, Node("struct", << >>, <<<<"asset">>, <<"name">>>>))

Init ==
    /\ abi \in Abis
    /\ source = << >>
    /\ types = BuiltinTypes
    /\ filled = 0
    /\ pc = "enter"
    /\ error = "none"
    /\ calls = << >> /\ returned = << >>

Refused == {n \in DOMAIN abi : n = Nameless \/ n \in DOMAIN types}

\* try_emplace of every alias, struct and variant.
Enter ==
    /\ pc = "enter"
    /\ Refused = {}
    /\ types' = [n \in DOMAIN types \cup DOMAIN abi |->
                   IF n \in DOMAIN abi THEN abi[n] ELSE types[n]]
    /\ pc' = "fill"
    /\ UNCHANGED <<abi, source, filled, error, calls, returned>>

Redefined ==
    /\ pc = "enter"
    /\ \E n \in Refused :
         error' = IF n = Nameless THEN "missing_name" ELSE "redefined_type"
    /\ pc' = "failed"
    /\ UNCHANGED <<abi, source, types, filled, calls, returned>>

\* What fill() calls: only definitions are resolved.
Filling(name) ==
    LET node == types[name]
    IN  CASE node.kind = "alias_def" ->
               <<Frame("alias", name, 0, << >>), Frame("get_type", node.element, 1, << >>)>>
          [] node.kind = "struct_def"  -> <<Frame("struct", name, 0, node.fields)>>
          [] node.kind = "variant_def" -> <<Frame("types", name, 0, node.fields)>>
          [] OTHER                     -> << >>

\* One turn of convert's last loop, for a name that may be a definition: the
\* loop leaves all other types as they are, those a turn adds among them.
Fill ==
    /\ pc = "fill" /\ calls = << >> /\ filled < Len(Order)
    /\ filled' = filled + 1
    /\ LET name == Order[filled + 1]
       IN  calls' = IF name \in DOMAIN types THEN Filling(name) ELSE << >>
    /\ UNCHANGED <<abi, source, types, pc, error, returned>>

Converted ==
    /\ pc = "fill" /\ calls = << >> /\ filled = Len(Order)
    /\ pc' = "ready"
    /\ UNCHANGED <<abi, source, types, filled, error, calls, returned>>

\* A caller's call.
Ask(fn, name) ==
    /\ pc = "ready" /\ calls = << >>
    /\ calls' = <<Frame(fn, name, 0, << >>)>>
    /\ error' = "none"
    /\ UNCHANGED <<abi, source, types, filled, pc, returned>>

Request    == \E name \in Requests : Ask("get_type", name)
AddCppType == \E name \in CppRequests : Ask("add_type", name)

\* The table is written as an abi_def, and a new table is made of that, once.
ConvertBack ==
    /\ pc = "ready" /\ calls = << >> /\ source = << >>
    /\ source' = [n \in Defined(types) |-> types[n]]
    /\ abi' = to_abi_def(types)
    /\ types' = BuiltinTypes
    /\ filled' = 0
    /\ pc' = "enter"
    /\ error' = "none"
    /\ UNCHANGED <<calls, returned>>

Terminated == pc = "failed" /\ UNCHANGED vars

Resolve == GetType \/ Derived \/ ResolveAlias \/ ResolveStruct \/ ResolveBase \/ ResolveMembers

Add == AddType \/ AddDerivedType \/ AddVariant \/ AddStruct

Next == Enter \/ Redefined \/ Fill \/ Converted \/ Request \/ AddCppType
        \/ Resolve \/ Add \/ ConvertBack \/ Terminated

Spec == Init /\ [][Next]_vars

----------------------------------------------------------------------------
(***************************************************************************)
(* Once convert returns, no node points at a definition: set_abi destroys  *)
(* the abi_def right afterwards (abieos.cpp:97-107), and an alias or       *)
(* struct left unresolved would be a pointer into it.                      *)
(***************************************************************************)
NothingUnresolved ==
    pc = "ready" => \A n \in DOMAIN types : types[n].kind \notin DefKinds

(***************************************************************************)
(* What the conversions rely on (NestingAssumption of AbiSchema): derived  *)
(* types nest as get_type allows, whatever aliases stood between them, and *)
(* no pointer leads to an alias.                                           *)
(***************************************************************************)
Pointers(node) == ({node.element} \ {<< >>}) \cup {node.fields[i] : i \in DOMAIN node.fields}

NodesNest ==
    \A n \in DOMAIN types :
        types[n].kind \notin DefKinds =>
            /\ \A p \in Pointers(types[n]) : types[p].kind \notin {"alias", "alias_def"}
            /\ types[n].kind \in DerivedKinds =>
                 types[types[n].element].kind \notin Forbidden(types[n].kind)

\* add_type returns the node it finds under a name, and if the ABI has an alias
\* by it, that is the alias.  What it looks for are the names in AddedNames.
AddedNames ==
    LET members(n) == {Reflected[n].fields[i] : i \in DOMAIN Reflected[n].fields}
        asked      == CppRequests \cup UNION {members(n) : n \in DOMAIN Reflected}
    IN  UNION {{SubSeq(n, 1, k) : k \in 1 .. Len(n)} : n \in asked}

AliasesApart ==
    \A a \in Abis : \A n \in DOMAIN a :
        a[n].kind = "alias_def" => n \notin AddedNames \ Predefined

(***************************************************************************)
(* The table the conversions walk: nodes only, nested as they must be.     *)
(***************************************************************************)
TableSound == NothingUnresolved /\ NodesNest

(***************************************************************************)
(* A resolved struct has its base's fields and then its own, whichever of  *)
(* the two was resolved first (abi.cpp:116-138).                           *)
(***************************************************************************)
Target(n) == IF types[n].kind = "alias" THEN types[n].element ELSE n

FieldsFlattened ==
    pc = "ready" => \A n \in DOMAIN abi : abi[n].kind = "struct_def" =>
        LET inherited == IF abi[n].element = << >> THEN << >>
                         ELSE types[Target(abi[n].element)].fields
            own == [i \in DOMAIN abi[n].fields |-> Target(abi[n].fields[i])]
        IN  types[n].fields = inherited \o own

(***************************************************************************)
(* The recursion limit stops the ABIs whose aliases and bases run in a     *)
(* circle, all of them, and no others that are small (abi.cpp:48, 117,     *)
(* 153).  DefinedBelow is the definition that a name leads to, which may   *)
(* have suffixes itself; a circle is a set of definitions each of which    *)
(* leads to one in the set.                                                *)
(***************************************************************************)
Prefixes(name) == {SubSeq(name, 1, k) : k \in 1 .. Len(name)}

DefinedBelow(defs, name) ==
    LET n == CHOOSE k \in 1 .. Len(name) :
                /\ k = 1 \/ SubSeq(name, 1, k) \in DOMAIN defs
                /\ \A m \in k + 1 .. Len(name) : SubSeq(name, 1, m) \notin DOMAIN defs
    IN  SubSeq(name, 1, n)

Follows(defs, n) ==
    IF \/ defs[n].kind = "alias_def"
       \/ defs[n].kind = "struct_def" /\ defs[n].element # << >>
    THEN {DefinedBelow(defs, defs[n].element)}
    ELSE {}

IsCircle(defs, ring) == ring # {} /\ \A n \in ring : Follows(defs, n) \cap ring # {}

Circular(defs) == \E ring \in SUBSET DOMAIN defs : IsCircle(defs, ring)

\* The calls under way have different names: structs with a base and the one
\* they lead to, then the parts of one name the ABI mentions and of the names
\* that aliases stand for.  A caller's name is only taken apart.
Extending(defs) == {n \in DOMAIN defs : defs[n].kind = "struct_def" /\ defs[n].element # << >>}

BelowAliases(defs) ==
    UNION {Prefixes(defs[n].element) : n \in {m \in DOMAIN defs : defs[m].kind = "alias_def"}}

Mentioned(defs) ==
    ({defs[n].element : n \in DOMAIN defs} \ {<< >>})
    \cup UNION {{defs[n].fields[i] : i \in DOMAIN defs[n].fields} : n \in DOMAIN defs}

Small(defs) ==
    \A name \in Mentioned(defs) :
        Cardinality(Extending(defs)) + 1 + Cardinality(Prefixes(name) \cup BelowAliases(defs))
            <= MaxDepth

ShortRequests == \A name \in Requests : Len(name) <= MaxDepth

CirclesRefused ==
    /\ pc = "ready" => ~Circular(abi)
    /\ error = "recursion_limit_reached" /\ Small(abi) /\ ShortRequests => Circular(abi)

(***************************************************************************)
(* A conversion holds pointers into the table while later calls of         *)
(* get_type add to it, and some of them fail halfway: no node that is      *)
(* there ever changes or goes, but that a struct add_type is entering gets *)
(* its members one by one (abi.hpp:270, 309-311, abi.cpp:179-181).         *)
(***************************************************************************)
Entering(n) == \E i \in DOMAIN calls : calls[i].fn = "members" /\ calls[i].name = n

GainsMember(node, after) ==
    \E type \in DOMAIN types : after = [node EXCEPT !.fields = Append(@, type)]

TableOnlyGrows ==
    [][pc = "ready" /\ pc' = "ready" =>
          \A n \in DOMAIN types :
              /\ n \in DOMAIN types'
              /\ \/ types'[n] = types[n]
                 \/ Entering(n) /\ GainsMember(types[n], types'[n])]_vars

(***************************************************************************)
(* The test's round_trip_abi (template_test.cpp:39-46): a table written as *)
(* definitions and converted again is the table it was, aliases, structs   *)
(* and variants with the same targets, fields and alternatives.  The names *)
(* of a variant's alternatives are not the model's: an alternative written *)
(* as an alias comes back under the name of the alias's target.            *)
(***************************************************************************)
DefinitionsComeBack ==
    source # << >> =>
        /\ pc # "failed"
        /\ pc = "ready" => \A n \in DOMAIN source : types[n] = source[n]
===============================================================================
