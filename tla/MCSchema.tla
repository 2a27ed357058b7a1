------------------------------- MODULE MCSchema -------------------------------
(***************************************************************************)
(* Small type tables for the model checker.  The first exercises every     *)
(* kind of type, extensions below a variant and a struct that contains     *)
(* itself; the others isolate one feature each.                            *)
(***************************************************************************)
EXTENDS Naturals, Sequences, TLC

Node(kind, element, size, fields) ==
    [kind |-> kind, element |-> element, size |-> size, fields |-> fields]
Field_(n, t) == [name |-> n, type |-> t]

Scalar          == Node("builtin", "int8", 1, << >>)
Of(kind, t)     == Node(kind, t, 1, << >>)
Fixed(t, n)     == Node("fixed_array", t, n, << >>)
Struct_(fields) == Node("struct", "int8", 1, fields)
Choice(fields)  == Node("variant", "int8", 1, fields)

\* struct tail { int8? x; int8[]?$ y; }    variant pick = int8 | tail
\* struct all  { pick[2] p; pick$ q; }     struct tree { tree[] x; }
FullTable ==
       "int8"     :> Scalar
    @@ "int8?"    :> Of("optional", "int8")
    @@ "int8[]"   :> Of("array", "int8")
    @@ "int8[]?"  :> Of("optional", "int8[]")
    @@ "int8[]?$" :> Of("extension", "int8[]?")
    @@ "tail"     :> Struct_(<<Field_("x", "int8?"), Field_("y", "int8[]?$")>>)
    @@ "tail[]"   :> Of("array", "tail")
    @@ "pick"     :> Choice(<<Field_("int8", "int8"), Field_("tail", "tail")>>)
    @@ "pick$"    :> Of("extension", "pick")
    @@ "int8[2]"  :> Fixed("int8", 2)
    @@ "all"      :> Struct_(<<Field_("x", "int8[2]"), Field_("y", "pick$")>>)
    @@ "tree"     :> Struct_(<<Field_("x", "tree[]")>>)
    @@ "tree[]"   :> Of("array", "tree")

\* An extension that is not last: struct odd { int8$ x; int8 y; }
\* and struct none { }                struct bare { int8$ x; none y; }
ExtensionFirstTable ==
       "int8"     :> Scalar
    @@ "int8$"    :> Of("extension", "int8")
    @@ "odd"      :> Struct_(<<Field_("x", "int8$"), Field_("y", "int8")>>)
    @@ "none"     :> Struct_(<< >>)
    @@ "bare"     :> Struct_(<<Field_("x", "int8$"), Field_("y", "none")>>)

\* Every kind of type over few names, for documents with arbitrary contents.
\* struct pair { int8?$ x; pick$ y; }   variant pick = y: int8 | x: int8[2]
FewTable ==
       "int8"         :> Scalar
    @@ "int8?"        :> Of("optional", "int8")
    @@ "int8?$"       :> Of("extension", "int8?")
    @@ "int8[2]"      :> Fixed("int8", 2)
    @@ "pick"         :> Choice(<<Field_("y", "int8"), Field_("x", "int8[2]")>>)
    @@ "pick$"        :> Of("extension", "pick")
    @@ "pair"         :> Struct_(<<Field_("x", "int8?$"), Field_("y", "pick$")>>)
    @@ "pair[]"       :> Of("array", "pair")
    @@ "int8[]"       :> Of("array", "int8")
    @@ "int8[][]"     :> Of("array", "int8[]")
    @@ "int8[][][]"   :> Of("array", "int8[][]")
    @@ "int8[][][][]" :> Of("array", "int8[][][]")

FewStrings == {"x", "y"}
FewTextOf  == (0 :> "x")

TableKind(table)    == [t \in DOMAIN table |-> table[t].kind]
TableElement(table) == [t \in DOMAIN table |-> table[t].element]
TableSize(table)    == [t \in DOMAIN table |-> table[t].size]
TableFields(table)  == [t \in DOMAIN table |-> table[t].fields]

\* Scalars "0" and "1"; "z" is no field, no type and no number.
SmallStrings == {"x", "y", "z", "int8", "tail", "0", "1"}
SmallTextOf  == (0 :> "0") @@ (1 :> "1")

\* A third byte: a size or an index too large, and a bool that is no bool.
WideStrings == SmallStrings \cup {"2"}
WideTextOf  == SmallTextOf @@ (2 :> "2")
==============================================================================
