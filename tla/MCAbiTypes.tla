----------------------------- MODULE MCAbiTypes -----------------------------
(***************************************************************************)
(* Instance of AbiTypes: every ABI that defines some of three names, each  *)
(* as one of thirteen aliases, structs and variants over the same names;   *)
(* ABIs that define a name with a suffix or use odd ones; and ABIs with a  *)
(* name that is empty or taken.                                            *)
(***************************************************************************)
EXTENDS AbiTypes, TLC

SmallBuiltins == {"asset", "int8", "name"}
SmallOrder    == <<<<"a">>, <<"b">>, <<"b", "?">>, <<"c">>, <<"s">>, <<"u">>, <<"v">>>>

SmallDefinitions ==
    {Node("alias_def", target, << >>) :
        target \in {<<"int8">>, <<"a">>, <<"b">>, <<"c">>, <<"a", "?">>, <<"b", "$">>, <<"c", "[]">>}}
    \cup {Node("struct_def", base, <<<<"b">>, <<"c", "?">>>>) : base \in {<< >>, <<"a">>, <<"b">>}}
    \cup {Node("struct_def", base, << >>) : base \in {<<"b">>, <<"c">>}}
    \cup {Node("variant_def", << >>, <<<<"a", "[2]">>, <<"b">>>>)}

Over(names, definitions) == UNION {[defined -> definitions] : defined \in SUBSET names}

Struct(base, fields) == Node("struct_def", base, fields)
Alias(target) == Node("alias_def", target, << >>)

\* b? is not the optional of b; c is always there.
Suffixed ==
    {f @@ g @@ (<<"c">> :> Struct(<<"b", "?">>, <<<<"b", "?">>>>)) :
        f \in Over({<<"a">>, <<"b">>}, SmallDefinitions),
        g \in [{<<"b", "?">>} -> {Struct(<< >>, <<<<"b", "$">>>>), Alias(<<"int8">>),
                                  Alias(<<"b">>), Struct(<<"a">>, << >>)}]}

Odd ==
    {(<<"a">> :> Struct(base, <<<<"int8">>, target>>)) @@ (<<"b">> :> Alias(target)) :
        base \in {<< >>, <<"extended_asset">>},
        target \in {<<"int8", s>> : s \in DOMAIN BadSizes}
                   \cup {<<"extended_asset">>, <<"extended_asset", "[2]">>,
                         <<"">>, <<"", "?">>, <<"", "]">>}}

Taken == Over({<<"">>, <<"int8">>, <<"extended_asset">>}, {Alias(<<"name">>), Struct(<< >>, << >>)})

SmallAbis == Over({<<"a">>, <<"b">>, <<"c">>}, SmallDefinitions) \cup Suffixed \cup Odd \cup Taken

SmallRequests == {<<"a", "[]", "$", "$">>, <<"c", "[2]", "?">>}

\* struct s { vector<int8_t>; vector<s>; v; }   variant v = int8_t | optional<s>
\* struct u { int8_t; vector<vector<int8_t>>; }, which add_type refuses
SmallReflected ==
       <<"s">> :> Node("struct", << >>, <<<<"int8", "[]">>, <<"s", "[]">>, <<"v">>>>)
    @@ <<"v">> :> Node("variant", << >>, <<<<"int8">>, <<"s", "?">>>>)
    @@ <<"u">> :> Node("struct", << >>, <<<<"int8">>, <<"int8", "[]", "[]">>>>)

SmallCppRequests == {<<"v", "[2]">>, <<"u", "?">>, <<"w">>}

\* What the theorem TablesAreSound of AbiTypes_proofs supposes holds here.
ASSUME AliasesApart

\* And what CirclesRefused says of small ABIs and short requests it says of these.
ASSUME ShortRequests /\ \A a \in SmallAbis : Small(a)
=============================================================================
