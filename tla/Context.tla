------------------------------- MODULE Context -------------------------------
(***************************************************************************)
(* The C interface (abieos.h, abieos.cpp): a context with the ABIs loaded  *)
(* into it, one buffer for binary results, one for strings, and the last   *)
(* error.  One action per function; its arguments and the outcome of the   *)
(* parsers it calls are chosen.  Conversions are whole steps here, the     *)
(* other modules say what they do.                                         *)
(***************************************************************************)
EXTENDS Naturals, Sequences

CONSTANTS
    Contracts,  \* contract names (a name is a number in the code)
    Abis,       \* ABIs that convert() accepts
    TypeNames,  \* names of types, actions and tables alike
    Defines,    \* the type names each ABI resolves
    Texts,      \* JSON texts of values
    Fits        \* the texts each type of each ABI converts to binary

ASSUME AbiAssumption ==
    /\ Defines \in [Abis -> SUBSET TypeNames]
    /\ Fits \in [Abis -> [TypeNames -> SUBSET Texts]]

VARIABLES
    context,    \* "live", or "null" before create and after destroy
    contracts,  \* context->contracts
    last_error, \* context->last_error: which function set it, and the reason
    result_bin, \* context->result_bin
    result_str, \* context->result_str
    lent,       \* type names the caller holds pointers to: contract and ABI
    call        \* the last call: function, contract, ABI asked for, returned

state == <<contracts, last_error, result_bin, result_str, lent>>
vars == <<context, state, call>>

----------------------------------------------------------------------------
Loads == {"set_abi", "set_abi_bin", "set_abi_hex"}
ToBin == {"json_to_bin", "json_to_bin_reorderable"}
ToJson == {"bin_to_json", "hex_to_json"}
Lookups == {"get_type_for_action", "get_type_for_table", "get_type_for_action_result"}
AbiConversions == {"abi_json_to_bin", "abi_bin_to_json"}
Functions == Loads \cup ToBin \cup ToJson \cup Lookups \cup AbiConversions
             \cup {"get_bin_hex", "name_to_string", "delete_contract"}

\* What the parsers below a function can throw, or it checks for.
Faults(f) ==
    CASE f = "set_abi"         -> {"syntax", "version", "types"}
      [] f = "set_abi_bin"     -> {"no data", "stream", "version", "types"}
      [] f = "set_abi_hex"     -> {"hex", "no data", "stream", "version", "types"}
      [] f = "abi_json_to_bin" -> {"syntax", "version"}
      [] f = "abi_bin_to_json" -> {"no data", "stream", "version"}

Reasons == {"", "default", "hex", "no data", "stream", "syntax", "version", "types",
            "not loaded", "no such name", "unknown type", "conversion"}

Error(f, reason) == [of |-> f, reason |-> reason]

NoAbi == "no ABI"
Empty == << >>

\* A binary is known by what it was made from: a value, or an ABI itself.
Binaries == {Empty} \cup (Abis \X TypeNames \X Texts) \cup (Abis \X {"abi"})
Strings_ == Texts \cup {"", "hex", "name", "abi"}

TypeOK ==
    /\ context \in {"null", "live"}
    /\ DOMAIN contracts \subseteq Contracts
    /\ \A c \in DOMAIN contracts : contracts[c] \in Abis
    /\ last_error.of \in Functions \cup {""} /\ last_error.reason \in Reasons
    /\ result_bin \in Binaries
    /\ result_str \in Strings_
    /\ lent \subseteq Contracts \X Abis
    /\ call.of \in Functions \cup {"create"} /\ call.ok \in BOOLEAN

NoContracts == [c \in {} |-> NoAbi]

Fresh ==
    /\ contracts = NoContracts
    /\ last_error = Error("", "")
    /\ result_bin = Empty
    /\ result_str = ""
    /\ lent = {}

Call(f, c, a, ok) == [of |-> f, contract |-> c, abi |-> a, ok |-> ok]

AnyContract == CHOOSE c \in Contracts : TRUE

Init ==
    /\ context = "null"
    /\ Fresh
    /\ call = Call("create", AnyContract, NoAbi, FALSE)

----------------------------------------------------------------------------
Create ==
    /\ context = "null"
    /\ context' = "live"
    /\ call' = Call("create", AnyContract, NoAbi, TRUE)
    /\ UNCHANGED state

Destroy ==
    /\ context = "live"
    /\ context' = "null"
    /\ contracts' = NoContracts /\ last_error' = Error("", "")
    /\ result_bin' = Empty /\ result_str' = "" /\ lent' = {}
    /\ call' = Call("create", AnyContract, NoAbi, FALSE)

\* handle_exceptions: without a context the error value is returned.
\* delete_contract is the one function that does not check.
NoContext(f) ==
    /\ context = "null"
    /\ f # "delete_contract"
    /\ call' = Call(f, AnyContract, NoAbi, FALSE)
    /\ UNCHANGED <<context, state>>

Fails(f, c, reason) ==
    /\ last_error' = Error(f, reason)
    /\ call' = Call(f, c, NoAbi, FALSE)

Succeeds(f, c, a) == call' = Call(f, c, a, TRUE)

----------------------------------------------------------------------------
\* Faulty: operator[] makes an empty ABI; an assignment replaces the old one.
InsertEmpty(c, a) ==
    contracts' = [x \in DOMAIN contracts \cup {c} |-> IF x = c THEN NoAbi ELSE contracts[x]]

InsertOrAssign(c, a) ==
    contracts' = [x \in DOMAIN contracts \cup {c} |-> IF x = c THEN a ELSE contracts[x]]

(***************************************************************************)
(* abieos_set_abi, _bin, _hex.  The ABI is complete before it is inserted; *)
(* map::insert keeps what is there.                                        *)
(***************************************************************************)
Insert(c, a) ==
    contracts' = IF c \in DOMAIN contracts THEN contracts
                 ELSE [x \in DOMAIN contracts \cup {c} |->
                         IF x = c THEN a ELSE contracts[x]]

\* Faulty: the old ABI is erased before the new one is read.
SetAbiErases(f, c) ==
    /\ context = "live"
    /\ \/ \E a \in Abis : InsertOrAssign(c, a) /\ Succeeds(f, c, a)
       \/ /\ contracts' = [x \in DOMAIN contracts \ {c} |-> contracts[x]]
          /\ call' = Call(f, c, NoAbi, FALSE)
    /\ UNCHANGED <<context, last_error, result_bin, result_str, lent>>

SetAbi(f, c) ==
    /\ context = "live"
    /\ \/ \E a \in Abis :
            /\ Insert(c, a)
            /\ last_error' = Error(f, "default")
            /\ Succeeds(f, c, a)
       \/ \E fault \in Faults(f) : Fails(f, c, fault) /\ UNCHANGED contracts
    /\ UNCHANGED <<context, result_bin, result_str, lent>>

\* The type's name stays in the contract's map, the caller gets its address.
GetType(f, c, name) ==
    /\ context = "live"
    /\ IF c \notin DOMAIN contracts
         THEN Fails(f, c, "not loaded") /\ UNCHANGED lent
       ELSE IF name \notin Defines[contracts[c]]
         THEN Fails(f, c, "no such name") /\ UNCHANGED lent
       ELSE /\ lent' = lent \cup {<<c, contracts[c]>>}
            /\ Succeeds(f, c, contracts[c])
            /\ UNCHANGED last_error
    /\ UNCHANGED <<context, contracts, result_bin, result_str>>

\* result_bin is cleared once the type is known, before the conversion.
JsonToBin(f, c, type, text) ==
    /\ context = "live"
    /\ IF c \notin DOMAIN contracts
         THEN Fails(f, c, "not loaded") /\ UNCHANGED result_bin
       ELSE IF type \notin Defines[contracts[c]]
         THEN Fails(f, c, "unknown type") /\ UNCHANGED result_bin
       ELSE IF text \notin Fits[contracts[c]][type]
         THEN Fails(f, c, "conversion") /\ result_bin' = Empty
       ELSE /\ result_bin' = <<contracts[c], type, text>>
            /\ last_error' = Error(f, "default")
            /\ Succeeds(f, c, contracts[c])
    /\ UNCHANGED <<context, contracts, result_str, lent>>

\* A contract that is not loaded: set_error is given a local string.  The
\* bytes convert to some text or are refused.
BinToJson(f, c, type) ==
    /\ context = "live"
    /\ IF c \notin DOMAIN contracts
         THEN Fails(f, c, "default") /\ UNCHANGED result_str
       ELSE IF type \notin Defines[contracts[c]]
         THEN Fails(f, c, "unknown type") /\ UNCHANGED result_str
       ELSE \/ Fails(f, c, "conversion") /\ UNCHANGED result_str
            \/ \E text \in Fits[contracts[c]][type] :
                 /\ result_str' = text
                 /\ last_error' = Error(f, "default")
                 /\ Succeeds(f, c, contracts[c])
    /\ UNCHANGED <<context, contracts, result_bin, lent>>

\* Faulty: the error is not set.
BadHexSilent(c) ==
    /\ context = "live"
    /\ call' = Call("hex_to_json", c, NoAbi, FALSE)
    /\ UNCHANGED <<context, state>>

\* The hex digits are refused before any contract is looked for.
BadHex(c) ==
    /\ context = "live"
    /\ Fails("hex_to_json", c, "hex")
    /\ UNCHANGED <<context, contracts, result_bin, result_str, lent>>

AbiJsonToBin ==
    /\ context = "live"
    /\ \/ \E a \in Abis :
            /\ result_bin' = <<a, "abi">>
            /\ Succeeds("abi_json_to_bin", AnyContract, a)
            /\ UNCHANGED last_error
       \/ \E fault \in Faults("abi_json_to_bin") :
            Fails("abi_json_to_bin", AnyContract, fault) /\ UNCHANGED result_bin
    /\ UNCHANGED <<context, contracts, result_str, lent>>

AbiBinToJson ==
    /\ context = "live"
    /\ \/ \E a \in Abis :
            /\ result_str' = "abi"
            /\ Succeeds("abi_bin_to_json", AnyContract, a)
            /\ UNCHANGED last_error
       \/ \E fault \in Faults("abi_bin_to_json") :
            Fails("abi_bin_to_json", AnyContract, fault) /\ UNCHANGED result_str
    /\ UNCHANGED <<context, contracts, result_bin, lent>>

\* abieos_get_bin_hex and abieos_name_to_string share the string buffer.
GetString(f, string) ==
    /\ context = "live"
    /\ result_str' = string
    /\ Succeeds(f, AnyContract, NoAbi)
    /\ UNCHANGED <<context, contracts, last_error, result_bin, lent>>

\* The caller forgets the type names of a contract it deletes.
DeleteContract(c) ==
    /\ context = "live"
    /\ contracts' = [x \in DOMAIN contracts \ {c} |-> contracts[x]]
    /\ lent' = {l \in lent : l[1] # c}
    /\ call' = Call("delete_contract", c, NoAbi, c \in DOMAIN contracts)
    /\ UNCHANGED <<context, last_error, result_bin, result_str>>

Next ==
    \/ Create \/ Destroy
    \/ \E f \in Functions : NoContext(f)
    \/ AbiJsonToBin \/ AbiBinToJson
    \/ GetString("get_bin_hex", "hex") \/ GetString("name_to_string", "name")
    \/ \E c \in Contracts :
         \/ \E f \in Loads : SetAbi(f, c)
         \/ \E type \in TypeNames :
              \/ \E f \in Lookups : GetType(f, c, type)
              \/ \E f \in ToBin, text \in Texts : JsonToBin(f, c, type, text)
              \/ \E f \in ToJson : BinToJson(f, c, type)
         \/ BadHex(c)
         \/ DeleteContract(c)

Spec == Init /\ [][Next]_vars

----------------------------------------------------------------------------
(***************************************************************************)
(* A pointer to a type name (abieos.cpp:157, 172, 188) stays good until    *)
(* its contract is deleted, whatever is loaded meanwhile: a loaded ABI is  *)
(* never replaced under the caller.                                        *)
(***************************************************************************)
LentNamesLive ==
    \A l \in lent : l[1] \in DOMAIN contracts /\ contracts[l[1]] = l[2]

(***************************************************************************)
(* A call that fails leaves the loaded ABIs and the last string as they    *)
(* were, and the last binary whole or gone: never a part of a new one      *)
(* (abieos.cpp:106, 203-204, 241).                                         *)
(***************************************************************************)
FailureKeepsResults ==
    [][~call'.ok /\ context' = "live" =>
          /\ contracts' = contracts
          /\ result_str' = result_str
          /\ result_bin' \in {result_bin, Empty}]_vars

(***************************************************************************)
(* After a failed call the error is one this call has set, never one an    *)
(* earlier call left (handle_exceptions and the early returns of every     *)
(* function).  delete_contract reports by its result alone.                *)
(***************************************************************************)
NoStaleError ==
    context = "live" /\ ~call.ok /\ call.of # "delete_contract" =>
        last_error.of = call.of
==============================================================================
