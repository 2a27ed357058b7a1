---------------------------- MODULE Context_proofs ----------------------------
(***************************************************************************)
(* Proofs about Context, for every set of contracts, ABIs, types and       *)
(* texts.                                                                  *)
(***************************************************************************)
EXTENDS Context, TLAPS

----------------------------------------------------------------------------
(***************************************************************************)
(* The inductive invariant: what is loaded is a function, so deleting a    *)
(* contract that is not loaded changes nothing, and what was lent is there.*)
(***************************************************************************)
Loaded(cs) == cs = [c \in DOMAIN cs |-> cs[c]]

IInv == TypeOK /\ Loaded(contracts) /\ LentNamesLive

LEMMA InitInv == Init => IInv
  <1> SUFFICES ASSUME Init PROVE IInv
    OBVIOUS
  <1>1. contracts = NoContracts /\ DOMAIN contracts = {}
    BY DEF Init, Fresh, NoContracts
  <1>2. TypeOK
    BY <1>1 DEF Init, Fresh, TypeOK, Error, Call, Reasons, Binaries, Empty, Strings_
  <1>3. Loaded(contracts)
    BY <1>1 DEF Loaded, NoContracts
  <1>4. QED
    BY <1>1, <1>2, <1>3 DEF Init, Fresh, LentNamesLive, IInv

\* Every reason a parser can fail for is one of Reasons.
LEMMA FaultFacts ==
    \A f \in Loads \cup {"abi_json_to_bin", "abi_bin_to_json"} : Faults(f) \subseteq Reasons
  BY DEF Loads, Faults, Reasons

\* A call that fails leaves a well-typed error and call.
LEMMA FailsStep ==
    ASSUME NEW f \in Functions, NEW c, NEW reason \in Reasons, Fails(f, c, reason)
    PROVE  /\ last_error'.of = f /\ last_error'.reason = reason
           /\ call'.of = f /\ call'.ok = FALSE
  BY DEF Fails, Error, Call

\* A call that succeeds.
LEMMA SucceedsStep ==
    ASSUME NEW f, NEW c, NEW a, Succeeds(f, c, a)
    PROVE  call'.of = f /\ call'.ok = TRUE
  BY DEF Succeeds, Call

\* Inserting an ABI keeps those that are there.
LEMMA InsertFacts ==
    ASSUME NEW c \in Contracts, NEW a \in Abis, Insert(c, a), IInv
    PROVE  /\ DOMAIN contracts' = DOMAIN contracts \cup {c}
           /\ \A x \in DOMAIN contracts : contracts'[x] = contracts[x]
           /\ contracts'[c] \in Abis
           /\ Loaded(contracts')
  BY DEF Insert, IInv, TypeOK, Loaded

----------------------------------------------------------------------------
LEMMA SetAbiStep ==
    ASSUME IInv, NEW f \in Loads, NEW c \in Contracts, SetAbi(f, c)
    PROVE  IInv'
  <1>1. f \in Functions /\ "default" \in Reasons
    BY DEF Functions, Reasons
  <1>2. CASE \E a \in Abis :
               /\ Insert(c, a)
               /\ last_error' = Error(f, "default")
               /\ Succeeds(f, c, a)
    <2>1. PICK a \in Abis : Insert(c, a) /\ last_error' = Error(f, "default") /\ Succeeds(f, c, a)
      BY <1>2
    <2>2. call'.of = f /\ call'.ok = TRUE
      BY <2>1, SucceedsStep
    <2>3. last_error'.of = f /\ last_error'.reason = "default"
      BY <2>1 DEF Error
    <2>4. QED
      BY <1>1, <2>1, <2>2, <2>3, InsertFacts DEF SetAbi, IInv, TypeOK, LentNamesLive
  <1>3. CASE \E fault \in Faults(f) : Fails(f, c, fault) /\ UNCHANGED contracts
    <2>1. PICK fault \in Faults(f) : Fails(f, c, fault) /\ UNCHANGED contracts
      BY <1>3
    <2>2. fault \in Reasons
      BY FaultFacts
    <2>3. QED
      BY <1>1, <2>1, <2>2, FailsStep DEF SetAbi, IInv, TypeOK, LentNamesLive, Loaded
  <1>4. QED
    BY <1>2, <1>3 DEF SetAbi

LEMMA GetTypeStep ==
    ASSUME IInv, NEW f \in Lookups, NEW c \in Contracts, NEW name \in TypeNames,
           GetType(f, c, name)
    PROVE  IInv'
  <1>1. f \in Functions /\ {"not loaded", "no such name"} \subseteq Reasons
    BY DEF Functions, Reasons
  <1>2. CASE (Fails(f, c, "not loaded") \/ Fails(f, c, "no such name")) /\ UNCHANGED lent
    BY <1>1, <1>2, FailsStep DEF GetType, IInv, TypeOK, LentNamesLive, Loaded
  <1>3. CASE /\ c \in DOMAIN contracts
             /\ lent' = lent \cup {<<c, contracts[c]>>}
             /\ Succeeds(f, c, contracts[c])
             /\ UNCHANGED last_error
    <2>1. call'.of = f /\ call'.ok = TRUE
      BY <1>3, SucceedsStep
    <2>2. UNCHANGED <<context, contracts, result_bin, result_str>>
      BY DEF GetType
    <2>3. TypeOK' /\ Loaded(contracts')
      <3>1. lent' \subseteq Contracts \X Abis
        <4>1. lent \subseteq Contracts \X Abis /\ contracts[c] \in Abis
          BY <1>3 DEF IInv, TypeOK
        <4>2. <<c, contracts[c]>> \in Contracts \X Abis
          BY <4>1
        <4>3. QED
          BY <4>1, <4>2, <1>3, Zenon
      <3>2. Loaded(contracts')
        BY <2>2 DEF IInv, Loaded
      <3>3. QED
        BY <1>1, <1>3, <2>1, <2>2, <3>1, <3>2 DEF IInv, TypeOK
    <2>4. LentNamesLive'
      <3>1. \A l \in lent' : l \in lent \/ l = <<c, contracts[c]>>
        BY <1>3
      <3>2. QED
        BY <1>3, <2>2, <3>1 DEF IInv, LentNamesLive
    <2>5. QED
      BY <2>3, <2>4 DEF IInv
  <1>4. QED
    BY <1>2, <1>3 DEF GetType

LEMMA JsonToBinStep ==
    ASSUME IInv, NEW f \in ToBin, NEW c \in Contracts, NEW type \in TypeNames,
           NEW text \in Texts, JsonToBin(f, c, type, text)
    PROVE  IInv'
  <1>1. /\ f \in Functions
        /\ {"not loaded", "unknown type", "conversion", "default"} \subseteq Reasons
        /\ Empty \in Binaries
    BY DEF Functions, Reasons, Binaries
  <1>2. CASE \E reason \in Reasons : Fails(f, c, reason) /\ result_bin' \in {result_bin, Empty}
    BY <1>1, <1>2, FailsStep DEF JsonToBin, IInv, TypeOK, LentNamesLive, Loaded
  <1>3. CASE /\ c \in DOMAIN contracts
             /\ result_bin' = <<contracts[c], type, text>>
             /\ last_error' = Error(f, "default")
             /\ Succeeds(f, c, contracts[c])
    <2>1. call'.of = f /\ call'.ok = TRUE
      BY <1>3, SucceedsStep
    <2>2. last_error'.of = f /\ last_error'.reason = "default"
      BY <1>3 DEF Error
    <2>3. result_bin' \in Binaries
      BY <1>3 DEF IInv, TypeOK, Binaries
    <2>4. UNCHANGED <<context, contracts, result_str, lent>>
      BY DEF JsonToBin
    <2>5. QED
      BY <1>1, <2>1, <2>2, <2>3, <2>4 DEF IInv, TypeOK, LentNamesLive, Loaded
  <1>4. QED
    BY <1>1, <1>2, <1>3 DEF JsonToBin

LEMMA BinToJsonStep ==
    ASSUME IInv, NEW f \in ToJson, NEW c \in Contracts, NEW type \in TypeNames,
           BinToJson(f, c, type)
    PROVE  IInv'
  <1>1. /\ f \in Functions
        /\ {"unknown type", "conversion", "default"} \subseteq Reasons
    BY DEF Functions, Reasons
  <1>2. UNCHANGED <<context, contracts, result_bin, lent>>
    BY DEF BinToJson
  <1>3. CASE \E reason \in Reasons : Fails(f, c, reason) /\ UNCHANGED result_str
    BY <1>1, <1>2, <1>3, FailsStep DEF IInv, TypeOK, LentNamesLive, Loaded
  <1>4. CASE \E text \in Texts : /\ result_str' = text
                                 /\ last_error' = Error(f, "default")
                                 /\ Succeeds(f, c, contracts[c])
    <2>1. call'.of = f /\ call'.ok = TRUE
      BY <1>4, SucceedsStep
    <2>2. last_error'.of = f /\ last_error'.reason = "default"
      BY <1>4 DEF Error
    <2>3. QED
      BY <1>1, <1>2, <1>4, <2>1, <2>2 DEF IInv, TypeOK, LentNamesLive, Loaded, Strings_
  <1>5. QED
    BY <1>1, <1>3, <1>4, AbiAssumption DEF BinToJson, IInv, TypeOK

LEMMA AbiConversionStep ==
    ASSUME IInv, AbiJsonToBin \/ AbiBinToJson
    PROVE  IInv'
  <1>1. {"abi_json_to_bin", "abi_bin_to_json"} \subseteq Functions
    BY DEF Functions, AbiConversions
  <1>2. CASE AbiJsonToBin
    <2>1. CASE \E a \in Abis : /\ result_bin' = <<a, "abi">>
                               /\ Succeeds("abi_json_to_bin", AnyContract, a)
                               /\ UNCHANGED last_error
      <3>1. result_bin' \in Binaries
        BY <2>1 DEF Binaries
      <3>2. call'.of = "abi_json_to_bin" /\ call'.ok = TRUE
        BY <2>1, SucceedsStep
      <3>3. QED
        BY <1>1, <1>2, <2>1, <3>1, <3>2 DEF AbiJsonToBin, IInv, TypeOK, LentNamesLive, Loaded
    <2>2. CASE \E fault \in Faults("abi_json_to_bin") :
                 Fails("abi_json_to_bin", AnyContract, fault) /\ UNCHANGED result_bin
      BY <1>1, <1>2, <2>2, FailsStep, FaultFacts
      DEF AbiJsonToBin, IInv, TypeOK, LentNamesLive, Loaded
    <2>3. QED
      BY <1>2, <2>1, <2>2 DEF AbiJsonToBin
  <1>3. CASE AbiBinToJson
    <2>1. CASE \E a \in Abis : /\ result_str' = "abi"
                               /\ Succeeds("abi_bin_to_json", AnyContract, a)
                               /\ UNCHANGED last_error
      <3>1. call'.of = "abi_bin_to_json" /\ call'.ok = TRUE
        BY <2>1, SucceedsStep
      <3>2. QED
        BY <1>1, <1>3, <2>1, <3>1 DEF AbiBinToJson, IInv, TypeOK, LentNamesLive, Loaded, Strings_
    <2>2. CASE \E fault \in Faults("abi_bin_to_json") :
                 Fails("abi_bin_to_json", AnyContract, fault) /\ UNCHANGED result_str
      BY <1>1, <1>3, <2>2, FailsStep, FaultFacts
      DEF AbiBinToJson, IInv, TypeOK, LentNamesLive, Loaded
    <2>3. QED
      BY <1>3, <2>1, <2>2 DEF AbiBinToJson
  <1>4. QED
    BY <1>2, <1>3

LEMMA DeleteStep ==
    ASSUME IInv, NEW c \in Contracts, DeleteContract(c)
    PROVE  IInv'
  <1>1. /\ DOMAIN contracts' = DOMAIN contracts \ {c}
        /\ \A x \in DOMAIN contracts' : contracts'[x] = contracts[x]
        /\ Loaded(contracts')
    BY DEF DeleteContract, Loaded
  <1>2. call'.of = "delete_contract" /\ call'.ok \in BOOLEAN /\ "delete_contract" \in Functions
    BY DEF DeleteContract, Call, Functions
  <1>3. QED
    BY <1>1, <1>2 DEF DeleteContract, IInv, TypeOK, LentNamesLive

LEMMA LifeStep ==
    ASSUME IInv, Create \/ Destroy \/ \E f \in Functions : NoContext(f)
    PROVE  IInv'
  <1>1. CASE Create
    BY <1>1 DEF Create, Call, state, IInv, TypeOK, LentNamesLive, Loaded
  <1>2. CASE Destroy
    <2>1. contracts' = NoContracts /\ DOMAIN contracts' = {} /\ lent' = {}
      BY <1>2 DEF Destroy, NoContracts
    <2>2. Loaded(contracts')
      BY <2>1 DEF Loaded, NoContracts
    <2>3. TypeOK'
      BY <1>2, <2>1 DEF Destroy, TypeOK, Error, Call, Reasons, Binaries, Empty, Strings_
    <2>4. QED
      BY <2>1, <2>2, <2>3 DEF IInv, LentNamesLive
  <1>3. CASE \E f \in Functions : NoContext(f)
    <2>1. PICK f \in Functions : NoContext(f)
      BY <1>3
    <2>2. call'.of = f /\ call'.ok = FALSE
      BY <2>1 DEF NoContext, Call
    <2>3. UNCHANGED <<context, contracts, last_error, result_bin, result_str, lent>>
      BY <2>1 DEF NoContext, state
    <2>4. QED
      BY <2>2, <2>3 DEF IInv, TypeOK, LentNamesLive, Loaded
  <1>4. QED
    BY <1>1, <1>2, <1>3

LEMMA StringStep ==
    ASSUME IInv, \/ GetString("get_bin_hex", "hex") \/ GetString("name_to_string", "name")
                 \/ \E c \in Contracts : BadHex(c)
    PROVE  IInv'
  <1>1. CASE GetString("get_bin_hex", "hex") \/ GetString("name_to_string", "name")
    BY <1>1, SucceedsStep
    DEF GetString, IInv, TypeOK, LentNamesLive, Loaded, Functions, Strings_
  <1>2. CASE \E c \in Contracts : BadHex(c)
    <2>1. "hex_to_json" \in Functions /\ "hex" \in Reasons
      BY DEF Functions, ToJson, Reasons
    <2>2. QED
      BY <1>2, <2>1, FailsStep DEF BadHex, IInv, TypeOK, LentNamesLive, Loaded
  <1>3. QED
    BY <1>1, <1>2

LEMMA StepInv == IInv /\ [Next]_vars => IInv'
  <1>1. ASSUME IInv, UNCHANGED vars PROVE IInv'
    BY <1>1 DEF vars, state, IInv, TypeOK, LentNamesLive, Loaded
  <1>2. QED
    BY <1>1, SetAbiStep, GetTypeStep, JsonToBinStep, BinToJsonStep,
       AbiConversionStep, DeleteStep, LifeStep, StringStep DEF Next

THEOREM Inductive == Spec => []IInv
  BY InitInv, StepInv, PTL DEF Spec

----------------------------------------------------------------------------
(***************************************************************************)
(* The context's fields keep their types (abieos.cpp:10-17).               *)
(***************************************************************************)
THEOREM TypeCorrect == Spec => []TypeOK
  <1>1. IInv => TypeOK
    BY DEF IInv
  <1>2. QED
    BY <1>1, Inductive, PTL

(***************************************************************************)
(* A type name the library lent is good until its contract is deleted or   *)
(* the context destroyed (abieos.cpp:106, 127, 157, 172, 188).             *)
(***************************************************************************)
THEOREM NamesStay == Spec => []LentNamesLive
  <1>1. IInv => LentNamesLive
    BY DEF IInv
  <1>2. QED
    BY <1>1, Inductive, PTL

(***************************************************************************)
(* The reason of a failure is looked for where it was put: the last error  *)
(* comes from the call that failed (abieos.cpp:24-43).                     *)
(***************************************************************************)
THEOREM ErrorIsFresh == Spec => []NoStaleError
  <1>1. Init => NoStaleError
    BY DEF Init, NoStaleError
  <1>2. NoStaleError /\ [Next]_vars => NoStaleError'
    <2> SUFFICES ASSUME NoStaleError, [Next]_vars PROVE NoStaleError'
      OBVIOUS
    <2>1. ASSUME NEW f \in Functions, NEW c, NEW reason, Fails(f, c, reason)
          PROVE  NoStaleError'
      BY <2>1 DEF Fails, Error, Call, NoStaleError
    <2>2. ASSUME NEW f, NEW c, NEW a, Succeeds(f, c, a)
          PROVE  NoStaleError'
      BY <2>2 DEF Succeeds, Call, NoStaleError
    <2>3. {"hex_to_json", "abi_json_to_bin", "abi_bin_to_json"} \subseteq Functions
      BY DEF Functions, ToJson, AbiConversions
    <2>4. Loads \cup Lookups \cup ToBin \cup ToJson \subseteq Functions
      BY DEF Functions
    <2>5. CASE Create \/ Destroy
      BY <2>5 DEF Create, Destroy, Call, NoStaleError
    <2>6. CASE \E f \in Functions : NoContext(f)
      BY <2>6 DEF NoContext, NoStaleError
    <2>7. CASE AbiJsonToBin \/ AbiBinToJson
      BY <2>1, <2>2, <2>3, <2>7 DEF AbiJsonToBin, AbiBinToJson
    <2>8. CASE GetString("get_bin_hex", "hex") \/ GetString("name_to_string", "name")
      BY <2>2, <2>8 DEF GetString
    <2>9. CASE \E c \in Contracts : BadHex(c) \/ DeleteContract(c)
      BY <2>1, <2>3, <2>9 DEF BadHex, DeleteContract, Call, NoStaleError
    <2>10. CASE \E c \in Contracts, f \in Loads : SetAbi(f, c)
      BY <2>1, <2>2, <2>4, <2>10 DEF SetAbi
    <2>11. CASE \E c \in Contracts, type \in TypeNames, f \in Lookups : GetType(f, c, type)
      BY <2>1, <2>2, <2>4, <2>11 DEF GetType
    <2>12. CASE \E c \in Contracts, type \in TypeNames, f \in ToBin, text \in Texts :
                  JsonToBin(f, c, type, text)
      BY <2>1, <2>2, <2>4, <2>12 DEF JsonToBin
    <2>13. CASE \E c \in Contracts, type \in TypeNames, f \in ToJson : BinToJson(f, c, type)
      BY <2>1, <2>2, <2>4, <2>13 DEF BinToJson
    <2>14. CASE UNCHANGED vars
      BY <2>14 DEF vars, state, NoStaleError
    <2>15. QED
      BY <2>5, <2>6, <2>7, <2>8, <2>9, <2>10, <2>11, <2>12, <2>13, <2>14 DEF Next
  <1>3. QED
    BY <1>1, <1>2, PTL DEF Spec

(***************************************************************************)
(* A call that fails takes no ABI away, writes no string, and leaves the   *)
(* last binary whole or gone (abieos.cpp:106, 203-204, 241).               *)
(***************************************************************************)
THEOREM ResultsSurvive == Spec => FailureKeepsResults
  <1> DEFINE Kept == /\ contracts' = contracts
                     /\ result_str' = result_str
                     /\ result_bin' \in {result_bin, Empty}
  <1>1. ASSUME IInv, [Next]_vars, ~call'.ok, context' = "live"
        PROVE  Kept
    <2>1. \A f, c, a : ~Succeeds(f, c, a)
      BY <1>1, SucceedsStep
    <2>2. ~Create /\ ~Destroy
      BY <1>1 DEF Create, Destroy, Call
    <2>3. CASE \E f \in Functions : NoContext(f)
      BY <2>3 DEF NoContext, state
    <2>4. CASE AbiJsonToBin \/ AbiBinToJson
      BY <2>1, <2>4 DEF AbiJsonToBin, AbiBinToJson
    <2>5. ~(GetString("get_bin_hex", "hex") \/ GetString("name_to_string", "name"))
      BY <2>1 DEF GetString
    <2>6. CASE \E c \in Contracts : BadHex(c)
      BY <2>6 DEF BadHex
    <2>7. CASE \E c \in Contracts : DeleteContract(c)
      <3>1. PICK c \in Contracts : DeleteContract(c)
        BY <2>7
      <3>2. c \notin DOMAIN contracts
        BY <1>1, <3>1 DEF DeleteContract, Call
      <3>3. DOMAIN contracts \ {c} = DOMAIN contracts
        BY <3>2
      <3>4. contracts' = contracts
        BY <1>1, <3>1, <3>3 DEF DeleteContract, IInv, Loaded
      <3>5. QED
        BY <3>1, <3>4 DEF DeleteContract
    <2>8. CASE \E c \in Contracts, f \in Loads : SetAbi(f, c)
      BY <2>1, <2>8 DEF SetAbi
    <2>9. CASE \E c \in Contracts, type \in TypeNames, f \in Lookups : GetType(f, c, type)
      BY <2>9 DEF GetType
    <2>10. CASE \E c \in Contracts, type \in TypeNames, f \in ToBin, text \in Texts :
                  JsonToBin(f, c, type, text)
      BY <2>1, <2>10 DEF JsonToBin
    <2>11. CASE \E c \in Contracts, type \in TypeNames, f \in ToJson : BinToJson(f, c, type)
      BY <2>1, <2>11 DEF BinToJson
    <2>12. CASE UNCHANGED vars
      BY <2>12 DEF vars, state
    <2>13. QED
      BY <1>1, <2>2, <2>3, <2>4, <2>5, <2>6, <2>7, <2>8, <2>9, <2>10, <2>11, <2>12 DEF Next
  <1>2. QED
    BY <1>1, Inductive, PTL DEF Spec, FailureKeepsResults
==============================================================================
