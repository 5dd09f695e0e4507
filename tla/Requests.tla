------------------------------- MODULE Requests -------------------------------
(***************************************************************************)
(* A call of a method of the library, from its arguments to the end of its *)
(* promise.  Up to the request it is one step: nothing is awaited before   *)
(* the provider is called.  Until the provider answers, the program may    *)
(* set another default block or another provider.                          *)
(***************************************************************************)
EXTENDS EthMethods

J == INSTANCE JsonRpc

CONSTANTS
    Blocks,       \* arguments that name a block
    Providers,    \* providers, by their features
    MaxSettings   \* bounds what the program sets

VARIABLES
    defaultBlock, \* of the context
    current,      \* the current provider; Omitted before there is one
    seed,         \* requestIdSeed
    specification,\* useRpcCallSpecification
    call,         \* the call: what was asked, of whom, and how it ended
    settings      \* number of settings so far

reqVars == <<defaultBlock, current, seed, specification, call, settings>>

NoCall == [at |-> "none"]
Latest == Arg("tag", 0, 0)

ReqInit ==
    /\ defaultBlock = Latest
    /\ current \in Providers \cup {Omitted}
    /\ seed \in {J!NullDatum, 1}
    /\ specification \in BOOLEAN
    /\ call = NoCall
    /\ settings = 0

---------------------------------------------------------------------------
(* Arguments of the types that a method wants *)

Address == Arg("hex", 40, 1)
SomeHash == Arg("hex", HashDigits, 7)

\* Numbers and tags have no digits that count, bytes are those of a hash.
ASSUME BlocksAssumption ==
    \A b \in Blocks :
        /\ b = Arg(b.type, b.digits, b.value)
        /\ \/ b.type \in {"number", "tag"} /\ b.digits = 0
           \/ b.type = "hex" /\ b.digits \in 1 .. HashDigits
           \/ b.type = "bytes" /\ b.digits = HashDigits

NumbersAndTags == {b \in Blocks : BlockMeant(b)[1] # "hash"}

Suitable(kind, form) ==
    CASE form = "blockOrHash" -> Blocks
      [] form = "block"         -> NumbersAndTags
      [] form = "uint"          -> {Arg("number", 0, 2), Arg("hex", 1, 2)}
      [] form = "bytes"         -> {Arg("hex", 4, 3), Arg("bytes", 4, 3)}
      [] form = "bytes32"       -> {SomeHash, Arg("bytes", HashDigits, 7)}
      [] OTHER ->
         CASE kind = "address" -> {Address}
           [] kind = "bytes32" -> {SomeHash}
           [] kind = "bytes8"  -> {Arg("hex", 16, 4)}
           [] kind = "string"  -> {Arg("text", 0, 0)}
           [] kind = "uint"    -> {Arg("number", 0, 2)}
           [] OTHER            -> {Arg(kind, 0, 0)}

Typed(name) ==
    LET m     == Methods[name]
        forms == IF "rpc" \in DOMAIN m THEN [i \in DOMAIN RpcMethods[m.rpc].kinds |-> "asIs"]
                 ELSE Wrappers[m.wrapper].forms
        asked == IF "rpc" \in DOMAIN m THEN m.rpc
                 ELSE Wrappers[m.wrapper].calls[Len(Wrappers[m.wrapper].calls)]
        kind(i) == IF "rpc" \notin DOMAIN m /\ Wrappers[m.wrapper].kinds[i] # "any"
                   THEN Wrappers[m.wrapper].kinds[i] ELSE RpcMethods[asked].kinds[i]
    IN
    [i \in DOMAIN forms |->
        Suitable(kind(i), forms[i]) \cup (IF m.block = i THEN {Omitted} ELSE {})]

\* One argument after the other.
ArgsOf(name) ==
    LET typed == Typed(name)
        all   == UNION {typed[i] : i \in DOMAIN typed}
        order == IF name = "sign" THEN <<2, 1>> ELSE [i \in DOMAIN typed |-> i]
    IN
    {[i \in DOMAIN args |-> args[order[i]]] :
        args \in {a \in [DOMAIN typed -> all] : \A i \in DOMAIN a : a[i] \in typed[i]}}

---------------------------------------------------------------------------
Call(name, args) ==
    LET request == RequestOf(name, args, defaultBlock)
        asked   == [name |-> name, args |-> args, default |-> defaultBlock, request |-> request]
    IN
    /\ IF IsThrown(request)
       THEN call' = Joined(asked, J!Rejected(request.throws)) /\ UNCHANGED seed
       ELSE IF current = Omitted \/ J!Kind(current) = "none"
       THEN call' = Joined(asked, J!Rejected("ProviderError")) /\ UNCHANGED seed
       ELSE /\ call' = Joined([at |-> "waiting", kind |-> J!Kind(current), id |-> J!NextId(seed)], asked)
            /\ seed' = IF seed = J!NullDatum THEN seed ELSE seed + 1
    /\ UNCHANGED <<defaultBlock, current, specification, settings>>

---------------------------------------------------------------------------
(* What providers answer *)

Envelope(fields, revert) == J!Answer("object", Joined([jsonrpc |-> J!Version, id |-> 1], fields), revert)

Value == 5
EmptyList == 6  \* the empty list
Results == {Envelope([result |-> v], FALSE) : v \in {Value, J!NullDatum}}
ErrorEnvelopes == {Envelope([error |-> code], revert) : code \in {3, -32000}, revert \in BOOLEAN}
Errors == {J!ErrorInstance("Error", revert) : revert \in BOOLEAN}
\* Objects that are rejected, with their code and message.
Objects == {J!Answer("object", [value |-> Value], FALSE)}
Bare == {J!Answer("bare", [value |-> Value], FALSE)}
Nothing == {J!Answer("nullish", <<>>, FALSE)}
Malformed == {J!Answer("array", <<>>, FALSE), J!Answer("object", [jsonrpc |-> J!Version], FALSE)}

Resolving(kind) ==
    CASE kind = "web3"    -> Results \cup ErrorEnvelopes \cup Malformed \cup Nothing
      [] kind = "eip1193" -> Results \cup ErrorEnvelopes \cup Bare \cup Nothing
      [] OTHER            -> Results \cup ErrorEnvelopes \cup Nothing
Rejecting(kind) ==
    IF kind = "web3" THEN ErrorEnvelopes \cup Errors ELSE Errors \cup Objects

Ways(kind) ==
    CASE kind = "request" -> {"promise", "callback", "atOnce"}
      [] kind = "send"    -> {"callback", "atOnce"}
      [] OTHER            -> {"promise"}

\* Methods that refuse an answer of null, that cannot read it, and one that
\* takes it for an empty list.
Finished(name, end) ==
    IF end.at # "resolved" \/ end.value # J!NullDatum THEN end
    ELSE IF name \in {"getTransaction", "getTransactionReceipt"}
    THEN J!Rejected("TransactionNotFound")
    ELSE IF name \in {"getPendingTransactions", "getPastLogs", "signTransaction", "listAccounts",
                      "newAccount"}
    THEN J!Rejected("TypeError")
    ELSE IF name = "getAccounts" THEN J!Resolved(EmptyList)
    ELSE end

Answered(r, rejects, way) ==
    LET end == J!EndsFor(call.kind, r, rejects, way, specification) IN
    /\ call.at = "waiting"
    /\ call' = Joined([answer |-> r, rejects |-> rejects], Joined(Finished(call.name, end), call))
    /\ UNCHANGED <<defaultBlock, current, seed, specification, settings>>

SetDefaultBlock(b) ==
    /\ settings < MaxSettings
    /\ defaultBlock' = b
    /\ settings' = settings + 1
    /\ UNCHANGED <<current, seed, specification, call>>

SetCurrentProvider(p) ==
    /\ settings < MaxSettings
    /\ current' = p
    /\ settings' = settings + 1
    /\ UNCHANGED <<defaultBlock, seed, specification, call>>

ReqNext ==
    \/ /\ call = NoCall
       /\ \E name \in DOMAIN Methods : \E args \in ArgsOf(name) : Call(name, args)
    \/ /\ call.at = "waiting"
       /\ \E way \in Ways(call.kind) :
              \/ \E r \in Resolving(call.kind) : Answered(r, FALSE, way)
              \/ \E r \in Rejecting(call.kind) : Answered(r, TRUE, way)
    \/ \E b \in NumbersAndTags : SetDefaultBlock(b)
    \/ \E p \in Providers : SetCurrentProvider(p)

ReqSpec == ReqInit /\ [][ReqNext]_reqVars

---------------------------------------------------------------------------
(* Properties *)

Made == call # NoCall

\* Whatever method is called, with arguments of its types: the request is not
\* refused by the validation underneath, and is about the block the caller
\* named or, where none was named, the default block at the moment of the call
\* (web3_eth.ts, rpc_method_wrappers.ts and eth_rpc_methods.ts agree).
AsksForItsBlock ==
    Made =>
        /\ ~ IsThrown(call.request)
        /\ \A i \in DOMAIN call.args \cap {Methods[call.name].block} :
               LET block == IF call.args[i] = Omitted THEN call.default ELSE call.args[i]
                   about == BlockAskedFor(call.request)
               IN
               \* Except that a hex number may be taken for the bytes of a hash.
               about = BlockMeant(block) \/ (TakenForBytes(block) /\ about[1] = "hash")

\* A call resolves only with a result that the provider gave as one, and an
\* error the provider gives, thrown or returned, never passes for a result; a
\* revert that comes in an envelope or an Error is recognised by its message
\* unless the codes of the specification are used (web3_request_manager.ts
\* `_processJsonRpcResponse`).
AnsweredFaithfully ==
    Made /\ "answer" \in DOMAIN call =>
        LET r     == call.answer
            fails == call.rejects \/ "error" \in DOMAIN r.fields
        IN
        /\ call.at = "resolved" =>
               /\ ~ fails
               /\ call.value \in {J!Field(r, "result"), J!Field(r, "value"), EmptyList}
        /\ fails /\ r.revert /\ ~ specification =>
               call.at # "rejected" \/ call.class = "ContractExecutionError"

\* "If there is error in the response, will throw an error"
\* (web3_request_manager.ts:168-171).
ErrorsAreThrown ==
    (Made /\ "answer" \in DOMAIN call /\ "error" \in DOMAIN call.answer.fields) => call.at = "rejected"
==============================================================================
