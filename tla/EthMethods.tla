------------------------------ MODULE EthMethods ------------------------------
(***************************************************************************)
(* How a call becomes a request.  A method of web3.eth (web3_eth.ts) fills *)
(* in the default block; a wrapper (rpc_method_wrappers.ts) puts every     *)
(* argument in the form of the JSON-RPC interface and chooses a method by  *)
(* hash or by number; a function of web3-rpc-methods validates what comes  *)
(* out.  The three layers are three tables; the personal and the net       *)
(* methods have two and one of them.                                       *)
(*                                                                         *)
(* An argument is [type, digits, value]: a number, a hex string with its   *)
(* number of digits, the bytes of a Uint8Array, a tag, or something of     *)
(* which only the type matters.  A value is a number: the number itself,   *)
(* or which of the hashes, addresses, tags or byte strings it is.          *)
(***************************************************************************)
EXTENDS Naturals, Sequences, FiniteSetsExt

CONSTANT Omitted  \* an argument that is not given

Arg(type, digits, value) == [type |-> type, digits |-> digits, value |-> value]
HashDigits == 64

HexDigits(n) == CHOOSE d \in 1..8 : n < 16 ^ d /\ (d > 1 => n >= 16 ^ (d - 1))
\* The value of a long hex string is no number here: it keeps its digits.
Hex(value, digits) == Arg("hex", IF digits < 40 THEN HexDigits(value) ELSE digits, value)

\* Two tables as one, or a record with the fields of another.
Joined(f, g) ==
    [x \in DOMAIN f \cup DOMAIN g |-> IF x \in DOMAIN f THEN f[x] ELSE g[x]]

---------------------------------------------------------------------------
(* Types: isBytes, isHexStrict, isBlockTag, ... and the kinds of the       *)
(* validator that the tables name.                                         *)

FaultIsBytes(v) == v.type = "bytes" \/ v.type = "hex"
IsBytes(v) == v.type = "bytes" \/ (v.type = "hex" /\ v.digits % 2 = 0)

Valid(kind, v) ==
    CASE kind = "hex"              -> v.type = "hex"
      [] kind = "address"          -> v.type = "hex" /\ v.digits = 40
      [] kind = "bytes32"          -> IsBytes(v) /\ v.digits = HashDigits
      [] kind = "bytes8"           -> IsBytes(v) /\ v.digits = 16
      [] kind = "blockNumberOrTag" -> v.type \in {"number", "hex", "tag"}
      [] kind = "uint"             -> v.type \in {"number", "hex"}
      [] kind = "string"           -> v.type \in {"text", "hex", "tag"}
      [] kind = "any"              -> TRUE
      [] OTHER                     -> v.type = kind

\* format(): a value that cannot be converted is left as it is.
InFormat(form, v) ==
    CASE form = "uint" /\ v.type \in {"number", "hex"} -> Hex(v.value, v.digits)
      [] form = "block" /\ v.type # "tag"              -> Hex(v.value, v.digits)
      [] form = "bytes32" /\ v.type = "bytes"          -> Arg("hex", HashDigits, v.value)
      [] form = "bytes32" /\ v.type = "hex"            ->
             Arg("hex", IF v.digits < HashDigits THEN HashDigits ELSE v.digits, v.value)
      [] form = "bytes" /\ IsBytes(v)                  -> Arg("hex", v.digits, v.value)
      [] form = "utf8ToHex" /\ v.type # "hex"        -> Arg("hex", 2, v.value)
      [] OTHER                                         -> v

---------------------------------------------------------------------------
(* web3-rpc-methods: the name on the wire and the kinds validated          *)

R(method, kinds) == [method |-> method, kinds |-> kinds]

rpcState == [
    getProtocolVersion |-> R("eth_protocolVersion", <<>>),
    getSyncing         |-> R("eth_syncing", <<>>),
    getCoinbase        |-> R("eth_coinbase", <<>>),
    getMining          |-> R("eth_mining", <<>>),
    getHashRate        |-> R("eth_hashrate", <<>>),
    getGasPrice        |-> R("eth_gasPrice", <<>>),
    getAccounts        |-> R("eth_accounts", <<>>),
    getBlockNumber     |-> R("eth_blockNumber", <<>>),
    getBalance         |-> R("eth_getBalance", <<"address", "blockNumberOrTag">>),
    getStorageAt       |-> R("eth_getStorageAt", <<"address", "hex", "blockNumberOrTag">>),
    getTransactionCount |-> R("eth_getTransactionCount", <<"address", "blockNumberOrTag">>)]

rpcCounts == [
    getBlockTransactionCountByHash   |-> R("eth_getBlockTransactionCountByHash", <<"bytes32">>),
    getBlockTransactionCountByNumber |->
        R("eth_getBlockTransactionCountByNumber", <<"blockNumberOrTag">>),
    getUncleCountByBlockHash         |-> R("eth_getUncleCountByBlockHash", <<"bytes32">>),
    getUncleCountByBlockNumber       |-> R("eth_getUncleCountByBlockNumber", <<"blockNumberOrTag">>),
    getCode            |-> R("eth_getCode", <<"address", "blockNumberOrTag">>),
    sign               |-> R("eth_sign", <<"address", "hex">>),
    signTransaction    |-> R("eth_signTransaction", <<"any">>),
    sendTransaction    |-> R("eth_sendTransaction", <<"any">>),
    sendRawTransaction |-> R("eth_sendRawTransaction", <<"hex">>),
    call               |-> R("eth_call", <<"any", "blockNumberOrTag">>),
    estimateGas        |-> R("eth_estimateGas", <<"any", "blockNumberOrTag">>)]

rpcBlocks == [
    getBlockByHash       |-> R("eth_getBlockByHash", <<"bytes32", "bool">>),
    getBlockByNumber     |-> R("eth_getBlockByNumber", <<"blockNumberOrTag", "bool">>),
    getTransactionByHash |-> R("eth_getTransactionByHash", <<"bytes32">>),
    getTransactionByBlockHashAndIndex   |->
        R("eth_getTransactionByBlockHashAndIndex", <<"bytes32", "hex">>),
    getTransactionByBlockNumberAndIndex |->
        R("eth_getTransactionByBlockNumberAndIndex", <<"blockNumberOrTag", "hex">>),
    getTransactionReceipt          |-> R("eth_getTransactionReceipt", <<"bytes32">>),
    getUncleByBlockHashAndIndex    |-> R("eth_getUncleByBlockHashAndIndex", <<"bytes32", "hex">>),
    getUncleByBlockNumberAndIndex  |->
        R("eth_getUncleByBlockNumberAndIndex", <<"blockNumberOrTag", "hex">>)]

rpcFilters == [
    getCompilers     |-> R("eth_getCompilers", <<>>),
    compileSolidity  |-> R("eth_compileSolidity", <<"string">>),
    compileLLL       |-> R("eth_compileLLL", <<"string">>),
    compileSerpent   |-> R("eth_compileSerpent", <<"string">>),
    newFilter        |-> R("eth_newFilter", <<"filter">>),
    newBlockFilter   |-> R("eth_newBlockFilter", <<>>),
    newPendingTransactionFilter |-> R("eth_newPendingTransactionFilter", <<>>),
    uninstallFilter  |-> R("eth_uninstallFilter", <<"hex">>),
    getFilterChanges |-> R("eth_getFilterChanges", <<"hex">>),
    getFilterLogs    |-> R("eth_getFilterLogs", <<"hex">>),
    getLogs          |-> R("eth_getLogs", <<"filter">>),
    getWork          |-> R("eth_getWork", <<>>),
    submitWork       |-> R("eth_submitWork", <<"bytes8", "bytes32", "bytes32">>),
    submitHashrate   |-> R("eth_submitHashrate", <<"bytes32", "bytes32">>)]

\* Typed data goes to eth_signTypedData_v4 unless the legacy method is wanted.
rpcOthers == [
    getFeeHistory          |-> R("eth_feeHistory", <<"hex", "blockNumberOrTag", "numbers">>),
    getPendingTransactions |-> R("eth_pendingTransactions", <<>>),
    requestAccounts        |-> R("eth_requestAccounts", <<>>),
    getChainId             |-> R("eth_chainId", <<>>),
    getProof               |-> R("eth_getProof", <<"address", "hashes", "blockNumberOrTag">>),
    getNodeInfo            |-> R("web3_clientVersion", <<>>),
    createAccessList       |-> R("eth_createAccessList", <<"any", "blockNumberOrTag">>),
    signTypedData          |-> R("eth_signTypedData_v4", <<"address", "any">>)]

rpcNet == [
    getId        |-> R("net_version", <<>>),
    getPeerCount |-> R("net_peerCount", <<>>),
    isListening  |-> R("net_listening", <<>>)]

\* The personal methods: none is validated here, the wrappers do it.
rpcPersonal == [
    listAccounts    |-> R("personal_listAccounts", <<>>),
    newAccount      |-> R("personal_newAccount", <<"any">>),
    unlockAccount   |-> R("personal_unlockAccount", <<"any", "any", "any">>),
    lockAccount     |-> R("personal_lockAccount", <<"any">>),
    importRawKey    |-> R("personal_importRawKey", <<"any", "any">>),
    personalSendTransaction |-> R("personal_sendTransaction", <<"any", "any">>),
    personalSignTransaction |-> R("personal_signTransaction", <<"any", "any">>),
    personalSign    |-> R("personal_sign", <<"any", "any", "any">>),
    ecRecover       |-> R("personal_ecRecover", <<"any", "any">>)]

RpcMethods ==
    Joined(rpcState, Joined(rpcCounts, Joined(rpcBlocks, Joined(rpcFilters,
    Joined(rpcOthers, Joined(rpcNet, rpcPersonal))))))

---------------------------------------------------------------------------
(* Wrappers: what they call (two functions: the first if the block is      *)
(* given by its hash), the kinds they validate, how they format arguments  *)
(* and the schema of the answer.                                           *)

W(calls, forms, schema) == [calls |-> calls, kinds |-> [i \in DOMAIN forms |-> "any"],
                            forms |-> forms, schema |-> schema]

wrapState == [
    getHashRate    |-> W(<<"getHashRate">>, <<>>, "uint"),
    getGasPrice    |-> W(<<"getGasPrice">>, <<>>, "uint"),
    getBlockNumber |-> W(<<"getBlockNumber">>, <<>>, "uint"),
    getBalance     |-> W(<<"getBalance">>, <<"asIs", "block">>, "uint"),
    getStorageAt   |-> W(<<"getStorageAt">>, <<"asIs", "uint", "block">>, "bytes"),
    getCode        |-> W(<<"getCode">>, <<"asIs", "block">>, "bytes")]

wrapBlocks == [
    getBlock |-> W(<<"getBlockByHash", "getBlockByNumber">>, <<"blockOrHash", "asIs">>, "block"),
    getBlockTransactionCount |->
        W(<<"getBlockTransactionCountByHash", "getBlockTransactionCountByNumber">>,
          <<"blockOrHash">>, "uint"),
    getBlockUncleCount |-> W(<<"getUncleCountByBlockHash", "getUncleCountByBlockNumber">>,
                             <<"blockOrHash">>, "uint"),
    getUncle |-> W(<<"getUncleByBlockHashAndIndex", "getUncleByBlockNumberAndIndex">>,
                   <<"blockOrHash", "uint">>, "block")]

wrapTransactions == [
    getTransaction         |-> W(<<"getTransactionByHash">>, <<"bytes32">>, "transaction"),
    getPendingTransactions |-> W(<<"getPendingTransactions">>, <<>>, "transactions"),
    getTransactionFromBlock |->
        W(<<"getTransactionByBlockHashAndIndex", "getTransactionByBlockNumberAndIndex">>,
          <<"blockOrHash", "uint">>, "transaction"),
    getTransactionReceipt  |-> W(<<"getTransactionReceipt">>, <<"bytes32">>, "receipt"),
    getTransactionCount    |-> W(<<"getTransactionCount">>, <<"asIs", "block">>, "uint")]

\* sign() turns its arguments round and asks the node for accounts that are
\* not in the wallet.
wrapSigning == [
    sign            |-> W(<<"sign">>, <<"asIs", "bytes">>, "bytes"),
    signTransaction |-> W(<<"signTransaction">>, <<"transaction">>, "signedTransaction"),
    call            |-> W(<<"call">>, <<"transaction", "block">>, "bytes"),
    estimateGas     |-> W(<<"estimateGas">>, <<"transaction", "block">>, "uint")]

wrapOthers == [
    getLogs          |-> W(<<"getLogs">>, <<"filter">>, "logs"),
    getChainId       |-> W(<<"getChainId">>, <<>>, "uint"),
    getProof         |-> W(<<"getProof">>, <<"asIs", "eachBytes", "block">>, "account"),
    getFeeHistory    |-> W(<<"getFeeHistory">>, <<"uint", "block", "asIs">>, "feeHistory"),
    createAccessList |-> W(<<"createAccessList">>, <<"transaction", "block">>, "accessList"),
    signTypedData    |-> W(<<"signTypedData">>, <<"asIs", "asIs">>, "bytes")]

wrapNet == [
    getId        |-> W(<<"getId">>, <<>>, "uint"),
    getPeerCount |-> W(<<"getPeerCount">>, <<>>, "uint"),
    isListening  |-> W(<<"isListening">>, <<>>, "none")]

P(call, kinds, forms, schema) ==
    [calls |-> <<call>>, kinds |-> kinds, forms |-> forms, schema |-> schema]

wrapPersonal == [
    listAccounts  |-> P("listAccounts", <<>>, <<>>, "addresses"),
    newAccount    |-> P("newAccount", <<"string">>, <<"asIs">>, "address"),
    unlockAccount |-> P("unlockAccount", <<"address", "string", "uint">>,
                        <<"asIs", "asIs", "asIs">>, "none"),
    lockAccount   |-> P("lockAccount", <<"address">>, <<"asIs">>, "none"),
    importRawKey  |-> P("importRawKey", <<"string", "string">>, <<"asIs", "asIs">>, "none"),
    personalSendTransaction |->
        P("personalSendTransaction", <<"any", "any">>, <<"transaction", "asIs">>, "none"),
    personalSignTransaction |->
        P("personalSignTransaction", <<"any", "any">>, <<"transaction", "asIs">>, "none"),
    personalSign  |-> P("personalSign", <<"string", "address", "string">>,
                        <<"utf8ToHex", "asIs", "asIs">>, "none"),
    ecRecover     |-> P("ecRecover", <<"string", "string">>, <<"utf8ToHex", "asIs">>, "none")]

Wrappers ==
    Joined(wrapState, Joined(wrapBlocks, Joined(wrapTransactions, Joined(wrapSigning,
    Joined(wrapOthers, Joined(wrapNet, wrapPersonal))))))

---------------------------------------------------------------------------
(* web3.eth: what a method calls, and the argument that is the default     *)
(* block when it is omitted (0: none of them).                             *)

Wraps(wrapper, block) == [wrapper |-> wrapper, block |-> block]
\* A method that calls web3-rpc-methods itself.
Direct(rpc) == [rpc |-> rpc, block |-> 0]

ethNode == [
    getProtocolVersion |-> Direct("getProtocolVersion"),
    isSyncing          |-> Direct("getSyncing"),
    getCoinbase        |-> Direct("getCoinbase"),
    isMining           |-> Direct("getMining"),
    getHashrate        |-> Wraps("getHashRate", 0),
    getHashRate        |-> Wraps("getHashRate", 0),
    getGasPrice        |-> Wraps("getGasPrice", 0),
    getAccounts        |-> Direct("getAccounts"),
    getBlockNumber     |-> Wraps("getBlockNumber", 0)]

ethState == [
    getBalance   |-> Wraps("getBalance", 2),
    getStorageAt |-> Wraps("getStorageAt", 3),
    getCode      |-> Wraps("getCode", 2)]

ethBlocks == [
    getBlock                 |-> Wraps("getBlock", 1),
    getBlockTransactionCount |-> Wraps("getBlockTransactionCount", 1),
    getBlockUncleCount       |-> Wraps("getBlockUncleCount", 1)]

ethUncles == [getUncle |-> Wraps("getUncle", 1)]

\* These two refuse an answer of null.
ethTransactions == [
    getTransaction        |-> Wraps("getTransaction", 0),
    getTransactionReceipt |-> Wraps("getTransactionReceipt", 0)]

ethFromBlock == [
    getPendingTransactions  |-> Wraps("getPendingTransactions", 0),
    getTransactionFromBlock |-> Wraps("getTransactionFromBlock", 1)]

ethCount == [getTransactionCount |-> Wraps("getTransactionCount", 2)]

ethSigning == [
    sign            |-> Wraps("sign", 0),
    signTransaction |-> Wraps("signTransaction", 0),
    call            |-> Wraps("call", 2),
    estimateGas     |-> Wraps("estimateGas", 2)]

ethWork == [
    getPastLogs     |-> Wraps("getLogs", 0),
    getWork         |-> Direct("getWork"),
    submitWork      |-> Direct("submitWork"),
    requestAccounts |-> Direct("requestAccounts")]

ethChain == [
    getChainId  |-> Wraps("getChainId", 0),
    getNodeInfo |-> Direct("getNodeInfo")]

ethProof == [getProof |-> Wraps("getProof", 3)]

ethFees == [getFeeHistory |-> Wraps("getFeeHistory", 2)]

ethAccess == [
    createAccessList |-> Wraps("createAccessList", 2),
    signTypedData    |-> Wraps("signTypedData", 0)]

netMethods == [
    getId        |-> Wraps("getId", 0),
    getPeerCount |-> Wraps("getPeerCount", 0),
    isListening  |-> Wraps("isListening", 0)]

personalMethods == [m \in DOMAIN wrapPersonal |-> Wraps(m, 0)]

Methods ==
    Joined(ethNode, Joined(ethState, Joined(ethBlocks, Joined(ethUncles, Joined(ethTransactions,
    Joined(ethFromBlock, Joined(ethCount, Joined(ethSigning, Joined(ethWork, Joined(ethChain,
    Joined(ethProof, Joined(ethFees, Joined(ethAccess,
    Joined(netMethods, personalMethods))))))))))))))

Throwing(class) == [throws |-> class]
IsThrown(x) == "throws" \in DOMAIN x

AllValid(kinds, args) == \A i \in DOMAIN kinds : Valid(kinds[i], args[i])

\* web3-rpc-methods
Rpc(name, args) ==
    IF AllValid(RpcMethods[name].kinds, args)
    THEN [method |-> RpcMethods[name].method, params |-> args]
    ELSE Throwing("Web3ValidatorError")

Routed(form, v) ==
    IF form # "blockOrHash" THEN InFormat(form, v)
    ELSE IF IsBytes(v) THEN InFormat("bytes32", v)
    ELSE InFormat("block", v)

\* The order of the arguments on the wire: sign() alone changes it.
Wire(name, args) == IF name = "sign" THEN <<args[2], args[1]>> ELSE args

Wrapped(name, args) ==
    LET w     == Wrappers[name]
        wired == Wire(name, args)
        byNumber == Len(w.calls) = 2 /\ ~ IsBytes(wired[1])
    IN
    IF ~ AllValid(w.kinds, args) THEN Throwing("Web3ValidatorError")
    ELSE Rpc(w.calls[IF byNumber THEN 2 ELSE 1],
             [i \in DOMAIN wired |-> Routed(w.forms[i], wired[i])])

\* The arguments with the default block of the moment of the call.
Filled(name, args, defaultBlock) ==
    [i \in DOMAIN args |-> IF args[i] = Omitted /\ i = Methods[name].block
                           THEN defaultBlock ELSE args[i]]

RequestOf(name, args, defaultBlock) ==
    LET filled == Filled(name, args, defaultBlock) IN
    IF "rpc" \in DOMAIN Methods[name] THEN Rpc(Methods[name].rpc, filled)
    ELSE Wrapped(Methods[name].wrapper, filled)

---------------------------------------------------------------------------
(* What a caller means *)

\* A hex string of 64 digits is a hash, any other hex string a number.
BlockMeant(v) ==
    IF v.type = "tag" THEN <<"tag", v.value>>
    ELSE IF v.type = "bytes" \/ v.digits = HashDigits THEN <<"hash", v.value>>
    ELSE <<"number", v.value>>

\* The parameter of a request that names its block, by the interface of nodes;
\* in some it is a hash, in the others a number or a tag.
BlockHashIn == [
    eth_getBlockByHash                      |-> 1,
    eth_getBlockTransactionCountByHash      |-> 1,
    eth_getUncleCountByBlockHash            |-> 1,
    eth_getUncleByBlockHashAndIndex         |-> 1,
    eth_getTransactionByBlockHashAndIndex   |-> 1]
BlockNumberIn == [
    eth_getBlockByNumber                    |-> 1,
    eth_getBlockTransactionCountByNumber    |-> 1,
    eth_getUncleCountByBlockNumber          |-> 1,
    eth_getUncleByBlockNumberAndIndex       |-> 1,
    eth_getTransactionByBlockNumberAndIndex |-> 1,
    eth_getBalance          |-> 2,
    eth_getCode             |-> 2,
    eth_getTransactionCount |-> 2,
    eth_getStorageAt        |-> 3,
    eth_call                |-> 2,
    eth_estimateGas         |-> 2,
    eth_createAccessList    |-> 2,
    eth_getProof            |-> 3,
    eth_feeHistory          |-> 2]

BlockAskedFor(request) ==
    IF request.method \in DOMAIN BlockHashIn
    THEN <<"hash", request.params[BlockHashIn[request.method]].value>>
    ELSE LET p == request.params[BlockNumberIn[request.method]] IN
         IF p.type = "tag" THEN <<"tag", p.value>> ELSE <<"number", p.value>>

\* A hex number of an even number of digits is taken for bytes, where a block
\* may be named by its hash.
TakenForBytes(v) == v.type = "hex" /\ v.digits # HashDigits /\ v.digits % 2 = 0
==============================================================================
