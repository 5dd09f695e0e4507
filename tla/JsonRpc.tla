-------------------------------- MODULE JsonRpc --------------------------------
(***************************************************************************)
(* Answers of providers (web3-utils/src/json_rpc.ts) and what the request  *)
(* manager makes of them (web3-core/src/web3_request_manager.ts and        *)
(* utils.ts).                                                              *)
(*                                                                         *)
(* An answer is [shape, fields, revert]: a JSON-RPC object or another one, *)
(* an array of answers, an instance of Error, a bare value, or nothing.    *)
(* `revert` says that the message of its error holds that word.            *)
(***************************************************************************)
EXTENDS Integers, Sequences

Answer(shape, fields, revert) == [shape |-> shape, fields |-> fields, revert |-> revert]

NullDatum == 0  \* null or undefined; no other datum is 0
Version == 2
Ids == {1, 2}
Nullish(r) == r.shape = "nullish"
Field(r, f) == IF f \in DOMAIN r.fields THEN r.fields[f] ELSE NullDatum

ErrorInstance(class, revert) == Answer("Error", [class |-> class], revert)

---------------------------------------------------------------------------
(* json_rpc.ts *)

IsResponseWithResult(r) ==
    /\ r.shape = "object"
    /\ Field(r, "jsonrpc") = Version
    /\ "result" \in DOMAIN r.fields
    /\ Field(r, "error") = NullDatum
    /\ Field(r, "id") \in Ids

IsResponseWithError(r) ==
    /\ r.shape = "object"
    /\ Field(r, "jsonrpc") = Version
    /\ Field(r, "result") = NullDatum
    /\ "error" \in DOMAIN r.fields
    /\ Field(r, "id") \in Ids

\* Codes of rpc_errors.ts, and the range that servers may use.
RpcErrorCodes == {-32700, -32600, -32601, -32602, -32603, -32000, -32001, -32002, -32003,
                  -32004, -32005, -32006, 4001, 4100, 4200, 4900, 4901}
IsResponseRpcError(r) ==
    Field(r, "error") \in RpcErrorCodes \cup (-32099..-32000)

IsBatchResponse(r) ==
    /\ r.shape = "array"
    /\ r.fields # <<>>
    /\ \A i \in DOMAIN r.fields : IsResponseWithResult(r.fields[i]) \/ IsResponseWithError(r.fields[i])

\* toPayload(): the next number if a seed is set, a fresh UUID (0) otherwise.
NextId(seed) == IF seed = NullDatum THEN 0 ELSE seed + 1

---------------------------------------------------------------------------
(* Kinds of providers.  A provider is [web3, request, send, sendAsync];  *)
(* `request` is "none" or the name of the function's class.     *)

IsWeb3Provider(p) == p.web3
IsEIP1193Provider(p) == p.request = "AsyncFunction"
IsLegacyRequestProvider(p) == p.request = "Function"
IsLegacySendProvider(p) == p.send
IsLegacySendAsyncProvider(p) == p.sendAsync

\* The branch _sendRequest() takes.
Kind(p) ==
    IF IsWeb3Provider(p) THEN "web3"
    ELSE IF IsEIP1193Provider(p) THEN "eip1193"
    ELSE IF IsLegacyRequestProvider(p) THEN "request"
    ELSE IF IsLegacySendProvider(p) THEN "send"
    ELSE IF IsLegacySendAsyncProvider(p) THEN "sendAsync"
    ELSE "none"

---------------------------------------------------------------------------
(* _processJsonRpcResponse(): an answer, or the class of what is thrown    *)

Thrown(class) == [throws |-> class]
IsThrow(x) == "throws" \in DOMAIN x

\* _buildResponse()
Built(r, error) ==
    LET inner == IF r.shape = "nullish" THEN NullDatum ELSE Field(r, "value") IN
    Answer("object",
           IF error THEN [jsonrpc |-> Version, id |-> 1, error |-> inner]
           ELSE [jsonrpc |-> Version, id |-> 1, result |-> inner],
           r.revert)

\* What an answer with an error throws.  The code decides if the manager uses
\* the RPC specification, the message otherwise.
ErrorOf(r, specification) ==
    IF specification /\ IsResponseRpcError(r) THEN "RpcError"
    ELSE IF r.revert THEN "ContractExecutionError"
    ELSE "InvalidResponseError"

FaultProcess(batch, r, legacy, error, specification) ==
    IF Nullish(r) THEN Built(r, error)
    ELSE IF IsResponseWithResult(r) THEN r
    ELSE IF legacy THEN Built(r, FALSE)
    ELSE Thrown("ResponseError")
Process(batch, r, legacy, error, specification) ==
    IF Nullish(r) THEN Built(r, error)
    ELSE IF IsResponseWithError(r) THEN Thrown(ErrorOf(r, specification))
    ELSE IF IsResponseWithResult(r) THEN r
    ELSE IF r.shape = "Error"
    THEN Thrown(IF r.revert THEN "ContractExecutionError" ELSE Field(r, "class"))
    ELSE IF batch /\ ~ legacy /\ IsBatchResponse(r) THEN r
    ELSE IF batch /\ legacy THEN (IF error THEN Thrown("theAnswer") ELSE r)
    ELSE IF legacy THEN Built(r, error)
    ELSE Thrown("ResponseError")

---------------------------------------------------------------------------
(* _sendRequest() and send(): how the promise of the caller ends when the  *)
(* provider answers.  `way` is "promise", "callback", or "atOnce" for a   *)
(* callback that is called before request() returns.                       *)

Open == [at |-> "open"]
Resolved(value) == [at |-> "resolved", value |-> value]
Rejected(class) == [at |-> "rejected", class |-> class]

\* send(): only a result resolves.
Sent(r) == IF IsResponseWithResult(r) THEN Resolved(r.fields.result) ELSE Rejected("ResponseError")
Settle(x) == IF IsThrow(x) THEN Rejected(x.throws) ELSE Sent(x)

\* What is thrown in a callback, or in the last handler of a promise that
\* nobody waits for, settles nothing.
InCallback(x, way, rejects) ==
    IF IsThrow(x) THEN (IF way = "atOnce" THEN Rejected(x.throws) ELSE Open)
    ELSE IF rejects THEN Rejected("theAnswer")
    ELSE Sent(x)

\* then(...).catch(...)
Chained(batch, r, rejects, specification) ==
    LET first == Process(batch, r, TRUE, rejects, specification) IN
    IF ~ rejects /\ IsThrow(first)
    THEN Process(batch, ErrorInstance(first.throws, FALSE), TRUE, TRUE, specification)
    ELSE first

EndsFor(kind, r, rejects, way, specification) ==
    CASE kind = "web3" -> Settle(Process(FALSE, r, FALSE, FALSE, specification))
      [] kind \in {"eip1193", "sendAsync"} -> Settle(Chained(FALSE, r, rejects, specification))
      [] kind = "request" /\ way = "promise" ->
             InCallback(Chained(FALSE, r, rejects, specification), way, rejects)
      [] kind = "send" /\ Nullish(r) ->
             InCallback(Thrown("ResponseError"), way, FALSE)
      [] OTHER ->
             LET error == rejects /\ ~ Nullish(r) IN
             InCallback(Process(FALSE, r, TRUE, error, specification), way, error)
==============================================================================
