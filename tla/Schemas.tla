-------------------------------- MODULE Schemas --------------------------------
(***************************************************************************)
(* The schemas of answers (web3-eth/src/schemas.ts).  A schema has one of  *)
(* a format, the properties of an object, the items of an array or a       *)
(* choice of schemas; one without a format and none of these is Plain.     *)
(***************************************************************************)
EXTENDS Sequences, TLC

Plain == [type |-> "plain"]
F(format) == [format |-> format]
Obj(properties) == [properties |-> properties]
Arr(items) == [items |-> items]
Choice(schemas) == [oneOf |-> schemas]

\* [key |-> schema] for keys that share a schema.
Each(keys, schema) == [k \in keys |-> schema]

accessListItemSchema == Obj([address |-> F("address"), storageKeys |-> Arr(F("bytes32"))])
accessListSchema == Arr(accessListItemSchema)
accessListResultSchema == Obj([accessList |-> accessListSchema, gasUsed |-> Plain])

chainSchema == Plain
hardforkSchema == Plain
customChainSchema == Obj([name |-> F("string"), networkId |-> F("uint"), chainId |-> F("uint")])

addressOrNull == Choice(<<F("address"), Plain>>)

transactionSchema ==
    Obj(Each({"value", "gas", "gasPrice", "effectiveGasPrice", "type", "maxFeePerGas",
              "maxPriorityFeePerGas", "nonce", "chainId", "networkId", "gasLimit", "v"}, F("uint"))
        @@ Each({"data", "input"}, F("bytes"))
        @@ Each({"r", "s"}, F("bytes32"))
        @@ [from |-> F("address"), to |-> addressOrNull, accessList |-> accessListSchema,
            chain |-> chainSchema, hardfork |-> hardforkSchema,
            common |-> Obj([customChain |-> customChainSchema, baseChain |-> chainSchema,
                            hardfork |-> hardforkSchema])])

transactionInfoSchema ==
    Obj(Each({"blockHash", "hash"}, F("bytes32"))
        @@ Each({"blockNumber", "transactionIndex"}, F("uint"))
        @@ transactionSchema.properties)

blockSchema ==
    Obj(Each({"parentHash", "sha3Uncles", "stateRoot", "transactionsRoot", "receiptsRoot",
              "mixHash", "hash"}, F("bytes32"))
        @@ Each({"miner", "extraData"}, F("bytes"))
        @@ Each({"difficulty", "number", "gasLimit", "gasUsed", "timestamp", "nonce",
                 "totalDifficulty", "baseFeePerGas", "size"}, F("uint"))
        @@ [logsBloom |-> F("bytes256"),
            transactions |-> Choice(<<Arr(transactionInfoSchema), Arr(F("bytes32"))>>),
            uncles |-> Arr(F("bytes32"))])

withdrawalsSchema ==
    Obj(Each({"index", "validatorIndex", "amount"}, F("uint")) @@ [address |-> F("address")])

blockHeaderSchema ==
    Obj(Each({"author", "hash", "parentHash", "receiptsRoot", "stateRoot", "transactionsRoot",
              "withdrawalsRoot", "sha3Uncles", "mixHash"}, F("bytes32"))
        @@ Each({"miner", "extraData"}, F("bytes"))
        @@ Each({"difficulty", "totalDifficulty", "number", "gasLimit", "gasUsed", "timestamp",
                 "nonce", "size", "baseFeePerGas", "excessDataGas"}, F("uint"))
        @@ Each({"transactions", "uncles"}, Arr(F("bytes32")))
        @@ [logsBloom |-> F("bytes256"), withdrawals |-> Arr(withdrawalsSchema)])

logSchema ==
    Obj(Each({"logIndex", "transactionIndex", "blockNumber"}, F("uint"))
        @@ Each({"transactionHash", "blockHash"}, F("bytes32"))
        @@ [removed |-> F("bool"), address |-> F("address"), data |-> F("bytes"),
            topics |-> Arr(F("bytes32"))])

syncSchema ==
    Obj(Each({"startingBlock", "currentBlock", "highestBlock", "knownStates", "pulledStates"},
             F("string")))

transactionReceiptSchema ==
    Obj(Each({"transactionHash", "blockHash"}, F("bytes32"))
        @@ Each({"transactionIndex", "blockNumber", "cumulativeGasUsed", "gasUsed",
                 "effectiveGasPrice", "status", "type"}, F("uint"))
        @@ Each({"from", "to", "contractAddress"}, F("address"))
        @@ Each({"logsBloom", "root"}, F("bytes"))
        @@ [logs |-> Arr(logSchema)])

SignatureObjectSchema ==
    Obj(Each({"r", "s"}, F("bytes32")) @@ Each({"messageHash", "v", "message", "signature"}, F("bytes")))

feeHistorySchema ==
    Obj([oldestBlock |-> F("uint"), baseFeePerGas |-> Arr(F("uint")),
         reward |-> Arr(Arr(F("uint"))), gasUsedRatio |-> Arr(Plain)])

storageProofSchema ==
    Obj([key |-> F("bytes32"), value |-> F("uint"), proof |-> Arr(F("bytes32"))])

accountSchema ==
    Obj(Each({"balance", "nonce"}, F("uint")) @@ Each({"codeHash", "storageHash"}, F("bytes32"))
        @@ [accountProof |-> Arr(F("bytes32")), storageProof |-> Arr(storageProofSchema)])
==============================================================================
