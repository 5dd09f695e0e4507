------------------------------- MODULE Signing -------------------------------
(***************************************************************************)
(* From a transaction as a program writes it to signed bytes               *)
(* (web3/src/accounts.ts, web3-eth/src/utils/transaction_builder.ts,       *)
(* prepare_transaction_for_signing.ts, web3-eth-accounts/src/account.ts).  *)
(*                                                                         *)
(* `entry` is how it comes in: "send" is sendTransaction from a wallet     *)
(* account, which prices the gas and then has the account sign; "sign" and *)
(* "priority" are accounts.signTransaction and signPriorityTransaction;    *)
(* "prepare" is prepareTransactionForSigning with fillGasPrice, its result *)
(* signed.  Every question to the node is a step, and the context may be   *)
(* reconfigured once while an answer is out.                               *)
(***************************************************************************)
EXTENDS TypedTransaction

CONSTANTS
    Requests,       \* what a program may ask: [entry, tx]
    Contexts,       \* the configurations of the context
    Signer,         \* the account that signs
    Sponsor,        \* the second key of a priority transaction
    NodeNonce, NodeChainId, NodeNetworkId, NodeGasPrice, NodeGas,  \* what the node answers
    BaseFees,       \* baseFeePerGas of its block, Null before London
    IntrinsicGas    \* the least gas of a transaction (getBaseFee)

(* What these values are: quantities are natural numbers of any size, and  *)
(* an absent value is none of them.                                        *)
Quantity == Nat \cup {Null}
KnownHardforks == {HardforksOrdered[i] : i \in DOMAIN HardforksOrdered}

IsTransaction(t) ==
    /\ t \in [type : Quantity, gasPrice : Quantity, maxFeePerGas : Quantity,
              maxPriorityFeePerGas : Quantity, accessList : Quantity, chainId : Quantity,
              networkId : Quantity, gas : Quantity, gasLimit : Quantity, nonce : Quantity,
              data : Quantity, input : Quantity, hardfork : KnownHardforks \cup {Null},
              chain : {t.chain}, common : {t.common}, from : {t.from}]
    /\ t.common # Null => t.common.chainId \in Nat /\ t.common.networkId \in Quantity

\* What a transaction's signature consists of (EcSign).
SignatureParts == {"r", "s"} \X {Signer, Sponsor} \X Seq(Nat \cup {Empty}) \X {0, 1}

ASSUME ValuesAssumption ==
    /\ {Null, Empty} \cap (Nat \cup KnownHardforks) = {}
    /\ Null \notin SignatureParts /\ Empty \notin SignatureParts
    /\ Signer # Null /\ Sponsor # Null

ASSUME NodeAssumption ==
    /\ {NodeNonce, NodeChainId, NodeNetworkId, NodeGasPrice, NodeGas,
        IntrinsicGas} \subseteq Nat
    /\ BaseFees \subseteq Quantity

ASSUME ProgramAssumption ==
    /\ \A asked \in Requests :
          /\ asked.entry \in {"send", "sign", "priority", "prepare"}
          /\ IsTransaction(asked.tx)
    /\ \A ctx \in Contexts :
          /\ ctx.defaultMaxPriorityFeePerGas \in Nat
          /\ ctx.defaultTransactionType \in Quantity
          /\ ctx.defaultNetworkId \in Quantity
          /\ ctx.defaultHardfork \in KnownHardforks
          /\ ctx.defaultChain # Null
          /\ ctx.defaultCommon # Null => /\ ctx.defaultCommon.chainId \in Nat
                                          /\ ctx.defaultCommon.networkId \in Quantity

VARIABLES
    request,  \* what was asked
    config,   \* the context as it is
    changed,  \* it has been reconfigured
    at,       \* the question that is out, or where the call stands
    tx,       \* the transaction as filled so far
    signed,   \* the serialized transaction, Null before it is signed
    outcome   \* "pending", "signed", or the error the call rejects with

context == <<request, config, changed>>
vars == <<context, at, tx, signed, outcome>>

Entry == request.entry

Init ==
    /\ request \in Requests
    /\ config \in Contexts
    /\ changed = FALSE
    /\ at = "called"
    /\ tx = request.tx
    /\ signed = Null
    /\ outcome = "pending"

Ask(question, filled) == at' = question /\ tx' = filled /\ UNCHANGED <<signed, outcome>>
Resolve(built, bytes) == at' = "ended" /\ tx' = built /\ signed' = bytes /\ outcome' = "signed"
Reject(error)         == at' = "ended" /\ outcome' = error /\ UNCHANGED <<tx, signed>>

---------------------------------------------------------------------------
(* prepareTransactionForSigning, once the transaction is built, and        *)
(* signTransaction or signPriorityTransaction                              *)

\* getEthereumjsTransactionOptions: the defaults have been filled in, so
\* that the transaction brings its chain and hardfork or its common.  The ids
\* are tested for truth: where one is 0 (or the name empty, left out here) no
\* Common is made, and the transaction class takes its default (_getCommon):
\* the chain of a typed transaction, mainnet for a legacy one.
ChainIdOf(t)   == IF t.common # Null THEN t.common.chainId ELSE t.chainId
NetworkIdOf(t) == IF t.common # Null THEN Or(t.common.networkId, t.networkId) ELSE t.networkId
HasZeroId(t)   == 0 \in {ChainIdOf(t), NetworkIdOf(t)}

Mainnet == 1
DefaultCommon(t) ==
    [chainId |-> IF Or(t.type, 0) = 0 THEN Mainnet ELSE t.chainId, hardfork |-> "merge"]

SigningCommon(t) ==
    IF HasZeroId(t) THEN DefaultCommon(t)
    ELSE [chainId  |-> ChainIdOf(t),
          hardfork |-> Or(CommonHardfork(t), Or(t.hardfork, config.defaultHardfork))]

\* getEthereumjsTxDataFromTransaction
TxData(t) ==
    [type |-> Or(t.type, 0), common |-> SigningCommon(t), chainId |-> t.chainId,
     nonce |-> t.nonce, gasPrice |-> t.gasPrice, gasLimit |-> t.gas,
     data |-> Or(t.data, t.input), accessList |-> t.accessList,
     maxPriorityFeePerGas |-> t.maxPriorityFeePerGas, maxFeePerGas |-> t.maxFeePerGas,
     v |-> Null, r |-> Null, s |-> Null, pV |-> Null, pR |-> Null, pS |-> Null]

PriorityKey == IF Entry = "priority" THEN Sponsor ELSE Null

\* signPriorityTransaction wants the second signature of every type.
LacksSignature(obj) == Entry = "priority" /\ obj.type # 64

\* The validation asks Common for the price of gas, which knows nothing of
\* the EIP 4895 of shanghai and throws (paramByEIP).  The constructor of a
\* contract creation has already asked for the size of its code, and thrown.
GasPriceThrows(obj) == GteHardfork(obj.common.hardfork, "shanghai")

SignObject(built, obj) ==
    IF SignRefuses(obj, PriorityKey) THEN Reject("PrivateKeyError")
    ELSE IF LacksSignature(obj) THEN Reject("TransactionSigningError")
    ELSE IF GasPriceThrows(obj) THEN Reject("EIP4895NotSupported")
    ELSE IF obj.gasLimit < IntrinsicGas THEN Reject("TransactionSigningError")
    ELSE \E recovery, pRecovery \in {0, 1} :
            Resolve(built, Serialize(Sign(obj, Signer, PriorityKey, recovery, pRecovery)))

Prepare(built) ==
    LET t   == Formatted(built)
        obj == TxData(t)
    IN IF ValidateTransactionForSigning(t) # "none" THEN Reject(ValidateTransactionForSigning(t))
       ELSE IF FactoryRefuses(obj, obj.common) THEN Reject("FactoryError")
       ELSE SignObject(t, obj)

---------------------------------------------------------------------------
(* defaultTransactionBuilder, in the order its questions are asked         *)

EstimateOrPrepare(t) ==
    IF t.gas = Null /\ t.gasLimit = Null THEN Ask("estimate", t) ELSE Prepare(t)

\* After the networkId: the type, then the price of the gas.
BuildType(t) ==
    IF TypeRefused(t) THEN Reject("InvalidPropertiesForTransactionTypeError")
    ELSE LET typed == FilledType(t, config) IN
         IF Entry # "prepare" THEN EstimateOrPrepare(typed)
         ELSE IF PricingRefused(typed, config) THEN Reject("UnsupportedTransactionTypeError")
         ELSE CASE PricingQuestion(typed, config) = "gasPrice" -> Ask("builderGasPrice", typed)
                [] PricingQuestion(typed, config) = "block"    -> Ask("builderBlock", typed)
                [] OTHER                                       -> EstimateOrPrepare(typed)

\* After the chainId.
BuildNetwork(t) ==
    LET filled == [t EXCEPT !.networkId = Or(t.networkId, config.defaultNetworkId)] IN
    IF filled.networkId = Null THEN Ask("networkId", filled) ELSE BuildType(filled)

\* After the nonce.
BuildChain(t) ==
    IF PayloadsDiffer(t) THEN Reject("TransactionDataAndInputError")
    ELSE LET filled == FilledChain(FilledInput(t), config) IN
         IF NeedsChainId(filled) THEN Ask("chainId", filled) ELSE BuildNetwork(filled)

Build(t) ==
    LET filled == FilledFrom(t, config) IN
    IF filled.nonce # Null THEN BuildChain(filled)
    ELSE IF filled.from = Null THEN Reject("UnableToPopulateNonceError")
    ELSE Ask("nonce", filled)

---------------------------------------------------------------------------
(* The steps *)

\* sendTransaction formats and prices first (populateGasPrice), and has the
\* node try the transaction (checkRevertBeforeSending).
CallSend ==
    /\ at = "called" /\ Entry = "send"
    /\ LET t == Formatted([tx EXCEPT !.from = Signer]) IN
       IF PayloadsDiffer(tx) THEN Reject("TransactionDataAndInputError")
       ELSE IF ~ NeedsGasPrice(t) THEN Ask("call", t)
       ELSE IF PricingRefused(t, config) THEN Reject("UnsupportedTransactionTypeError")
       ELSE CASE PricingQuestion(t, config) = "gasPrice" -> Ask("gasPrice", t)
              [] PricingQuestion(t, config) = "block"    -> Ask("block", t)
              [] OTHER                                   -> Ask("call", t)
    /\ UNCHANGED context

CallSign ==
    /\ at = "called" /\ Entry # "send"
    /\ Build(tx)
    /\ UNCHANGED context

AnswerGasPrice ==
    /\ CASE at = "gasPrice"        -> Ask("call", PricedLegacy(tx, NodeGasPrice))
         [] at = "builderGasPrice" -> EstimateOrPrepare(PricedLegacy(tx, NodeGasPrice))
         [] OTHER                  -> FALSE
    /\ UNCHANGED context

AnswerBlock ==
    /\ at \in {"block", "builderBlock"}
    /\ \E baseFee \in BaseFees :
          IF baseFee = Null THEN Reject("Eip1559NotSupportedError")
          ELSE IF at = "block" THEN Ask("call", PricedFeeMarket(tx, config, baseFee))
          ELSE EstimateOrPrepare(PricedFeeMarket(tx, config, baseFee))
    /\ UNCHANGED context

AnswerCall ==
    /\ at = "call"
    /\ Build(tx)
    /\ UNCHANGED context

AnswerNonce ==
    /\ at = "nonce"
    /\ BuildChain([tx EXCEPT !.nonce = NodeNonce])
    /\ UNCHANGED context

AnswerChainId ==
    /\ at = "chainId"
    /\ BuildNetwork([tx EXCEPT !.chainId = NodeChainId])
    /\ UNCHANGED context

AnswerNetworkId ==
    /\ at = "networkId"
    /\ BuildType([tx EXCEPT !.networkId = NodeNetworkId])
    /\ UNCHANGED context

AnswerEstimate ==
    /\ at = "estimate"
    /\ Prepare([tx EXCEPT !.gas = NodeGas])
    /\ UNCHANGED context

\* A question is answered with an error: the call rejects with it.
NodeFails ==
    /\ at \notin {"called", "ended"}
    /\ Reject("RpcError")
    /\ UNCHANGED context

\* The program changes the configuration while an answer is out.
Reconfigure ==
    /\ at \notin {"called", "ended"}
    /\ ~changed
    /\ changed' = TRUE
    /\ config' \in Contexts \ {config}
    /\ UNCHANGED <<request, at, tx, signed, outcome>>

Next ==
    \/ CallSend \/ CallSign
    \/ AnswerGasPrice \/ AnswerBlock \/ AnswerCall \/ AnswerNonce
    \/ AnswerChainId \/ AnswerNetworkId \/ AnswerEstimate
    \/ NodeFails \/ Reconfigure

Spec == Init /\ [][Next]_vars

---------------------------------------------------------------------------
(* Properties *)

Asked  == request.tx
Signed == FromSerializedData(signed)
IsFeeMarket(type) == type \in {2, 64}

(* Whoever reads the signed bytes back finds the account that signed       *)
(* them, for every type and either recovery bit                            *)
(* (recoverTransaction of what signTransaction returned).  A priority      *)
(* transaction leaves only with both signatures, each of them recovering   *)
(* its own key (getSenderAndPriorityPublicKey), and only where the program *)
(* gave the second key.                                                    *)
SendersRecovered ==
    outcome = "signed" =>
        /\ RecoverTransaction(signed) = Signer
        /\ signed.type = 64 =>
              /\ Entry = "priority"
              /\ IsSigned(Signed)
              /\ GetPriorityPublicKey(Signed) = Sponsor

(* The signer never authorises a higher price than the program allowed;    *)
(* where it named none, the price is the node's, or twice the base fee of  *)
(* its block above the priority fee.                                       *)
NeverOverpays ==
    outcome = "signed" =>
        LET cap == IF IsFeeMarket(Signed.type) THEN Signed.maxFeePerGas ELSE Signed.gasPrice IN
        /\ Asked.gasPrice # Null => cap = Asked.gasPrice
        /\ Asked.maxFeePerGas # Null => cap = Asked.maxFeePerGas
        /\ Asked.gasPrice = Null /\ Asked.maxFeePerGas = Null =>
               IF IsFeeMarket(Signed.type)
               THEN \E baseFee \in BaseFees \ {Null} : cap = Signed.maxPriorityFeePerGas + 2 * baseFee
               ELSE cap = NodeGasPrice

(* A signature is bound to the chain the program named, or else to the     *)
(* node's.  Only a legacy transaction may be bound elsewhere: to mainnet   *)
(* where its chain id or network id is 0, and to no chain where its        *)
(* hardfork is before EIP-155.                                             *)
BoundToItsChain ==
    outcome = "signed" =>
        LET chain == Or(Asked.chainId, NodeChainId) IN
        IF signed.type # 0  THEN Signed.chainId = chain
        ELSE IF HasZeroId(tx) THEN ChainIdOfV(Signed.v) = Mainnet
        ELSE ChainIdOfV(Signed.v) = IF GteHardfork(SigningCommon(tx).hardfork, "spuriousDragon")
                                    THEN chain ELSE Null

\* The program described its transaction: who sends it, one chain, a
\* hardfork that knows every type and whose gas Common can price, enough gas,
\* one payload, ...
Described(ctx) ==
    /\ Asked.nonce # Null \/ Or(Asked.from, ctx.defaultAccount) # Null \/ Entry = "send"
    /\ Asked.common = Null
    /\ Or(Asked.gasLimit, Or(Asked.gas, NodeGas)) >= IntrinsicGas
    /\ ~ PayloadsDiffer(Asked)
    /\ Or(Asked.hardfork, ctx.defaultHardfork) \in {"london", "merge"}

\* ... and the fees of its type, or left its type and fees to the library,
\* with a default type whose gas sendTransaction prices.
PricedByProgram ==
    \/ /\ Asked.type \in {Null, 0, 1}
       /\ Asked.gasPrice # Null
       /\ ~ FeeMarketFields(Asked)
       /\ Asked.type = 0 => Asked.accessList = Null
    \/ /\ Asked.type \in {Null, 2, 64}
       /\ Asked.gasPrice = Null
       /\ Asked.maxFeePerGas # Null /\ Asked.maxPriorityFeePerGas # Null
       /\ Asked.maxFeePerGas >= Asked.maxPriorityFeePerGas
PricedByLibrary ==
    /\ Entry \in {"send", "prepare"}
    /\ Asked.type \in {Null, 2}
    /\ Asked.gasPrice = Null /\ ~ FeeMarketFields(Asked)
    /\ Asked.type = Null => config.defaultTransactionType \in {0, 1, 2}

(* What the program gave is what is signed, through formatting, filling,   *)
(* validation, serialization and whatever the context becomes meanwhile,   *)
(* for the chain it meant; and a transaction that is described and priced  *)
(* is signed: nothing the library fills in makes its own validation or the *)
(* transaction class refuse it.                                            *)
SignsWhatWasAsked ==
    /\ BoundToItsChain
    /\ outcome = "signed" =>
          /\ Asked.type # Null => Signed.type = Asked.type
          /\ Asked.nonce # Null => Signed.nonce = Asked.nonce
          /\ Enc(Or(Asked.data, Asked.input)) = Signed.data
          /\ Asked.accessList # Null => Signed.accessList = Enc(Asked.accessList)
          /\ Signed.gasLimit = Or(Asked.gasLimit, Or(Asked.gas, NodeGas))
    /\ (/\ Described(config) /\ ~ changed
        /\ config.defaultCommon = Null
        /\ PricedByProgram \/ PricedByLibrary
        /\ Asked.type = 64 <=> Entry = "priority") =>
          outcome \in {"pending", "signed", "RpcError", "Eip1559NotSupportedError"}
=============================================================================
