------------------------------ MODULE MCSigning ------------------------------
EXTENDS Signing

NoTx == [type |-> Null, gasPrice |-> Null, maxFeePerGas |-> Null, maxPriorityFeePerGas |-> Null,
         accessList |-> Null, hardfork |-> Null, chain |-> Null, chainId |-> Null,
         networkId |-> Null, common |-> Null, gas |-> Null, gasLimit |-> Null, nonce |-> Null,
         from |-> "signer", data |-> Null, input |-> Null]

\* The default priority fee is 2 and the base fee 1: a maximum of 1 is below
\* the default priority fee, a maximum of 6 above.
FeeTxs == {[NoTx EXCEPT !.type = t, !.gasPrice = p, !.maxFeePerGas = m,
                        !.maxPriorityFeePerGas = q, !.accessList = a, !.hardfork = h] :
           t \in {Null, 0, 1, 2, 3, 64, 128}, p \in {Null, 3}, m \in {Null, 1, 6},
           q \in {Null, 2}, a \in {Null, 5}, h \in {Null, "homestead", "berlin"}}

\* An id of 0 makes the library forget the chain.
Common(network, hf, base) ==
    [chainId |-> 7, networkId |-> network, hardfork |-> hf, baseChain |-> base]
ChainTxs == {[fees EXCEPT !.hardfork = h, !.chain = c, !.chainId = i, !.networkId = n, !.common = k] :
             fees \in {[NoTx EXCEPT !.gasPrice = 3],
                       [NoTx EXCEPT !.maxFeePerGas = 6, !.maxPriorityFeePerGas = 2]},
             h \in {Null, "homestead", "merge", "shanghai"}, c \in {Null, "sepolia"},
             i \in {Null, 0, 5, 7}, n \in {Null, 0, 9},
             k \in {Null, Common(Null, Null, Null), Common(9, "merge", "mainnet"),
                    Common(0, "shanghai", "mainnet")}}

BodyTxs == {[NoTx EXCEPT !.gasPrice = 3, !.from = f, !.nonce = n, !.data = d, !.input = i,
                         !.gas = g, !.gasLimit = l] :
            f \in {Null, "signer"}, n \in {Null, 4}, d \in {Null, 7}, i \in {Null, 0, 7, 8},
            g \in {Null, 1, 9}, l \in {Null, 8, 9}}

MCRequests ==
    [entry : {"send", "sign", "prepare"}, tx : FeeTxs]
    \cup [entry : {"priority"}, tx : {t \in FeeTxs : t.type \in {Null, 64} /\ t.accessList = Null}]
    \cup [entry : {"sign"}, tx : ChainTxs \cup BodyTxs]
    \cup [entry : {"send"}, tx : {t \in BodyTxs : t.gas = Null}]

Context(type, network, hf, common, account) ==
    [defaultTransactionType |-> type, defaultNetworkId |-> network, defaultHardfork |-> hf,
     defaultChain |-> "mainnet", defaultCommon |-> common, defaultAccount |-> account,
     defaultMaxPriorityFeePerGas |-> 2]

MCContexts == {Context(2, Null, "london", Null, Null), Context(64, 0, "merge", Null, Null),
               Context(0, 9, "berlin", Null, "signer"),
               Context(2, 9, "london", Common(9, Null, Null), Null)}
MCBaseFees == {Null, 1, 2}
==============================================================================
