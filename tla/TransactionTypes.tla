--------------------------- MODULE TransactionTypes ---------------------------
(***************************************************************************)
(* What web3-eth decides about a transaction before it is signed: its type *)
(* (utils/detect_transaction_type.ts), what its gas costs                  *)
(* (utils/get_transaction_gas_pricing.ts), the defaults it is filled with  *)
(* (utils/transaction_builder.ts) and whether it may be signed at all      *)
(* (validation.ts).                                                        *)
(*                                                                         *)
(* A transaction is a record whose absent fields are Null.  Quantities are *)
(* small numbers; `to` and `value` take part in no decision and are left   *)
(* out.  Data and access lists are numbers, 0 for the empty ones.          *)
(* `common` is [chainId, networkId, hardfork, baseChain].                  *)
(***************************************************************************)
EXTENDS Integers, Sequences, FiniteSetsExt

CONSTANT Null  \* an absent value: undefined or null

\* The hardforks at which a decision changes, oldest first: no transaction
\* can be signed since shanghai (Signing).
HardforksOrdered == <<"homestead", "spuriousDragon", "berlin", "london", "merge",
                      "shanghai">>
IndexOf(hf) == CHOOSE i \in DOMAIN HardforksOrdered : HardforksOrdered[i] = hf
GteHardfork(hf, other) == IndexOf(hf) >= IndexOf(other)

Or(value, other) == IF value # Null THEN value ELSE other  \* value ?? other
CommonHardfork(tx) == IF tx.common = Null THEN Null ELSE tx.common.hardfork

---------------------------------------------------------------------------
(* The type *)

FitsType(tx, type) ==
    /\ type = 0        => tx.accessList = Null
    /\ type \in {0, 1} => tx.maxFeePerGas = Null /\ tx.maxPriorityFeePerGas = Null
    /\ type = 2        => tx.gasPrice = Null

FeeMarketFields(tx) == tx.maxFeePerGas # Null \/ tx.maxPriorityFeePerGas # Null

\* The type the hardfork implies, Null where it does not matter.
HardforkType(tx) ==
    LET hf == Or(tx.hardfork, CommonHardfork(tx)) IN
    IF hf = Null THEN Null
    ELSE IF GteHardfork(hf, "london") THEN IF tx.gasPrice # Null THEN 0 ELSE 2
    ELSE IF hf = "berlin" THEN 0
    ELSE Null

DetectTransactionType(tx) ==
    IF tx.type # Null THEN tx.type
    ELSE IF FeeMarketFields(tx) THEN 2
    ELSE IF tx.accessList # Null THEN 1
    ELSE IF HardforkType(tx) # Null THEN HardforkType(tx)
    ELSE IF tx.gasPrice # Null THEN 0
    ELSE Null

\* The parser throws: the fields contradict the type.  A type taken from
\* the hardfork is not compared with them.
TypeRefused(tx) ==
    /\ tx.type # Null \/ FeeMarketFields(tx)
    /\ ~ FitsType(tx, DetectTransactionType(tx))

GetTransactionType(tx, ctx) == Or(DetectTransactionType(tx), ctx.defaultTransactionType)

---------------------------------------------------------------------------
(* The price of its gas *)

\* What getTransactionGasPricing asks the node.
PricingQuestion(tx, ctx) ==
    LET type == GetTransactionType(tx, ctx) IN
    IF type = Null THEN "nothing"
    ELSE IF type \in {0, 1} /\ tx.gasPrice = Null THEN "gasPrice"
    ELSE IF type = 2 THEN "block"
    ELSE "nothing"

PricingRefused(tx, ctx) ==
    \/ TypeRefused(tx)
    \/ /\ GetTransactionType(tx, ctx) # Null
       /\ GetTransactionType(tx, ctx) > 127

PricedLegacy(tx, gasPrice) ==
    [tx EXCEPT !.gasPrice = gasPrice, !.maxFeePerGas = Null, !.maxPriorityFeePerGas = Null]

\* The maximum the program set is recomputed.
FaultPricedFeeMarket(tx, ctx, baseFee) ==
    LET priority == Or(tx.maxPriorityFeePerGas, ctx.defaultMaxPriorityFeePerGas) IN
    [tx EXCEPT !.gasPrice = Null,
               !.maxPriorityFeePerGas = Or(tx.gasPrice, priority),
               !.maxFeePerGas = Or(tx.gasPrice, 2 * baseFee + priority)]

PricedFeeMarket(tx, ctx, baseFee) ==
    LET priority == Or(tx.maxPriorityFeePerGas, ctx.defaultMaxPriorityFeePerGas) IN
    [tx EXCEPT !.gasPrice = Null,
               !.maxPriorityFeePerGas = Or(tx.gasPrice, priority),
               !.maxFeePerGas = Or(tx.gasPrice, Or(tx.maxFeePerGas, 2 * baseFee + priority))]

\* populateGasPrice: a wallet's transaction is priced before it is signed.
NeedsGasPrice(tx) ==
    /\ tx.gasPrice = Null
    /\ tx.maxFeePerGas = Null \/ tx.maxPriorityFeePerGas = Null

---------------------------------------------------------------------------
(* The defaults *)

FilledFrom(tx, ctx) == [tx EXCEPT !.from = Or(tx.from, ctx.defaultAccount)]

PayloadsDiffer(tx) == tx.data # Null /\ tx.input # Null /\ tx.data # tx.input

FilledChain(tx, ctx) ==
    IF tx.common # Null THEN tx
    ELSE [tx EXCEPT !.common   = ctx.defaultCommon,
                    !.chain    = Or(tx.chain, ctx.defaultChain),
                    !.hardfork = Or(tx.hardfork, ctx.defaultHardfork)]

FilledInput(tx) ==
    IF tx.data = Null /\ tx.input = Null THEN [tx EXCEPT !.input = 0] ELSE tx

NeedsChainId(tx) == tx.chainId = Null /\ tx.common = Null

FilledType(tx, ctx) ==
    LET type == GetTransactionType(tx, ctx) IN
    [tx EXCEPT !.gasLimit   = Or(tx.gasLimit, tx.gas),
               !.type       = type,
               !.accessList = IF type \in {1, 2} THEN Or(tx.accessList, 0)
                              ELSE tx.accessList]

\* formatTransaction: one field for the gas.
\* gas is preferred to gasLimit.
FaultFormatted(tx) == [tx EXCEPT !.gas = Or(tx.gas, tx.gasLimit), !.gasLimit = Null]
Formatted(tx) == [tx EXCEPT !.gas = Or(tx.gasLimit, tx.gas), !.gasLimit = Null]

---------------------------------------------------------------------------
(* The validation of a transaction to be signed: the first check that      *)
(* fails names the error.                                                  *)

Check(fails, error) == [fails |-> fails, error |-> error]
FirstError(checks) ==
    LET failing == {i \in DOMAIN checks : checks[i].fails} IN
    IF failing = {} THEN "none" ELSE checks[Min(failing)].error

Mismatch(a, b) == a # Null /\ b # Null /\ a # b

ChainChecks(tx) ==
    LET common == Or(tx.common, [chainId |-> Null, hardfork |-> Null, baseChain |-> Null]) IN
    << Check(Mismatch(tx.chainId, common.chainId), "ChainIdMismatchError"),
       Check(tx.common # Null /\ tx.chain # Null /\ tx.hardfork # Null,
             "CommonOrChainAndHardforkError"),
       Check((tx.chain = Null) # (tx.hardfork = Null), "MissingChainOrHardforkError"),
       Check(Mismatch(tx.chain, common.baseChain), "ChainMismatchError"),
       Check(Mismatch(tx.hardfork, common.hardfork), "HardforkMismatchError") >>

LegacyGasChecks(tx) ==
    << Check(tx.gas = Null \/ tx.gasPrice = Null, "InvalidGasOrGasPrice"),
       Check(FeeMarketFields(tx), "UnsupportedFeeMarketError") >>

FeeMarketGasChecks(tx) ==
    << Check(tx.gasPrice # Null /\ tx.type = 2, "Eip1559GasPriceError"),
       Check(tx.type \in {0, 1}, "UnsupportedFeeMarketError"),
       Check(tx.maxFeePerGas = Null \/ tx.maxPriorityFeePerGas = Null,
             "InvalidMaxPriorityFeePerGasOrMaxFeePerGas") >>

\* The gas is checked once as its fields say and once as its type says.
GasChecks(tx) ==
    LET legacy    == tx.gas # Null /\ tx.gasPrice # Null
        feeMarket == /\ tx.gas # Null
                     /\ tx.maxFeePerGas # Null
                     /\ tx.maxPriorityFeePerGas # Null
        typed     == IF tx.type = Null THEN FALSE ELSE tx.type > 1
    IN << Check(~legacy /\ ~feeMarket, "MissingGasError"),
          Check(legacy /\ feeMarket, "TransactionGasMismatchError") >>
       \o (IF legacy THEN LegacyGasChecks(tx) ELSE FeeMarketGasChecks(tx))
       \o (IF typed THEN FeeMarketGasChecks(tx) ELSE LegacyGasChecks(tx))

ValidateTransactionForSigning(tx) ==
    FirstError(ChainChecks(tx)
               \o GasChecks(tx)
               \o << Check(tx.nonce = Null \/ tx.chainId = Null, "InvalidNonceOrChainIdError") >>)
============================================================================
