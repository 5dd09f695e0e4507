---------------------------- MODULE TransactionGas ----------------------------
(***************************************************************************)
(* The gas a transaction must at least have, of web3-eth-accounts/src/tx:  *)
(* what its data, its access list and the creation of a contract cost by   *)
(* the parameters of its Common, and the copy of that which a frozen       *)
(* transaction keeps.                                                      *)
(*                                                                         *)
(* A transaction is [type, creates, zeros, others, accessList, frozen,     *)
(* cache]: `zeros` and `others` are its octets of data that are and are    *)
(* not 0, `accessList` the number of storage keys of each address.  Its    *)
(* Common is given by what it answers: see Asked.                          *)
(***************************************************************************)
EXTENDS Chains

\* What a transaction asks of its Common.
PriceNames == {"tx", "txCreation", "txDataZero", "txDataNonZero", "initCodeWordCost",
               "accessListAddressCost", "accessListStorageKeyCost"}
Asked(c) ==
    [hardfork |-> c.hardfork, eips |-> c.eips,
     homestead |-> HardforkGteHardfork(c.forks, c.hardfork, "homestead"),
     active |-> {eip \in {1559, 2930, 3860} : IsActivatedEIP(c, eip)},
     gasPrices |-> [name \in PriceNames |-> Param(c, "gasPrices", name)],
     maxInitCodeSize |-> Param(c, "vm", "maxInitCodeSize")]

\* A sum that throws when one of its terms does.
Total(costs) ==
    IF Throws \in ToSet(costs) THEN Throws ELSE FoldLeft(LAMBDA sum, cost : sum + cost, 0, costs)
Times(n, price) == IF price = Throws THEN Throws ELSE n * price

DataLength(tx) == tx.zeros + tx.others

---------------------------------------------------------------------------
(* Construction *)

\* checkMaxInitCodeSize() throws: a limit of 0 is none.
TooMuchInitCode(common, length) ==
    IF common.maxInitCodeSize = Throws THEN TRUE
    ELSE common.maxInitCodeSize # 0 /\ length > common.maxInitCodeSize

\* The constructor throws for its size or its type.
ConstructorRefuses(common, tx, allowUnlimitedInitCodeSize) ==
    \/ /\ tx.creates /\ 3860 \in common.active /\ ~ allowUnlimitedInitCodeSize
       /\ TooMuchInitCode(common, DataLength(tx))
    \/ tx.type = 1 /\ 2930 \notin common.active
    \/ tx.type \in {2, 64} /\ 1559 \notin common.active

---------------------------------------------------------------------------
(* Fees *)

GetDataFeeEIP2930(common, tx) ==
    Total(<<Times(Len(tx.accessList), common.gasPrices.accessListAddressCost),
            Times(Total(tx.accessList), common.gasPrices.accessListStorageKeyCost)>>)

DataFee(common, tx) ==
    Total(<<Times(tx.zeros, common.gasPrices.txDataZero),
            Times(tx.others, common.gasPrices.txDataNonZero),
            IF tx.creates /\ 3860 \in common.active
            THEN Times((DataLength(tx) + 31) \div 32, common.gasPrices.initCodeWordCost) ELSE 0,
            IF tx.type = 0 THEN 0 ELSE GetDataFeeEIP2930(common, tx)>>)

\* The fee a frozen transaction remembers is that of a hardfork by its name.
GetDataFee(common, tx) ==
    IF tx.cache # Unset /\ tx.cache.hardfork = common.hardfork THEN tx.cache.value
    ELSE DataFee(common, tx)
Remembering(tx, hardfork, fee) ==
    IF tx.frozen /\ fee # Throws
    THEN [tx EXCEPT !.cache = [hardfork |-> hardfork, value |-> fee]] ELSE tx
AfterDataFee(common, tx) == Remembering(tx, common.hardfork, GetDataFee(common, tx))

GetBaseFee(common, tx) ==
    Total(<<GetDataFee(common, tx), common.gasPrices.tx,
            IF common.homestead /\ tx.creates THEN common.gasPrices.txCreation ELSE 0>>)

\* validate() of an unsigned transaction that needs `fee`.
Validates(fee, gasLimit) == IF fee = Throws THEN Throws ELSE fee <= gasLimit
Validate(common, tx, gasLimit) == Validates(GetBaseFee(common, tx), gasLimit)

\* What an account must have: `price` is the gasPrice of types 0 and 1, else
\* the two fees.
GetUpfrontCost(type, gasLimit, price, baseFee, value) ==
    LET maxBase == price.maxFeePerGas - baseFee
        inclusionFeePerGas == IF price.maxPriorityFeePerGas < maxBase
                              THEN price.maxPriorityFeePerGas ELSE maxBase
    IN IF type \in {0, 1} THEN gasLimit * price.gasPrice + value
       ELSE gasLimit * (inclusionFeePerGas + baseFee) + value
==============================================================================
