------------------------------ MODULE ForkParams ------------------------------
(***************************************************************************)
(* The parameters of the hardforks and of the EIPs: common/hardforks/*.ts  *)
(* and common/eips/*.ts of web3-eth-accounts.  Rewards are in ether.  A    *)
(* parameter that is a table of numbers is Table.                          *)
(***************************************************************************)
EXTENDS Integers, TLC

CONSTANTS
    Unset,   \* null
    Throws,  \* the result of what throws
    Table    \* a parameter that is no number

NoParams == [gasConfig |-> <<>>, gasPrices |-> <<>>, vm |-> <<>>, pow |-> <<>>]

---------------------------------------------------------------------------
(* Hardforks *)

chainstartState ==
    [base |-> 2, tierStep |-> Table, exp |-> 10, expByte |-> 10, sha3 |-> 30, sha3Word |-> 6,
     sload |-> 50, sstoreSet |-> 20000, sstoreReset |-> 5000, sstoreRefund |-> 15000,
     jumpdest |-> 1, log |-> 375, logData |-> 8, logTopic |-> 375, create |-> 32000,
     call |-> 40, callStipend |-> 2300, callValueTransfer |-> 9000, callNewAccount |-> 25000,
     selfdestructRefund |-> 24000, memory |-> 3, quadCoeffDiv |-> 512, createData |-> 200,
     tx |-> 21000, txCreation |-> 32000, txDataZero |-> 4, txDataNonZero |-> 68, copy |-> 3,
     ecRecover |-> 3000, sha256 |-> 60, sha256Word |-> 12, ripemd160 |-> 600,
     ripemd160Word |-> 120, identity |-> 15, identityWord |-> 3]
chainstartArithmetic ==
    [stop |-> 0, add |-> 3, mul |-> 5, sub |-> 3, div |-> 5, sdiv |-> 5, mod |-> 5, smod |-> 5,
     addmod |-> 8, mulmod |-> 8, signextend |-> 5, lt |-> 3, gt |-> 3, slt |-> 3, sgt |-> 3,
     eq |-> 3, iszero |-> 3, and |-> 3, or |-> 3, xor |-> 3, not |-> 3, byte |-> 3]
chainstartMachine ==
    [address |-> 2, balance |-> 20, origin |-> 2, caller |-> 2, callvalue |-> 2,
     calldataload |-> 3, calldatasize |-> 2, calldatacopy |-> 3, codesize |-> 2,
     codecopy |-> 3, gasprice |-> 2, extcodesize |-> 20, extcodecopy |-> 20, blockhash |-> 20,
     coinbase |-> 2, timestamp |-> 2, number |-> 2, difficulty |-> 2, gaslimit |-> 2,
     pop |-> 2, mload |-> 3, mstore |-> 3, mstore8 |-> 3, sstore |-> 0, jump |-> 8,
     jumpi |-> 10, pc |-> 2, msize |-> 2, gas |-> 2, push |-> 3, dup |-> 3, swap |-> 3,
     callcode |-> 40, return |-> 0, invalid |-> 0, selfdestruct |-> 0]
chainstartLimits ==
    [gasConfig |-> [minGasLimit |-> 5000, gasLimitBoundDivisor |-> 1024, maxRefundQuotient |-> 2],
     vm |-> [stackLimit |-> 1024, callCreateDepth |-> 1024, maxExtraDataSize |-> 32],
     pow |-> [minimumDifficulty |-> 131072, difficultyBoundDivisor |-> 2048, durationLimit |-> 13,
             epochDuration |-> 30000, timebombPeriod |-> 100000, minerReward |-> 5,
             difficultyBombDelay |-> 0]]
chainstart ==
    [gasPrices |-> chainstartState @@ chainstartArithmetic @@ chainstartMachine] @@ chainstartLimits
homestead ==
    [gasPrices |-> [delegatecall |-> 40]] @@ NoParams
tangerineWhistle ==
    [gasPrices |-> [sload |-> 200, call |-> 700, extcodesize |-> 700, extcodecopy |-> 700,
                   balance |-> 400, delegatecall |-> 700, callcode |-> 700,
                   selfdestruct |-> 5000]] @@ NoParams
spuriousDragon ==
    [gasPrices |-> [expByte |-> 50],
     vm |-> [maxCodeSize |-> 24576]] @@ NoParams
byzantium ==
    [gasPrices |-> [modexpGquaddivisor |-> 20, ecAdd |-> 500, ecMul |-> 40000,
                   ecPairing |-> 100000, ecPairingWord |-> 80000, revert |-> 0,
                   staticcall |-> 700, returndatasize |-> 2,
                   returndatacopy |-> 3],
     pow |-> [minerReward |-> 3, difficultyBombDelay |-> 3000000]] @@ NoParams
constantinople ==
    [gasPrices |-> [netSstoreNoopGas |-> 200, netSstoreInitGas |-> 20000,
                   netSstoreCleanGas |-> 5000, netSstoreDirtyGas |-> 200,
                   netSstoreClearRefund |-> 15000,
                   netSstoreResetRefund |-> 4800,
                   netSstoreResetClearRefund |-> 19800, shl |-> 3, shr |-> 3,
                   sar |-> 3, extcodehash |-> 400, create2 |-> 32000],
     pow |-> [minerReward |-> 2, difficultyBombDelay |-> 5000000]] @@ NoParams
petersburg ==
    [gasPrices |-> [netSstoreNoopGas |-> Unset, netSstoreInitGas |-> Unset,
                   netSstoreCleanGas |-> Unset, netSstoreDirtyGas |-> Unset,
                   netSstoreClearRefund |-> Unset,
                   netSstoreResetRefund |-> Unset,
                   netSstoreResetClearRefund |-> Unset]] @@ NoParams
istanbul ==
    [gasPrices |-> [blake2Round |-> 1, ecAdd |-> 150, ecMul |-> 6000, ecPairing |-> 45000,
                   ecPairingWord |-> 34000, txDataNonZero |-> 16,
                   sstoreSentryGasEIP2200 |-> 2300,
                   sstoreNoopGasEIP2200 |-> 800, sstoreDirtyGasEIP2200 |-> 800,
                   sstoreInitGasEIP2200 |-> 20000,
                   sstoreInitRefundEIP2200 |-> 19200,
                   sstoreCleanGasEIP2200 |-> 5000,
                   sstoreCleanRefundEIP2200 |-> 4200,
                   sstoreClearRefundEIP2200 |-> 15000, balance |-> 700,
                   extcodehash |-> 700, chainid |-> 2, selfbalance |-> 5,
                   sload |-> 800]] @@ NoParams
muirGlacier ==
    [pow |-> [difficultyBombDelay |-> 9000000]] @@ NoParams

\* A hardfork has parameters of its own or brings EIPs.
ByParams(params) == [params |-> params]
ByEips(eips) == [eips |-> eips]

HARDFORK_SPECS ==
    [chainstart |-> ByParams(chainstart), homestead |-> ByParams(homestead),
     dao |-> ByParams(NoParams), tangerineWhistle |-> ByParams(tangerineWhistle),
     spuriousDragon |-> ByParams(spuriousDragon), byzantium |-> ByParams(byzantium),
     constantinople |-> ByParams(constantinople), petersburg |-> ByParams(petersburg),
     istanbul |-> ByParams(istanbul), muirGlacier |-> ByParams(muirGlacier),
     berlin |-> ByEips(<<2565, 2929, 2718, 2930>>), london |-> ByEips(<<1559, 3198, 3529, 3541>>),
     arrowGlacier |-> ByEips(<<4345>>), grayGlacier |-> ByEips(<<5133>>),
     mergeForkIdTransition |-> ByEips(<<>>), merge |-> ByEips(<<3675, 4399>>),
     shanghai |-> ByEips(<<3651, 3855, 3860, 4895>>)]

---------------------------------------------------------------------------
(* EIPs: those of eips/index.ts *)

Eip(minimumHardfork, requiredEIPs, params) ==
    [minimumHardfork |-> minimumHardfork, requiredEIPs |-> requiredEIPs, params |-> params]

e1153 == Eip("chainstart", {},
    [gasPrices |-> [tstore |-> 100, tload |-> 100]] @@ NoParams)
e1559 == Eip("berlin", {2930},
    [gasConfig |-> [baseFeeMaxChangeDenominator |-> 8, elasticityMultiplier |-> 2,
                initialBaseFee |-> 1000000000]] @@ NoParams)
e2315 == Eip("istanbul", {},
    [gasPrices |-> [beginsub |-> 2, returnsub |-> 5, jumpsub |-> 10]] @@ NoParams)
e2537 == Eip("chainstart", {},
    [gasPrices |-> [Bls12381G1AddGas |-> 600, Bls12381G1MulGas |-> 12000,
                Bls12381G2AddGas |-> 4500, Bls12381G2MulGas |-> 55000,
                Bls12381PairingBaseGas |-> 115000,
                Bls12381PairingPerPairGas |-> 23000,
                Bls12381MapG1Gas |-> 5500, Bls12381MapG2Gas |-> 110000,
                Bls12381MultiExpGasDiscount |-> Table]] @@ NoParams)
e2565 == Eip("byzantium", {},
    [gasPrices |-> [modexpGquaddivisor |-> 3]] @@ NoParams)
e2718 == Eip("chainstart", {},
    NoParams)
e2929 == Eip("chainstart", {},
    [gasPrices |-> [coldsload |-> 2100, coldaccountaccess |-> 2600, warmstorageread |-> 100,
                sstoreCleanGasEIP2200 |-> 2900, sstoreNoopGasEIP2200 |-> 100,
                sstoreDirtyGasEIP2200 |-> 100,
                sstoreInitRefundEIP2200 |-> 19900,
                sstoreCleanRefundEIP2200 |-> 4900, call |-> 0,
                callcode |-> 0, delegatecall |-> 0, staticcall |-> 0,
                balance |-> 0, extcodesize |-> 0, extcodecopy |-> 0,
                extcodehash |-> 0, sload |-> 0, sstore |-> 0]] @@ NoParams)
e2930 == Eip("istanbul", {2718, 2929},
    [gasPrices |-> [accessListStorageKeyCost |-> 1900, accessListAddressCost |-> 2400]] @@ NoParams)
e3198 == Eip("london", {},
    [gasPrices |-> [basefee |-> 2]] @@ NoParams)
e3529 == Eip("berlin", {2929},
    [gasConfig |-> [maxRefundQuotient |-> 5],
     gasPrices |-> [selfdestructRefund |-> 0, sstoreClearRefundEIP2200 |-> 4800]] @@ NoParams)
e3540 == Eip("london", {3541},
    NoParams)
e3541 == Eip("berlin", {},
    NoParams)
e3554 == Eip("muirGlacier", {},
    [pow |-> [difficultyBombDelay |-> 9500000]] @@ NoParams)
e3607 == Eip("chainstart", {},
    NoParams)
e3651 == Eip("london", {2929},
    NoParams)
e3670 == Eip("london", {3540},
    NoParams)
e3675 == Eip("london", {},
    NoParams)
e3855 == Eip("chainstart", {},
    [gasPrices |-> [push0 |-> 2]] @@ NoParams)
e3860 == Eip("spuriousDragon", {},
    [gasPrices |-> [initCodeWordCost |-> 2],
     vm |-> [maxInitCodeSize |-> 49152]] @@ NoParams)
e4345 == Eip("london", {},
    [pow |-> [difficultyBombDelay |-> 10700000]] @@ NoParams)
e4399 == Eip("london", {},
    NoParams)
e5133 == Eip("grayGlacier", {},
    [pow |-> [difficultyBombDelay |-> 11400000]] @@ NoParams)
EIPs ==
    1153 :> e1153 @@ 1559 :> e1559 @@ 2315 :> e2315 @@ 2537 :> e2537 @@ 2565 :> e2565 @@ 2718 :>
    e2718 @@ 2929 :> e2929 @@ 2930 :> e2930 @@ 3198 :> e3198 @@ 3529 :> e3529 @@ 3540 :>
    e3540 @@ 3541 :> e3541 @@ 3554 :> e3554 @@ 3607 :> e3607 @@ 3651 :> e3651 @@ 3670 :>
    e3670 @@ 3675 :> e3675 @@ 3855 :> e3855 @@ 3860 :> e3860 @@ 4345 :> e4345 @@ 4399 :>
    e4399 @@ 5133 :> e5133
==============================================================================
