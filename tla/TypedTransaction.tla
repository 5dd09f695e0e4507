--------------------------- MODULE TypedTransaction ---------------------------
(***************************************************************************)
(* The transaction classes of web3-eth-accounts/src/tx: what each type     *)
(* carries, how it is signed, serialized and read back.  Type 64 is        *)
(* ETNIP-1, a priority transaction that two keys sign.                     *)
(*                                                                         *)
(* A signature is what a key made of a message, with a recovery bit that   *)
(* is the signer's luck.  A number is serialized without leading zeros, so *)
(* that zero, empty data, an empty access list and an absent value are all *)
(* the same empty bytes, Empty.  Data and access lists are numbers too, 0  *)
(* for the empty one.                                                      *)
(***************************************************************************)
EXTENDS TransactionTypes

CONSTANT Empty  \* no bytes

Enc(value) == IF value = Null \/ value = 0 THEN Empty ELSE value
EncOptional(value) == IF value = Null THEN Empty ELSE value
DecNumber(bytes) == IF bytes = Empty THEN 0 ELSE bytes
DecOptional(bytes) == IF bytes = Empty THEN Null ELSE bytes

---------------------------------------------------------------------------
(* The classes: the order of their fields, and the hardfork that brought   *)
(* their EIP.                                                              *)

LegacyTransaction ==
    [type      |-> 0, since |-> "homestead",
     fields    |-> <<"nonce", "gasPrice", "gasLimit", "data">>,
     signature |-> <<"v", "r", "s">>]

AccessListEIP2930Transaction ==
    [type      |-> 1, since |-> "berlin",
     fields    |-> <<"chainId", "nonce", "gasPrice", "gasLimit", "data", "accessList">>,
     signature |-> <<"v", "r", "s">>]

FeeMarketEIP1559Transaction ==
    [type      |-> 2, since |-> "london",
     fields    |-> <<"chainId", "nonce", "maxPriorityFeePerGas", "maxFeePerGas", "gasLimit",
                     "data", "accessList">>,
     signature |-> <<"v", "r", "s">>]

PriorityETNIP1Transaction ==
    [type      |-> 64, since |-> "london",
     fields    |-> <<"chainId", "nonce", "maxPriorityFeePerGas", "maxFeePerGas", "gasLimit",
                     "data", "accessList">>,
     signature |-> <<"v", "r", "s", "pV", "pR", "pS">>]

Classes == {LegacyTransaction, AccessListEIP2930Transaction,
            FeeMarketEIP1559Transaction, PriorityETNIP1Transaction}

\* TransactionFactory: an absent type is a legacy transaction.
Supported(type) == Or(type, 0) \in {class.type : class \in Classes}
ClassOf(type)   == CHOOSE class \in Classes : class.type = Or(type, 0)

\* The constructor throws.  A legacy transaction has no chain id of its own.
FactoryRefuses(txData, common) ==
    \/ ~ Supported(txData.type)
    \/ LET class == ClassOf(txData.type) IN
       \/ ~ GteHardfork(common.hardfork, class.since)
       \/ class.type # 0 /\ txData.chainId # common.chainId
       \/ class.since = "london" /\ txData.maxFeePerGas < txData.maxPriorityFeePerGas

---------------------------------------------------------------------------
(* Signing *)

RawFields(obj) ==
    LET names == ClassOf(obj.type).fields IN [i \in DOMAIN names |-> Enc(obj[names[i]])]
RawSignature(obj) ==
    LET names == ClassOf(obj.type).signature IN
    [i \in DOMAIN names |-> IF names[i] \in {"v", "pV"} THEN Enc(obj[names[i]])
                                                       ELSE EncOptional(obj[names[i]])]

\* An unsigned legacy transaction commits to its chain since EIP-155, a
\* signed one where its v says so.
MeetsEIP155(v, chainId) == v \in {2 * chainId + 35, 2 * chainId + 36}
IsSigned(obj) ==
    LET names == ClassOf(obj.type).signature IN \A i \in DOMAIN names : obj[names[i]] # Null
ReplayProtected(obj) ==
    /\ GteHardfork(obj.common.hardfork, "spuriousDragon")
    /\ IsSigned(obj) => MeetsEIP155(obj.v, obj.common.chainId)

GetMessageToSign(obj) ==
    IF obj.type # 0 THEN <<obj.type>> \o RawFields(obj)
    ELSE RawFields(obj) \o IF ReplayProtected(obj) THEN <<obj.common.chainId, Empty, Empty>>
                           ELSE <<>>

\* _ecsign: r and s bind the key, the message and the recovery bit; v is 27
\* or 28.
EcSign(key, message, recovery) ==
    [v |-> 27 + recovery, r |-> <<"r", key, message, recovery>>,
                          s |-> <<"s", key, message, recovery>>]

\* sign() of the other classes ignores a second key; a priority transaction
\* throws without it.
SignRefuses(obj, priorityKey) == obj.type = 64 /\ priorityKey = Null

\* The v of a typed transaction is that of a legacy one.
FaultProcessSignature(obj, sig, pSig) ==
    LET signed == [obj EXCEPT !.v = sig.v, !.r = sig.r, !.s = sig.s] IN
    IF obj.type # 64 THEN signed
    ELSE [signed EXCEPT !.pV = pSig.v - 27, !.pR = pSig.r, !.pS = pSig.s]

ProcessSignature(obj, sig, pSig) ==
    LET v == IF obj.type # 0 THEN sig.v - 27
             ELSE IF ReplayProtected(obj) THEN sig.v + 2 * obj.common.chainId + 8
             ELSE sig.v
        signed == [obj EXCEPT !.v = v, !.r = sig.r, !.s = sig.s]
    IN IF obj.type # 64 THEN signed
       ELSE [signed EXCEPT !.pV = pSig.v - 27, !.pR = pSig.r, !.pS = pSig.s]

Sign(obj, key, priorityKey, recovery, pRecovery) ==
    ProcessSignature(obj, EcSign(key, GetMessageToSign(obj), recovery),
                          EcSign(priorityKey, GetMessageToSign(obj), pRecovery))

Serialize(obj) == [type |-> obj.type, values |-> RawFields(obj) \o RawSignature(obj)]

---------------------------------------------------------------------------
(* Reading back *)

\* ecrecover: the key, Null where v is not the recovery bit of the
\* signature or the signature is of another message.
EcRecover(message, v, r, s, chainId) ==
    LET recovery == IF v \in {0, 1} THEN v
                    ELSE IF chainId = Null THEN v - 27 ELSE v - (2 * chainId + 35)
    IN IF recovery \in {0, 1} /\ r[3] = message /\ r[4] = recovery /\ s = <<"s", r[2], r[3], r[4]>>
       THEN r[2] ELSE Null

GetSenderPublicKey(obj) ==
    IF obj.type = 0
    THEN EcRecover(GetMessageToSign(obj), obj.v, obj.r, obj.s,
                   IF ReplayProtected(obj) THEN obj.common.chainId ELSE Null)
    ELSE EcRecover(GetMessageToSign(obj), obj.v + 27, obj.r, obj.s, Null)

GetPriorityPublicKey(obj) == EcRecover(GetMessageToSign(obj), obj.pV + 27, obj.pR, obj.pS, Null)

\* The chain a legacy v stands for: none for 27 and 28.
ChainIdOfV(v) ==
    IF v \in {27, 28} THEN Null
    ELSE IF (v - 35) % 2 = 0 THEN (v - 35) \div 2 ELSE (v - 36) \div 2

\* The value of a field among those of a serialized transaction.
ValueOf(raw, field) ==
    LET class == ClassOf(raw.type)
        names == class.fields \o class.signature
        at    == {i \in DOMAIN names : names[i] = field}
    IN IF at = {} THEN Empty ELSE raw.values[CHOOSE i \in at : TRUE]

\* fromSerializedData without options: the chain comes from the transaction,
\* the hardfork is the default of Common.
FromSerializedData(raw) ==
    LET number(field)   == DecNumber(ValueOf(raw, field))
        optional(field) == DecOptional(ValueOf(raw, field))
        typed           == raw.type # 0
        v               == IF typed THEN number("v") ELSE optional("v")
        chainId         == IF typed THEN number("chainId") ELSE Or(ChainIdOfV(v), 1)
    IN [type |-> raw.type, common |-> [chainId |-> chainId, hardfork |-> "merge"],
        chainId |-> chainId,
        nonce |-> number("nonce"), gasPrice |-> number("gasPrice"),
        gasLimit |-> number("gasLimit"), data |-> ValueOf(raw, "data"),
        maxPriorityFeePerGas |-> number("maxPriorityFeePerGas"),
        maxFeePerGas |-> number("maxFeePerGas"),
        accessList |-> ValueOf(raw, "accessList"),
        v |-> v, r |-> optional("r"), s |-> optional("s"),
        pV |-> IF raw.type = 64 THEN number("pV") ELSE Null,
        pR |-> optional("pR"), pS |-> optional("pS")]

RecoverTransaction(raw) == GetSenderPublicKey(FromSerializedData(raw))
============================================================================
