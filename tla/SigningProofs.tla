----------------------------- MODULE SigningProofs -----------------------------
(***************************************************************************)
(* Proofs about Signing, for every transaction a program may write, every  *)
(* configuration of its context and every answer of the node.              *)
(***************************************************************************)
EXTENDS Signing, FiniteSetTheorems, SequenceTheorems, TLAPS

---------------------------------------------------------------------------
(* The classes of transactions *)

Types == {0, 1, 2, 64}
NumberFields == {"chainId", "nonce", "gasPrice", "gasLimit", "maxPriorityFeePerGas", "maxFeePerGas"}
FieldNames == NumberFields \cup {"data", "accessList"}
SignatureNames == {"v", "r", "s", "pV", "pR", "pS"}

LEMMA ClassesByType ==
    /\ ClassOf(0) = LegacyTransaction
    /\ ClassOf(1) = AccessListEIP2930Transaction
    /\ ClassOf(2) = FeeMarketEIP1559Transaction
    /\ ClassOf(64) = PriorityETNIP1Transaction
    /\ \A type \in Types : Or(type, 0) = type
<1>1. \A type \in Types : Or(type, 0) = type
  BY ValuesAssumption DEF Types, Or
<1>2. QED
  BY <1>1 DEF ClassOf, Classes, LegacyTransaction, AccessListEIP2930Transaction,
              FeeMarketEIP1559Transaction, PriorityETNIP1Transaction, Types

(* No two fields of a class have one name.                                 *)
Distinct(names) == \A i, j \in DOMAIN names : names[i] = names[j] => i = j

LEMMA FieldTuples ==
    \A names \in {<<"nonce", "gasPrice", "gasLimit", "data">>,
                  <<"chainId", "nonce", "gasPrice", "gasLimit", "data", "accessList">>,
                  <<"chainId", "nonce", "maxPriorityFeePerGas", "maxFeePerGas", "gasLimit",
                    "data", "accessList">>} :
        names \in Seq(FieldNames) /\ Distinct(names)
<1> SUFFICES ASSUME NEW names,
                    \/ names = <<"nonce", "gasPrice", "gasLimit", "data">>
                    \/ names = <<"chainId", "nonce", "gasPrice", "gasLimit", "data", "accessList">>
                    \/ names = <<"chainId", "nonce", "maxPriorityFeePerGas", "maxFeePerGas",
                                 "gasLimit", "data", "accessList">>
             PROVE  names \in Seq(FieldNames) /\ Distinct(names)
  OBVIOUS
<1>1. names \in Seq(FieldNames)
  <2>1. CASE names = <<"nonce", "gasPrice", "gasLimit", "data">>
    BY <2>1 DEF FieldNames, NumberFields
  <2>2. CASE names = <<"chainId", "nonce", "gasPrice", "gasLimit", "data", "accessList">>
    BY <2>2 DEF FieldNames, NumberFields
  <2>3. CASE names = <<"chainId", "nonce", "maxPriorityFeePerGas", "maxFeePerGas", "gasLimit",
                       "data", "accessList">>
    BY <2>3 DEF FieldNames, NumberFields
  <2>4. QED
    BY <2>1, <2>2, <2>3
<1>2. Distinct(names)
  BY DEF Distinct
<1>3. QED
  BY <1>1, <1>2

LEMMA SignatureTuples ==
    \A names \in {<<"v", "r", "s">>, <<"v", "r", "s", "pV", "pR", "pS">>} :
        names \in Seq(SignatureNames) /\ Distinct(names)
<1> SUFFICES ASSUME NEW names,
                    \/ names = <<"v", "r", "s">>
                    \/ names = <<"v", "r", "s", "pV", "pR", "pS">>
             PROVE  names \in Seq(SignatureNames) /\ Distinct(names)
  OBVIOUS
<1>1. names \in Seq(SignatureNames)
  <2>1. CASE names = <<"v", "r", "s">>
    BY <2>1 DEF SignatureNames
  <2>2. CASE names = <<"v", "r", "s", "pV", "pR", "pS">>
    BY <2>2 DEF SignatureNames
  <2>3. QED
    BY <2>1, <2>2
<1>2. Distinct(names)
  BY DEF Distinct
<1>3. QED
  BY <1>1, <1>2

LEMMA ClassesWellFormed ==
    ASSUME NEW type \in Types
    PROVE  /\ ClassOf(type).fields \in Seq(FieldNames) /\ Distinct(ClassOf(type).fields)
           /\ ClassOf(type).signature \in Seq(SignatureNames) /\ Distinct(ClassOf(type).signature)
           /\ type = 0 => \A i \in DOMAIN ClassOf(type).fields : ClassOf(type).fields[i] # "chainId"
           /\ type # 64 => ClassOf(type).signature = <<"v", "r", "s">>
           /\ type = 64 => ClassOf(type).signature = <<"v", "r", "s", "pV", "pR", "pS">>
<1>1. ClassOf(type).fields \in
         {<<"nonce", "gasPrice", "gasLimit", "data">>,
          <<"chainId", "nonce", "gasPrice", "gasLimit", "data", "accessList">>,
          <<"chainId", "nonce", "maxPriorityFeePerGas", "maxFeePerGas", "gasLimit",
            "data", "accessList">>}
  BY ClassesByType DEF Types, LegacyTransaction, AccessListEIP2930Transaction,
                       FeeMarketEIP1559Transaction, PriorityETNIP1Transaction
<1>2. /\ type # 64 => ClassOf(type).signature = <<"v", "r", "s">>
      /\ type = 64 => ClassOf(type).signature = <<"v", "r", "s", "pV", "pR", "pS">>
  BY ClassesByType DEF Types, LegacyTransaction, AccessListEIP2930Transaction,
                       FeeMarketEIP1559Transaction, PriorityETNIP1Transaction
<1>3. ClassOf(type).signature \in {<<"v", "r", "s">>, <<"v", "r", "s", "pV", "pR", "pS">>}
  BY <1>2
<1>4. ASSUME type = 0
      PROVE  \A i \in DOMAIN ClassOf(type).fields : ClassOf(type).fields[i] # "chainId"
  BY <1>4, ClassesByType DEF LegacyTransaction
<1>5. QED
  BY <1>1, <1>2, <1>3, <1>4, FieldTuples, SignatureTuples

(* Every name leads to the value that was serialized under it, and a name  *)
(* the class does not have to no bytes.                                    *)
LEMMA ReadBack ==
    ASSUME NEW obj, obj.type \in Types
    PROVE  LET raw   == Serialize(obj)
               class == ClassOf(obj.type)
           IN /\ raw.type = obj.type
              /\ \A i \in DOMAIN class.fields :
                    ValueOf(raw, class.fields[i]) = Enc(obj[class.fields[i]])
              /\ \A i \in DOMAIN class.signature :
                    ValueOf(raw, class.signature[i]) = RawSignature(obj)[i]
              /\ \A name : /\ \A i \in DOMAIN class.fields : class.fields[i] # name
                           /\ \A i \in DOMAIN class.signature : class.signature[i] # name
                           => ValueOf(raw, name) = Empty
<1> DEFINE raw   == Serialize(obj)
           F     == ClassOf(obj.type).fields
           G     == ClassOf(obj.type).signature
           m     == Len(F)
           n     == Len(G)
           names == F \o G
           N     == FieldNames \cup SignatureNames
           values == RawFields(obj)
           proofs == RawSignature(obj)
           V     == {values[i] : i \in 1 .. m} \cup {proofs[i] : i \in 1 .. n}
<1>1. /\ F \in Seq(FieldNames) /\ Distinct(F) /\ m \in Nat /\ DOMAIN F = 1 .. m
      /\ G \in Seq(SignatureNames) /\ Distinct(G) /\ n \in Nat /\ DOMAIN G = 1 .. n
  <2>1. /\ F \in Seq(FieldNames) /\ Distinct(F)
        /\ G \in Seq(SignatureNames) /\ Distinct(G)
    BY ClassesWellFormed
  <2> HIDE DEF F, G
  <2>2. QED
    BY <2>1
<1>2. raw.type = obj.type /\ raw.values = values \o proofs
  BY DEF Serialize
<1>3. /\ DOMAIN values = 1 .. m /\ \A i \in 1 .. m : values[i] = Enc(obj[F[i]])
      /\ DOMAIN proofs = 1 .. n
  BY <1>1 DEF RawFields, RawSignature
<1>4. \A name : ValueOf(raw, name) =
            LET places == {i \in DOMAIN names : names[i] = name}
            IN IF places = {} THEN Empty ELSE (values \o proofs)[CHOOSE i \in places : TRUE]
  <2> HIDE DEF raw, values, proofs
  <2>1. ClassOf(raw.type).fields \o ClassOf(raw.type).signature = names
    BY <1>2
  <2> HIDE DEF names
  <2>2. QED
    BY <1>2, <2>1 DEF ValueOf
<1>5. values = [i \in 1 .. m |-> values[i]] /\ proofs = [i \in 1 .. n |-> proofs[i]]
  BY <1>3 DEF RawFields, RawSignature
<1> HIDE DEF raw, F, G, values, proofs
<1>6. /\ DOMAIN names = 1 .. m + n
      /\ \A i \in 1 .. m : names[i] = F[i]
      /\ \A i \in 1 .. n : names[m + i] = G[i]
  <2>1. F \in Seq(N) /\ G \in Seq(N)
    BY <1>1, SeqMonotonic
  <2>2. /\ names \in Seq(N) /\ Len(names) = m + n
        /\ \A i \in 1 .. m + n : names[i] = IF i <= m THEN F[i] ELSE G[i - m]
    BY <2>1, ConcatProperties
  <2> HIDE DEF m, n, names, N
  <2>3. DOMAIN names = 1 .. m + n
    BY <2>2
  <2>4. m \in Nat /\ n \in Nat
    BY <1>1
  <2>5. \A i \in 1 .. m : i \in 1 .. m + n /\ i <= m
    BY <2>4
  <2>6. \A i \in 1 .. n : m + i \in 1 .. m + n /\ ~ (m + i <= m) /\ (m + i) - m = i
    BY <2>4
  <2>7. QED
    BY <2>2, <2>3, <2>5, <2>6
<1>7. /\ \A i \in 1 .. m : (values \o proofs)[i] = values[i]
      /\ \A i \in 1 .. n : (values \o proofs)[m + i] = proofs[i]
  <2>1. values \in Seq(V) /\ Len(values) = m /\ proofs \in Seq(V) /\ Len(proofs) = n
    BY <1>1, <1>5
  <2>2. \A i \in 1 .. m + n : (values \o proofs)[i] = IF i <= m THEN values[i] ELSE proofs[i - m]
    BY <2>1, ConcatProperties
  <2> HIDE DEF m, n
  <2>3. ASSUME NEW i \in 1 .. m
        PROVE  (values \o proofs)[i] = values[i]
    <3>1. i \in 1 .. m + n /\ i <= m
      BY <1>1
    <3>2. QED
      BY <2>2, <3>1
  <2>4. ASSUME NEW i \in 1 .. n
        PROVE  (values \o proofs)[m + i] = proofs[i]
    <3>1. m + i \in 1 .. m + n /\ ~ (m + i <= m) /\ (m + i) - m = i
      BY <1>1
    <3>2. QED
      BY <2>2, <3>1
  <2>5. QED
    BY <2>3, <2>4
<1>8. \A i, j \in 1 .. m + n : names[i] = names[j] => i = j
  <2>1. \A i \in 1 .. m : \A j \in 1 .. n : F[i] # G[j]
    <3>1. \A i \in 1 .. m : F[i] \in FieldNames
      BY <1>1
    <3>2. \A j \in 1 .. n : G[j] \in SignatureNames
      BY <1>1
    <3>3. FieldNames \cap SignatureNames = {}
      BY DEF FieldNames, NumberFields, SignatureNames
    <3>4. QED
      BY <3>1, <3>2, <3>3
  <2>2. \A i \in 1 .. m + n : i \in 1 .. m \/ \E k \in 1 .. n : i = m + k
    <3> HIDE DEF m, n
    <3> TAKE i \in 1 .. m + n
    <3>1. CASE i > m
      <4>1. i - m \in 1 .. n /\ i = m + (i - m)
        BY <1>1, <3>1
      <4>2. QED
        BY <4>1
    <3>2. CASE ~ (i > m)
      BY <1>1, <3>2
    <3>3. QED
      BY <3>1, <3>2
  <2> HIDE DEF m, n, names
  <2>3. ASSUME NEW i \in 1 .. m + n, NEW j \in 1 .. m + n, names[i] = names[j]
        PROVE  i = j
    <3>1. CASE i \in 1 .. m /\ j \in 1 .. m
      BY <1>1, <1>6, <2>3, <3>1 DEF Distinct
    <3>2. CASE i \in 1 .. m /\ j \notin 1 .. m
      BY <1>6, <2>1, <2>2, <2>3, <3>2
    <3>3. CASE i \notin 1 .. m /\ j \in 1 .. m
      BY <1>6, <2>1, <2>2, <2>3, <3>3
    <3>4. CASE i \notin 1 .. m /\ j \notin 1 .. m
      <4>1. PICK k \in 1 .. n, l \in 1 .. n : i = m + k /\ j = m + l
        BY <2>2, <3>4
      <4>2. G[k] = G[l]
        BY <1>6, <2>3, <4>1
      <4>3. QED
        BY <1>1, <4>1, <4>2 DEF Distinct
    <3>5. QED
      BY <3>1, <3>2, <3>3, <3>4
  <2>4. QED
    BY <2>3
<1>9. \A k \in 1 .. m + n : ValueOf(raw, names[k]) = (values \o proofs)[k]
  <2> TAKE k \in 1 .. m + n
  <2> DEFINE places == {i \in DOMAIN names : names[i] = names[k]}
  <2>1. places = {k}
    BY <1>6, <1>8
  <2>2. (CHOOSE i \in places : TRUE) = k
    BY <2>1
  <2> HIDE DEF names
  <2>3. QED
    BY <1>4, <2>1, <2>2
<1>10. ASSUME NEW i \in 1 .. m
       PROVE  ValueOf(raw, F[i]) = Enc(obj[F[i]])
  <2>1. i \in 1 .. m + n
    BY <1>1
  <2>2. QED
    BY <1>3, <1>6, <1>7, <1>9, <2>1
<1>11. ASSUME NEW i \in 1 .. n
       PROVE  ValueOf(raw, G[i]) = proofs[i]
  <2>1. m + i \in 1 .. m + n
    BY <1>1
  <2>2. QED
    BY <1>6, <1>7, <1>9, <2>1
<1>12. ASSUME NEW name, \A i \in 1 .. m : F[i] # name, \A i \in 1 .. n : G[i] # name
       PROVE  ValueOf(raw, name) = Empty
  <2>1. \A i \in 1 .. m + n : names[i] # name
    <3> TAKE i \in 1 .. m + n
    <3>1. CASE i \in 1 .. m
      BY <1>6, <1>12, <3>1
    <3>2. CASE i \notin 1 .. m
      <4>1. i - m \in 1 .. n /\ i = m + (i - m)
        BY <1>1, <3>2
      <4>2. QED
        BY <1>6, <1>12, <4>1
    <3>3. QED
      BY <3>1, <3>2
  <2>2. {i \in DOMAIN names : names[i] = name} = {}
    BY <1>6, <2>1
  <2>3. QED
    BY <1>4, <2>2
<1>13. raw.type = obj.type
  BY <1>2
<1>14. QED
  BY <1>1, <1>10, <1>11, <1>12, <1>13 DEF raw, F, G, proofs

(* What signing leaves of a transaction.                                   *)
Unsigned(obj) ==
    /\ obj \in [type : Types, common : {obj.common}, chainId : Nat, nonce : Quantity,
                gasPrice : Quantity, gasLimit : Quantity, data : Quantity,
                accessList : Quantity, maxPriorityFeePerGas : Quantity,
                maxFeePerGas : Quantity, v : {Null}, r : {Null}, s : {Null},
                pV : {Null}, pR : {Null}, pS : {Null}]
    /\ obj.common.chainId \in Nat

LEMMA WhatIsSigned ==
    ASSUME NEW obj, Unsigned(obj), NEW key, NEW priorityKey,
           NEW recovery \in {0, 1}, NEW pRecovery \in {0, 1}
    PROVE  LET signedObj == Sign(obj, key, priorityKey, recovery, pRecovery)
               message   == GetMessageToSign(obj)
           IN /\ signedObj.type = obj.type
              /\ \A name \in FieldNames : signedObj[name] = obj[name]
              /\ signedObj.v = IF obj.type # 0 THEN recovery
                               ELSE IF ReplayProtected(obj)
                                    THEN recovery + 2 * obj.common.chainId + 35
                               ELSE recovery + 27
              /\ signedObj.r = <<"r", key, message, recovery>>
              /\ signedObj.s = <<"s", key, message, recovery>>
              /\ obj.type = 64 =>
                    /\ signedObj.pV = pRecovery
                    /\ signedObj.pR = <<"r", priorityKey, message, pRecovery>>
                    /\ signedObj.pS = <<"s", priorityKey, message, pRecovery>>
<1> DEFINE message   == GetMessageToSign(obj)
           v  == IF obj.type # 0 THEN recovery
                 ELSE IF ReplayProtected(obj) THEN recovery + 2 * obj.common.chainId + 35
                 ELSE recovery + 27
           r1 == <<"r", key, message, recovery>>
           s1 == <<"s", key, message, recovery>>
           r2 == <<"r", priorityKey, message, pRecovery>>
           s2 == <<"s", priorityKey, message, pRecovery>>
           plain == [obj EXCEPT !.v = v, !.r = r1, !.s = s1]
<1>1. Sign(obj, key, priorityKey, recovery, pRecovery) =
         IF obj.type # 64 THEN plain
         ELSE [plain EXCEPT !.pV = pRecovery, !.pR = r2, !.pS = s2]
  <2>1. (27 + recovery) - 27 = recovery /\ (27 + pRecovery) - 27 = pRecovery
    OBVIOUS
  <2>2. v = IF obj.type # 0 THEN (27 + recovery) - 27
            ELSE IF ReplayProtected(obj) THEN 27 + recovery + 2 * obj.common.chainId + 8
            ELSE 27 + recovery
    BY DEF Unsigned
  <2> HIDE DEF message, v
  <2>3. QED
    BY <2>1, <2>2 DEF Sign, ProcessSignature, EcSign, message
<1>2. /\ plain.type = obj.type /\ plain.v = v /\ plain.r = r1 /\ plain.s = s1
      /\ \A name \in FieldNames : plain[name] = obj[name]
      /\ DOMAIN plain = DOMAIN obj
  <2> HIDE DEF v, r1, s1
  <2>1. QED
    BY DEF Unsigned, FieldNames, NumberFields
<1> HIDE DEF v, r1, s1, r2, s2, plain
<1>3. CASE obj.type # 64
  BY <1>1, <1>2, <1>3 DEF v, r1, s1
<1>4. CASE obj.type = 64
  <2> DEFINE both == [plain EXCEPT !.pV = pRecovery, !.pR = r2, !.pS = s2]
  <2>1. /\ both.type = plain.type /\ both.v = plain.v /\ both.r = plain.r /\ both.s = plain.s
        /\ both.pV = pRecovery /\ both.pR = r2 /\ both.pS = s2
        /\ \A name \in FieldNames : both[name] = plain[name]
    BY <1>2 DEF Unsigned, FieldNames, NumberFields
  <2> HIDE DEF both
  <2>2. Sign(obj, key, priorityKey, recovery, pRecovery) = both
    BY <1>1, <1>4 DEF both
  <2>3. QED
    BY <1>2, <1>4, <2>1, <2>2 DEF v, r1, s1, r2, s2
<1>5. QED
  BY <1>3, <1>4

LEMMA MessageIsWords ==
    ASSUME NEW obj, Unsigned(obj)
    PROVE  /\ GetMessageToSign(obj) \in Seq(Nat \cup {Empty})
           /\ RawFields(obj) \in Seq(Nat \cup {Empty})
<1> DEFINE Word == Nat \cup {Empty}
           F    == ClassOf(obj.type).fields
<1>1. obj.type \in Types /\ obj.type \in Nat /\ obj.common.chainId \in Nat
  BY DEF Unsigned, Types
<1>2. F \in Seq(FieldNames)
  BY <1>1, ClassesWellFormed
<1>3. \A i \in DOMAIN F : Enc(obj[F[i]]) \in Word
  <2> HIDE DEF F
  <2> TAKE i \in DOMAIN F
  <2>1. F[i] \in FieldNames
    BY <1>2
  <2>2. obj[F[i]] \in Quantity
    BY <2>1 DEF Unsigned, FieldNames, NumberFields, Quantity
  <2>3. QED
    BY <2>2 DEF Enc, Quantity
<1>4. RawFields(obj) \in Seq(Word)
  <2>1. RawFields(obj) = [i \in DOMAIN F |-> Enc(obj[F[i]])]
    BY DEF RawFields
  <2> HIDE DEF F, Word
  <2>2. QED
    BY <1>2, <1>3, <2>1
<1>5. <<obj.type>> \in Seq(Word) /\ <<>> \in Seq(Word)
  BY <1>1
<1>6. <<obj.common.chainId, Empty, Empty>> \in Seq(Word)
  BY <1>1
<1> HIDE DEF Word
<1>7. GetMessageToSign(obj) \in Seq(Word)
  <2>1. CASE obj.type # 0
    BY <1>4, <1>5, <2>1, ConcatProperties DEF GetMessageToSign
  <2>2. CASE obj.type = 0
    BY <1>4, <1>5, <1>6, <2>2, ConcatProperties DEF GetMessageToSign
  <2>3. QED
    BY <2>1, <2>2
<1>8. QED
  BY <1>4, <1>7 DEF Word

(* A signature is none of the values that stand for its absence.           *)
LEMMA SignaturesArePresent ==
    ASSUME NEW message \in Seq(Nat \cup {Empty}), NEW key \in {Signer, Sponsor},
           NEW part \in {"r", "s"}, NEW recovery \in {0, 1}
    PROVE  /\ <<part, key, message, recovery>> # Null
           /\ <<part, key, message, recovery>> # Empty
<1>1. <<part, key, message, recovery>> \in SignatureParts
  BY DEF SignatureParts
<1>2. QED
  BY <1>1, ValuesAssumption

LEMMA Encodings ==
    /\ \A x : Enc(Enc(x)) = Enc(x) /\ Enc(DecNumber(Enc(x))) = Enc(x)
    /\ \A n \in Nat : DecNumber(Enc(n)) = n
    /\ \A n \in Nat \ {0} : DecOptional(Enc(n)) = n
    /\ \A x : x # Null /\ x # Empty => DecOptional(EncOptional(x)) = x
    /\ DecNumber(Empty) = 0 /\ DecOptional(Empty) = Null
<1>1. \A n \in Nat : n # Null /\ n # Empty
  BY ValuesAssumption
<1>2. QED
  BY <1>1 DEF Enc, DecNumber, DecOptional, EncOptional

(* What a reader of the serialized transaction finds: its fields, the      *)
(* signature, and the chain it commits to.                                 *)
Reads(raw, obj, signedObj) ==
    LET read   == FromSerializedData(raw)
        fields == ClassOf(obj.type).fields
    IN /\ raw.type = obj.type /\ read.type = obj.type
       /\ \A i \in DOMAIN fields : Enc(read[fields[i]]) = Enc(obj[fields[i]])
       /\ \A i \in DOMAIN fields :
             fields[i] \in NumberFields => read[fields[i]] = DecNumber(Enc(obj[fields[i]]))
       /\ \A i \in DOMAIN fields :
             fields[i] \in {"data", "accessList"} => read[fields[i]] = Enc(obj[fields[i]])
       /\ read.v = signedObj.v /\ read.r = signedObj.r /\ read.s = signedObj.s
       /\ obj.type = 64 => /\ read.pV = signedObj.pV /\ read.pR = signedObj.pR
                           /\ read.pS = signedObj.pS
       /\ read.common = [chainId |-> IF obj.type = 0 THEN Or(ChainIdOfV(read.v), 1)
                                     ELSE read.chainId,
                         hardfork |-> "merge"]

(* What is read of the words of a transaction, field by field.             *)
LEMMA ReadIs ==
    ASSUME NEW raw
    PROVE  LET read == FromSerializedData(raw) IN
           /\ read.type = raw.type
           /\ \A name \in NumberFields \ {"chainId"} : read[name] = DecNumber(ValueOf(raw, name))
           /\ raw.type # 0 => read.chainId = DecNumber(ValueOf(raw, "chainId"))
           /\ \A name \in {"data", "accessList"} : read[name] = ValueOf(raw, name)
           /\ read.v = IF raw.type # 0 THEN DecNumber(ValueOf(raw, "v"))
                       ELSE DecOptional(ValueOf(raw, "v"))
           /\ read.r = DecOptional(ValueOf(raw, "r")) /\ read.s = DecOptional(ValueOf(raw, "s"))
           /\ raw.type = 64 => /\ read.pV = DecNumber(ValueOf(raw, "pV"))
                               /\ read.pR = DecOptional(ValueOf(raw, "pR"))
                               /\ read.pS = DecOptional(ValueOf(raw, "pS"))
           /\ read.common = [chainId |-> IF raw.type = 0 THEN Or(ChainIdOfV(read.v), 1)
                                         ELSE read.chainId,
                             hardfork |-> "merge"]
<1> DEFINE read == FromSerializedData(raw)
<1>1. /\ read.type = raw.type
      /\ read.chainId = IF raw.type # 0 THEN DecNumber(ValueOf(raw, "chainId"))
                        ELSE Or(ChainIdOfV(DecOptional(ValueOf(raw, "v"))), 1)
      /\ read.common = [chainId |-> read.chainId, hardfork |-> "merge"]
  BY DEF FromSerializedData
<1>2. /\ read["nonce"] = DecNumber(ValueOf(raw, "nonce"))
      /\ read["gasPrice"] = DecNumber(ValueOf(raw, "gasPrice"))
      /\ read["gasLimit"] = DecNumber(ValueOf(raw, "gasLimit"))
  BY DEF FromSerializedData
<1>3. /\ read["maxPriorityFeePerGas"] = DecNumber(ValueOf(raw, "maxPriorityFeePerGas"))
      /\ read["maxFeePerGas"] = DecNumber(ValueOf(raw, "maxFeePerGas"))
  BY DEF FromSerializedData
<1>4. read["data"] = ValueOf(raw, "data") /\ read["accessList"] = ValueOf(raw, "accessList")
  BY DEF FromSerializedData
<1>5. /\ read.v = IF raw.type # 0 THEN DecNumber(ValueOf(raw, "v"))
                  ELSE DecOptional(ValueOf(raw, "v"))
      /\ read.r = DecOptional(ValueOf(raw, "r")) /\ read.s = DecOptional(ValueOf(raw, "s"))
  BY DEF FromSerializedData
<1>6. /\ read.pV = IF raw.type = 64 THEN DecNumber(ValueOf(raw, "pV")) ELSE Null
      /\ read.pR = DecOptional(ValueOf(raw, "pR")) /\ read.pS = DecOptional(ValueOf(raw, "pS"))
  BY DEF FromSerializedData
<1> HIDE DEF read
<1>7. \A name \in NumberFields \ {"chainId"} : read[name] = DecNumber(ValueOf(raw, name))
  BY <1>2, <1>3 DEF NumberFields
<1>8. \A name \in {"data", "accessList"} : read[name] = ValueOf(raw, name)
  BY <1>4
<1>9. QED
  BY <1>1, <1>5, <1>6, <1>7, <1>8 DEF read

LEMMA WhatIsRead ==
    ASSUME NEW obj, Unsigned(obj), NEW key \in {Signer, Sponsor}, NEW priorityKey,
           obj.type = 64 => priorityKey \in {Signer, Sponsor},
           NEW recovery \in {0, 1}, NEW pRecovery \in {0, 1}
    PROVE  LET signedObj == Sign(obj, key, priorityKey, recovery, pRecovery)
           IN Reads(Serialize(signedObj), obj, signedObj)
<1> DEFINE signedObj == Sign(obj, key, priorityKey, recovery, pRecovery)
           raw  == Serialize(signedObj)
           read == FromSerializedData(raw)
           F    == ClassOf(obj.type).fields
           G    == ClassOf(obj.type).signature
           message == GetMessageToSign(obj)
<1>1. /\ signedObj.type = obj.type
      /\ \A name \in FieldNames : signedObj[name] = obj[name]
      /\ signedObj.v = IF obj.type # 0 THEN recovery
                       ELSE IF ReplayProtected(obj)
                            THEN recovery + 2 * obj.common.chainId + 35
                       ELSE recovery + 27
      /\ signedObj.r = <<"r", key, message, recovery>>
      /\ signedObj.s = <<"s", key, message, recovery>>
      /\ obj.type = 64 =>
            /\ signedObj.pV = pRecovery
            /\ signedObj.pR = <<"r", priorityKey, message, pRecovery>>
            /\ signedObj.pS = <<"s", priorityKey, message, pRecovery>>
  BY WhatIsSigned
<1>2. obj.type \in Types /\ obj.common.chainId \in Nat
  BY DEF Unsigned
<1>3. message \in Seq(Nat \cup {Empty})
  BY MessageIsWords
<1>4. /\ signedObj.v \in Nat
      /\ (obj.type = 0 => signedObj.v # 0)
      /\ signedObj.r # Null /\ signedObj.r # Empty /\ signedObj.s # Null /\ signedObj.s # Empty
      /\ obj.type = 64 => /\ signedObj.pV \in Nat
                          /\ signedObj.pR # Null /\ signedObj.pR # Empty
                          /\ signedObj.pS # Null /\ signedObj.pS # Empty
  <2> HIDE DEF signedObj, message
  <2>1. signedObj.v \in Nat /\ (obj.type = 0 => signedObj.v # 0)
    BY <1>1, <1>2
  <2>2. /\ signedObj.r # Null /\ signedObj.r # Empty
        /\ signedObj.s # Null /\ signedObj.s # Empty
    BY <1>1, <1>3, SignaturesArePresent
  <2>3. ASSUME obj.type = 64
        PROVE  /\ signedObj.pR # Null /\ signedObj.pR # Empty
               /\ signedObj.pS # Null /\ signedObj.pS # Empty
    BY <1>1, <1>3, <2>3, SignaturesArePresent
  <2>4. QED
    BY <1>1, <2>1, <2>2, <2>3
<1> HIDE DEF signedObj, message
<1>5. /\ F \in Seq(FieldNames)
      /\ obj.type = 0 => \A i \in DOMAIN F : F[i] # "chainId"
      /\ obj.type # 64 => G = <<"v", "r", "s">>
      /\ obj.type = 64 => G = <<"v", "r", "s", "pV", "pR", "pS">>
  BY <1>2, ClassesWellFormed
<1>6. /\ raw.type = obj.type
      /\ \A i \in DOMAIN F : ValueOf(raw, F[i]) = Enc(signedObj[F[i]])
      /\ \A i \in DOMAIN G : ValueOf(raw, G[i]) = RawSignature(signedObj)[i]
  <2> HIDE DEF F, G, raw
  <2>1. signedObj.type \in Types
    BY <1>1, <1>2
  <2>2. /\ raw.type = signedObj.type
        /\ \A i \in DOMAIN ClassOf(signedObj.type).fields :
              ValueOf(raw, ClassOf(signedObj.type).fields[i])
                 = Enc(signedObj[ClassOf(signedObj.type).fields[i]])
        /\ \A i \in DOMAIN ClassOf(signedObj.type).signature :
              ValueOf(raw, ClassOf(signedObj.type).signature[i]) = RawSignature(signedObj)[i]
    BY <2>1, ReadBack DEF raw
  <2>3. QED
    BY <1>1, <2>2 DEF F, G
<1>7. RawSignature(signedObj) =
         [i \in DOMAIN G |-> IF G[i] \in {"v", "pV"} THEN Enc(signedObj[G[i]])
                             ELSE EncOptional(signedObj[G[i]])]
  BY <1>1 DEF RawSignature
<1> HIDE DEF raw, G
<1>8. /\ ValueOf(raw, "v") = Enc(signedObj.v)
      /\ ValueOf(raw, "r") = EncOptional(signedObj.r)
      /\ ValueOf(raw, "s") = EncOptional(signedObj.s)
      /\ obj.type = 64 => /\ ValueOf(raw, "pV") = Enc(signedObj.pV)
                          /\ ValueOf(raw, "pR") = EncOptional(signedObj.pR)
                          /\ ValueOf(raw, "pS") = EncOptional(signedObj.pS)
  <2>1. CASE obj.type # 64
    <3>1. DOMAIN G = 1 .. 3 /\ G[1] = "v" /\ G[2] = "r" /\ G[3] = "s"
      BY <1>5, <2>1
    <3>2. QED
      BY <1>6, <1>7, <2>1, <3>1
  <2>2. CASE obj.type = 64
    <3>1. /\ DOMAIN G = 1 .. 6 /\ G[1] = "v" /\ G[2] = "r" /\ G[3] = "s"
          /\ G[4] = "pV" /\ G[5] = "pR" /\ G[6] = "pS"
      BY <1>5, <2>2
    <3>2. QED
      BY <1>6, <1>7, <2>2, <3>1
  <2>3. QED
    BY <2>1, <2>2
<1>9. \A i \in DOMAIN F : F[i] \in FieldNames /\ ValueOf(raw, F[i]) = Enc(obj[F[i]])
  <2> HIDE DEF F
  <2>1. QED
    BY <1>1, <1>5, <1>6
<1>10. /\ read.type = obj.type
       /\ \A name \in NumberFields \ {"chainId"} : read[name] = DecNumber(ValueOf(raw, name))
       /\ obj.type # 0 => read.chainId = DecNumber(ValueOf(raw, "chainId"))
       /\ \A name \in {"data", "accessList"} : read[name] = ValueOf(raw, name)
       /\ read.v = IF obj.type # 0 THEN DecNumber(ValueOf(raw, "v")) ELSE DecOptional(ValueOf(raw, "v"))
       /\ read.r = DecOptional(ValueOf(raw, "r")) /\ read.s = DecOptional(ValueOf(raw, "s"))
       /\ obj.type = 64 => /\ read.pV = DecNumber(ValueOf(raw, "pV"))
                           /\ read.pR = DecOptional(ValueOf(raw, "pR"))
                           /\ read.pS = DecOptional(ValueOf(raw, "pS"))
       /\ read.common = [chainId |-> IF obj.type = 0 THEN Or(ChainIdOfV(read.v), 1)
                                     ELSE read.chainId,
                         hardfork |-> "merge"]
  BY <1>6, ReadIs
<1> HIDE DEF read
<1>11. /\ read.v = signedObj.v /\ read.r = signedObj.r /\ read.s = signedObj.s
       /\ obj.type = 64 => /\ read.pV = signedObj.pV /\ read.pR = signedObj.pR
                           /\ read.pS = signedObj.pS
  <2>1. read.v = signedObj.v
    BY <1>4, <1>8, <1>10, Encodings
  <2>2. read.r = signedObj.r /\ read.s = signedObj.s
    BY <1>4, <1>8, <1>10, Encodings
  <2>3. ASSUME obj.type = 64
        PROVE  read.pV = signedObj.pV /\ read.pR = signedObj.pR /\ read.pS = signedObj.pS
    BY <1>4, <1>8, <1>10, <2>3, Encodings
  <2>4. QED
    BY <2>1, <2>2, <2>3
<1>12. \A i \in DOMAIN F :
          /\ F[i] \in NumberFields => read[F[i]] = DecNumber(Enc(obj[F[i]]))
          /\ F[i] \in {"data", "accessList"} => read[F[i]] = Enc(obj[F[i]])
  <2> HIDE DEF F
  <2> TAKE i \in DOMAIN F
  <2>1. CASE F[i] \in NumberFields
    <3>1. F[i] = "chainId" => obj.type # 0
      BY <1>5
    <3>2. read[F[i]] = DecNumber(ValueOf(raw, F[i]))
      BY <1>10, <2>1, <3>1
    <3>3. F[i] \notin {"data", "accessList"}
      BY <2>1 DEF NumberFields
    <3>4. QED
      BY <1>9, <3>2, <3>3
  <2>2. CASE F[i] \in {"data", "accessList"}
    <3>1. F[i] \notin NumberFields
      BY <2>2 DEF NumberFields
    <3>2. read[F[i]] = ValueOf(raw, F[i])
      BY <1>10, <2>2
    <3>3. QED
      BY <1>9, <3>1, <3>2
  <2>3. QED
    BY <1>9, <2>1, <2>2 DEF FieldNames
<1>13. \A i \in DOMAIN F : Enc(read[F[i]]) = Enc(obj[F[i]])
  <2> HIDE DEF F
  <2>1. QED
    BY <1>9, <1>12, Encodings DEF FieldNames
<1>14. QED
  BY <1>6, <1>10, <1>11, <1>12, <1>13 DEF read, raw, signedObj, Reads

LEMMA HardforksKnown ==
    /\ IndexOf("homestead") = 1 /\ IndexOf("spuriousDragon") = 2 /\ IndexOf("berlin") = 3
    /\ IndexOf("london") = 4 /\ IndexOf("merge") = 5 /\ IndexOf("shanghai") = 6
    /\ \A hardfork \in KnownHardforks :
          /\ IndexOf(hardfork) \in 1 .. 6
          /\ hardfork = "berlin" <=> IndexOf(hardfork) = 3
BY DEF IndexOf, HardforksOrdered, KnownHardforks

(* The chain a legacy signature names.                                     *)
LEMMA ChainsOfSignatures ==
    /\ \A c \in Nat, recovery \in {0, 1} : ChainIdOfV(recovery + 2 * c + 35) = c
    /\ \A recovery \in {0, 1} : ChainIdOfV(recovery + 27) = Null
<1>1. ASSUME NEW c \in Nat
      PROVE  ChainIdOfV(0 + 2 * c + 35) = c
  <2>1. (2 * c + 35) - 35 = 2 * c /\ (2 * c) % 2 = 0 /\ (2 * c) \div 2 = c
    OBVIOUS
  <2>2. 0 + 2 * c + 35 = 2 * c + 35 /\ 2 * c + 35 \notin {27, 28}
    OBVIOUS
  <2>3. QED
    BY <2>1, <2>2 DEF ChainIdOfV
<1>2. ASSUME NEW c \in Nat
      PROVE  ChainIdOfV(1 + 2 * c + 35) = c
  <2>1. /\ (1 + 2 * c + 35) - 35 = 2 * c + 1 /\ (2 * c + 1) % 2 = 1
        /\ (1 + 2 * c + 35) - 36 = 2 * c /\ (2 * c) \div 2 = c
    OBVIOUS
  <2>2. 1 + 2 * c + 35 \notin {27, 28}
    OBVIOUS
  <2>3. QED
    BY <2>1, <2>2 DEF ChainIdOfV
<1>3. ChainIdOfV(0 + 27) = Null /\ ChainIdOfV(1 + 27) = Null
  BY DEF ChainIdOfV
<1>4. QED
  BY <1>1, <1>2, <1>3

LEMMA KeyRecovered ==
    ASSUME NEW key, NEW message, NEW recovery \in {0, 1}, NEW v, NEW chainId,
           \/ chainId = Null /\ v = recovery + 27
           \/ chainId # Null /\ chainId \in Nat /\ v = recovery + 2 * chainId + 35,
           NEW r, r = <<"r", key, message, recovery>>, NEW s, s = <<"s", key, message, recovery>>
    PROVE  EcRecover(message, v, r, s, chainId) = key
<1>1. r[2] = key /\ r[3] = message /\ r[4] = recovery
  OBVIOUS
<1>2. s = <<"s", r[2], r[3], r[4]>>
  BY <1>1
<1>3. v \notin {0, 1}
  OBVIOUS
<1>4. CASE chainId = Null /\ v = recovery + 27
  <2>1. v - 27 = recovery
    BY <1>4
  <2> HIDE <1>4
  <2>2. QED
    BY <1>1, <1>2, <1>3, <1>4, <2>1 DEF EcRecover
<1>5. CASE chainId # Null /\ chainId \in Nat /\ v = recovery + 2 * chainId + 35
  <2>1. v - (2 * chainId + 35) = recovery
    BY <1>5
  <2>2. QED
    BY <1>1, <1>2, <1>3, <1>5, <2>1 DEF EcRecover
<1>6. QED
  BY <1>4, <1>5

(* Whoever reads the serialized transaction finds the signer, and in a     *)
(* priority transaction the second key too.                                *)
LEMMA SenderFound ==
    ASSUME NEW obj, Unsigned(obj), NEW key \in {Signer, Sponsor}, NEW priorityKey,
           obj.type = 64 => priorityKey \in {Signer, Sponsor},
           NEW recovery \in {0, 1}, NEW pRecovery \in {0, 1}
    PROVE  LET raw  == Serialize(Sign(obj, key, priorityKey, recovery, pRecovery))
               read == FromSerializedData(raw)
           IN /\ raw.type = obj.type
              /\ RecoverTransaction(raw) = key
              /\ obj.type = 64 => IsSigned(read) /\ GetPriorityPublicKey(read) = priorityKey
              /\ obj.type = 0 => ChainIdOfV(read.v) = IF GteHardfork(obj.common.hardfork, "spuriousDragon")
                                                      THEN obj.common.chainId ELSE Null
<1> DEFINE signedObj == Sign(obj, key, priorityKey, recovery, pRecovery)
           raw  == Serialize(signedObj)
           read == FromSerializedData(raw)
           F    == ClassOf(obj.type).fields
           message == GetMessageToSign(obj)
           chain   == obj.common.chainId
<1>1. /\ signedObj.v = IF obj.type # 0 THEN recovery
                       ELSE IF ReplayProtected(obj) THEN recovery + 2 * chain + 35
                       ELSE recovery + 27
      /\ signedObj.r = <<"r", key, message, recovery>>
      /\ signedObj.s = <<"s", key, message, recovery>>
      /\ obj.type = 64 =>
            /\ signedObj.pV = pRecovery
            /\ signedObj.pR = <<"r", priorityKey, message, pRecovery>>
            /\ signedObj.pS = <<"s", priorityKey, message, pRecovery>>
  BY WhatIsSigned
<1>2. /\ raw.type = obj.type /\ read.type = obj.type
      /\ \A i \in DOMAIN F : Enc(read[F[i]]) = Enc(obj[F[i]])
      /\ read.v = signedObj.v /\ read.r = signedObj.r /\ read.s = signedObj.s
      /\ obj.type = 64 => /\ read.pV = signedObj.pV /\ read.pR = signedObj.pR
                          /\ read.pS = signedObj.pS
      /\ read.common = [chainId |-> IF obj.type = 0 THEN Or(ChainIdOfV(read.v), 1) ELSE read.chainId,
                        hardfork |-> "merge"]
  <2>1. Reads(raw, obj, signedObj)
    BY WhatIsRead
  <2> HIDE DEF raw, signedObj
  <2>2. QED
    BY <2>1 DEF Reads
<1>3. obj.type \in Types /\ chain \in Nat /\ chain # Null
  BY ValuesAssumption DEF Unsigned
<1>4. message \in Seq(Nat \cup {Empty})
  BY MessageIsWords
<1> HIDE DEF signedObj
<1>5. RawFields(read) = RawFields(obj)
  <2> HIDE DEF read
  <2>1. ClassOf(read.type).fields = F /\ ClassOf(obj.type).fields = F
    BY <1>2
  <2>2. /\ RawFields(read) = [i \in DOMAIN F |-> Enc(read[F[i]])]
        /\ RawFields(obj) = [i \in DOMAIN F |-> Enc(obj[F[i]])]
    BY <2>1 DEF RawFields
  <2> HIDE DEF F
  <2>3. QED
    BY <1>2, <2>2
<1>6. RecoverTransaction(raw) = GetSenderPublicKey(read)
  BY DEF RecoverTransaction
<1>7. /\ read.r # Null /\ read.s # Null
      /\ obj.type = 64 => read.pR # Null /\ read.pS # Null
  <2> HIDE DEF read, message
  <2>1. read.r # Null /\ read.s # Null
    BY <1>1, <1>2, <1>4, SignaturesArePresent
  <2>2. ASSUME obj.type = 64
        PROVE  read.pR # Null /\ read.pS # Null
    BY <1>1, <1>2, <1>4, <2>2, SignaturesArePresent
  <2>3. QED
    BY <2>1, <2>2
<1> HIDE DEF read, raw
<1>8. CASE obj.type # 0
  <2>1. GetMessageToSign(read) = message
    BY <1>2, <1>5, <1>8 DEF GetMessageToSign
  <2> HIDE DEF message
  <2>2. GetSenderPublicKey(read) = key
    <3>1. read.v + 27 = recovery + 27
      BY <1>1, <1>2, <1>8
    <3>2. EcRecover(message, read.v + 27, read.r, read.s, Null) = key
      BY <1>1, <1>2, <3>1, KeyRecovered
    <3>3. QED
      BY <1>2, <1>8, <2>1, <3>2 DEF GetSenderPublicKey
  <2>3. ASSUME obj.type = 64
        PROVE  GetPriorityPublicKey(read) = priorityKey
    <3>1. read.pV + 27 = pRecovery + 27
      BY <1>1, <1>2, <2>3
    <3>0. /\ read.pR = <<"r", priorityKey, message, pRecovery>>
          /\ read.pS = <<"s", priorityKey, message, pRecovery>>
      BY <1>1, <1>2, <2>3
    <3>2. EcRecover(message, read.pV + 27, read.pR, read.pS, Null) = priorityKey
      BY <3>0, <3>1, KeyRecovered
    <3>3. QED
      BY <2>1, <3>2 DEF GetPriorityPublicKey
  <2>4. ASSUME obj.type = 64
        PROVE  IsSigned(read)
    <3>1. ClassOf(read.type).signature = <<"v", "r", "s", "pV", "pR", "pS">>
      BY <1>2, <2>4, ClassesWellFormed DEF Types
    <3>2. read.v # Null /\ read.pV # Null
      BY <1>1, <1>2, <2>4, ValuesAssumption
    <3>3. QED
      BY <1>7, <2>4, <3>1, <3>2 DEF IsSigned
  <2>5. QED
    BY <1>2, <1>6, <1>8, <2>2, <2>3, <2>4 DEF read, raw, signedObj
<1>9. CASE obj.type = 0
  <2> DEFINE readChain == Or(ChainIdOfV(read.v), 1)
  <2>1. read.common.chainId = readChain /\ read.common.hardfork = "merge"
    BY <1>2, <1>9
  <2>2. IsSigned(read)
    <3>1. ClassOf(read.type).signature = <<"v", "r", "s">>
      BY <1>2, <1>9, ClassesWellFormed DEF Types
    <3>2. read.v # Null
      BY <1>1, <1>2, <1>3, <1>9, ValuesAssumption
    <3>3. QED
      BY <1>7, <3>1, <3>2 DEF IsSigned
  <2>3. ReplayProtected(read) <=> MeetsEIP155(read.v, readChain)
    BY <2>1, <2>2, HardforksKnown DEF ReplayProtected, GteHardfork
  <2>4. ReplayProtected(obj) <=> GteHardfork(obj.common.hardfork, "spuriousDragon")
    <3>1. ~ IsSigned(obj)
      <4>1. ClassOf(obj.type).signature = <<"v", "r", "s">>
        BY <1>9, ClassesWellFormed DEF Types
      <4>2. obj.v = Null
        BY DEF Unsigned
      <4>3. QED
        BY <4>1, <4>2 DEF IsSigned
    <3>2. QED
      BY <3>1 DEF ReplayProtected
  <2>5. CASE ReplayProtected(obj)
    <3>1. read.v = recovery + 2 * chain + 35
      BY <1>1, <1>2, <1>9, <2>5
    <3>2. ChainIdOfV(read.v) = chain
      BY <1>3, <3>1, ChainsOfSignatures
    <3>3. readChain = chain
      BY <1>3, <3>2 DEF Or
    <3>4. ReplayProtected(read)
      BY <1>3, <2>3, <3>1, <3>3 DEF MeetsEIP155
    <3>5. GetMessageToSign(read) = message
      BY <1>2, <1>5, <1>9, <2>1, <2>5, <3>3, <3>4 DEF GetMessageToSign
    <3> HIDE DEF message
    <3>7. EcRecover(message, read.v, read.r, read.s, chain) = key
      BY <1>1, <1>2, <1>3, <3>1, KeyRecovered
    <3>8. GetSenderPublicKey(read) = key
      BY <1>2, <1>9, <2>1, <3>3, <3>4, <3>5, <3>7 DEF GetSenderPublicKey
    <3>9. QED
      BY <1>2, <1>6, <1>9, <2>4, <2>5, <3>2, <3>8 DEF read, raw, signedObj
  <2>6. CASE ~ ReplayProtected(obj)
    <3>1. read.v = recovery + 27
      BY <1>1, <1>2, <1>9, <2>6
    <3>2. ChainIdOfV(read.v) = Null
      BY <3>1, ChainsOfSignatures
    <3>3. readChain = 1
      BY <3>2 DEF Or
    <3>4. ~ ReplayProtected(read)
      BY <2>3, <3>1, <3>3 DEF MeetsEIP155
    <3>5. GetMessageToSign(read) = message
      BY <1>2, <1>5, <1>9, <2>6, <3>4 DEF GetMessageToSign
    <3> HIDE DEF message
    <3>7. EcRecover(message, read.v, read.r, read.s, Null) = key
      BY <1>1, <1>2, <3>1, KeyRecovered
    <3>8. GetSenderPublicKey(read) = key
      BY <1>2, <1>9, <3>4, <3>5, <3>7 DEF GetSenderPublicKey
    <3>9. QED
      BY <1>2, <1>6, <1>9, <2>4, <2>6, <3>2, <3>8 DEF read, raw, signedObj
  <2>7. QED
    BY <2>5, <2>6
<1>10. QED
  BY <1>8, <1>9

---------------------------------------------------------------------------
(* What the validation says *)

LEMMA LeastNumber ==
    ASSUME NEW S, S \subseteq Nat, S # {}
    PROVE  Min(S) \in S /\ \A y \in S : Min(S) <= y
<1> DEFINE R == StrictSubsetOrdering(Nat)
           T == {1 .. n : n \in S}
<1>1. IsWellFoundedOn(R, FiniteSubsetsOf(Nat))
  BY FS_StrictSubsetOrderingWellFounded
<1>2. T \subseteq FiniteSubsetsOf(Nat)
  <2> SUFFICES ASSUME NEW n \in Nat
               PROVE  1 .. n \in FiniteSubsetsOf(Nat)
    OBVIOUS
  <2>1. 1 \in Int /\ n \in Int /\ 1 .. n \in SUBSET Nat
    OBVIOUS
  <2>2. IsFiniteSet(1 .. n)
    BY <2>1, FS_Interval
  <2>3. QED
    BY <2>1, <2>2 DEF FiniteSubsetsOf
<1>3. PICK x \in T : \A y \in T : ~ (<<y, x>> \in R)
  <2>1. T # {}
    OBVIOUS
  <2> HIDE DEF R, T
  <2>2. QED
    BY <1>1, <1>2, <2>1, WFMin
<1>4. PICK n \in S : x = 1 .. n
  OBVIOUS
<1>5. ASSUME NEW k \in S, k < n
      PROVE  FALSE
  <2>1. 1 .. k \subseteq 1 .. n /\ n \in 1 .. n /\ n \notin 1 .. k
    BY <1>5
  <2>2. <<1 .. k, x>> \in R
    BY <1>4, <2>1 DEF StrictSubsetOrdering
  <2>3. QED
    BY <1>3, <2>2
<1>6. \A k \in S : n <= k
  BY <1>5
<1>7. QED
  BY <1>6 DEF Min

(* A list of checks that all pass, and one each of which names an error.   *)
Passes(checks) == \A i \in DOMAIN checks : ~ checks[i].fails

Errors == {"ChainIdMismatchError", "CommonOrChainAndHardforkError", "MissingChainOrHardforkError",
           "ChainMismatchError", "HardforkMismatchError", "InvalidGasOrGasPrice",
           "UnsupportedFeeMarketError", "Eip1559GasPriceError",
           "InvalidMaxPriorityFeePerGasOrMaxFeePerGas", "MissingGasError",
           "TransactionGasMismatchError", "InvalidNonceOrChainIdError"}
Checks == [fails : BOOLEAN, error : Errors]

LEMMA ConcatenatedChecks ==
    ASSUME NEW a \in Seq(Checks), NEW b \in Seq(Checks)
    PROVE  a \o b \in Seq(Checks) /\ (Passes(a \o b) <=> Passes(a) /\ Passes(b))
<1>1. /\ a \o b \in Seq(Checks) /\ Len(a \o b) = Len(a) + Len(b)
      /\ \A i \in 1 .. Len(a) + Len(b) : (a \o b)[i] = IF i <= Len(a) THEN a[i] ELSE b[i - Len(a)]
  BY ConcatProperties
<1>2. Len(a) \in Nat /\ DOMAIN a = 1 .. Len(a) /\ Len(b) \in Nat /\ DOMAIN b = 1 .. Len(b)
  OBVIOUS
<1> DEFINE c == a \o b
<1>3. DOMAIN c = 1 .. Len(a) + Len(b)
  BY <1>1
<1>4. c \in Seq(Checks) /\ \A i \in 1 .. Len(a) + Len(b) : c[i] = IF i <= Len(a) THEN a[i] ELSE b[i - Len(a)]
  BY <1>1
<1> HIDE DEF c
<1>5. ASSUME Passes(c)
      PROVE  Passes(a) /\ Passes(b)
  <2>1. ASSUME NEW i \in 1 .. Len(a)
        PROVE  ~ a[i].fails
    <3>1. i \in 1 .. Len(a) + Len(b) /\ i <= Len(a)
      BY <1>2
    <3>2. QED
      BY <1>3, <1>4, <1>5, <3>1 DEF Passes
  <2>2. ASSUME NEW i \in 1 .. Len(b)
        PROVE  ~ b[i].fails
    <3>1. /\ Len(a) + i \in 1 .. Len(a) + Len(b) /\ ~ (Len(a) + i <= Len(a))
          /\ (Len(a) + i) - Len(a) = i
      BY <1>2
    <3>2. QED
      BY <1>3, <1>4, <1>5, <3>1 DEF Passes
  <2>3. QED
    BY <1>2, <2>1, <2>2 DEF Passes
<1>6. ASSUME Passes(a), Passes(b)
      PROVE  Passes(c)
  <2> SUFFICES ASSUME NEW i \in 1 .. Len(a) + Len(b)
               PROVE  ~ c[i].fails
    BY <1>3 DEF Passes
  <2>1. CASE i <= Len(a)
    BY <1>2, <1>4, <1>6, <2>1 DEF Passes
  <2>2. CASE ~ (i <= Len(a))
    <3>1. i - Len(a) \in 1 .. Len(b)
      BY <1>2, <2>2
    <3>2. QED
      BY <1>2, <1>4, <1>6, <2>2, <3>1 DEF Passes
  <2>3. QED
    BY <2>1, <2>2
<1>7. QED
  BY <1>4, <1>5, <1>6 DEF c

LEMMA NoErrorMeansPasses ==
    ASSUME NEW checks \in Seq(Checks)
    PROVE  /\ FirstError(checks) = "none" <=> Passes(checks)
           /\ FirstError(checks) \in Errors \cup {"none"}
<1> DEFINE failing == {i \in DOMAIN checks : checks[i].fails}
<1>1. FirstError(checks) = IF failing = {} THEN "none" ELSE checks[Min(failing)].error
  BY DEF FirstError
<1>2. failing = {} <=> Passes(checks)
  BY DEF Passes
<1>3. ASSUME failing # {}
      PROVE  checks[Min(failing)].error \in Errors
  <2>1. failing \subseteq Nat
    OBVIOUS
  <2>2. failing \subseteq DOMAIN checks
    OBVIOUS
  <2> HIDE DEF failing
  <2>3. Min(failing) \in DOMAIN checks
    BY <1>3, <2>1, <2>2, LeastNumber
  <2>4. checks[Min(failing)] \in Checks
    BY <2>3
  <2>5. QED
    BY <2>4 DEF Checks
<1>4. QED
  BY <1>1, <1>2, <1>3 DEF Errors

LEMMA CheckListed ==
    ASSUME NEW fails \in BOOLEAN, NEW error \in Errors
    PROVE  Check(fails, error) \in Checks
BY DEF Check, Checks

(* The validation, spelled out.                                            *)
ChainsAgree(t) ==
    LET common == Or(t.common, [chainId |-> Null, hardfork |-> Null, baseChain |-> Null])
    IN /\ ~ Mismatch(t.chainId, common.chainId)
       /\ ~ (t.common # Null /\ t.chain # Null /\ t.hardfork # Null)
       /\ (t.chain = Null) = (t.hardfork = Null)
       /\ ~ Mismatch(t.chain, common.baseChain)
       /\ ~ Mismatch(t.hardfork, common.hardfork)
LegacyGas(t) == t.gas # Null /\ t.gasPrice # Null
FeeMarketGas(t) == t.gas # Null /\ t.maxFeePerGas # Null /\ t.maxPriorityFeePerGas # Null
LegacyGasFits(t) == LegacyGas(t) /\ ~ FeeMarketFields(t)
FeeMarketGasFits(t) ==
    /\ ~ (t.gasPrice # Null /\ t.type = 2)
    /\ t.type \notin {0, 1}
    /\ t.maxFeePerGas # Null /\ t.maxPriorityFeePerGas # Null
GasFits(t) ==
    /\ LegacyGas(t) \/ FeeMarketGas(t)
    /\ ~ (LegacyGas(t) /\ FeeMarketGas(t))
    /\ IF LegacyGas(t) THEN LegacyGasFits(t) ELSE FeeMarketGasFits(t)
    /\ IF t.type # Null /\ t.type > 1 THEN FeeMarketGasFits(t) ELSE LegacyGasFits(t)

LEMMA ChainChecksPass ==
    ASSUME NEW t
    PROVE  ChainChecks(t) \in Seq(Checks) /\ (Passes(ChainChecks(t)) <=> ChainsAgree(t))
<1> DEFINE common == Or(t.common, [chainId |-> Null, hardfork |-> Null, baseChain |-> Null])
           c1 == Check(Mismatch(t.chainId, common.chainId), "ChainIdMismatchError")
           c2 == Check(t.common # Null /\ t.chain # Null /\ t.hardfork # Null,
                       "CommonOrChainAndHardforkError")
           c3 == Check((t.chain = Null) # (t.hardfork = Null), "MissingChainOrHardforkError")
           c4 == Check(Mismatch(t.chain, common.baseChain), "ChainMismatchError")
           c5 == Check(Mismatch(t.hardfork, common.hardfork), "HardforkMismatchError")
<1>1. c1 \in Checks /\ c2 \in Checks /\ c3 \in Checks /\ c4 \in Checks /\ c5 \in Checks
  BY CheckListed DEF Errors, Mismatch
<1>2. ChainChecks(t) = <<c1, c2, c3, c4, c5>>
  BY DEF ChainChecks
<1>3. c1.fails <=> Mismatch(t.chainId, common.chainId)
  BY DEF Check
<1>4. c2.fails <=> t.common # Null /\ t.chain # Null /\ t.hardfork # Null
  BY DEF Check
<1>5. c3.fails <=> (t.chain = Null) # (t.hardfork = Null)
  BY DEF Check
<1>6. c4.fails <=> Mismatch(t.chain, common.baseChain)
  BY DEF Check
<1>7. c5.fails <=> Mismatch(t.hardfork, common.hardfork)
  BY DEF Check
<1>8. ChainsAgree(t) <=> ~ c1.fails /\ ~ c2.fails /\ ~ c3.fails /\ ~ c4.fails /\ ~ c5.fails
  BY <1>3, <1>4, <1>5, <1>6, <1>7 DEF ChainsAgree
<1> HIDE DEF c1, c2, c3, c4, c5
<1>9. <<c1, c2, c3, c4, c5>> \in Seq(Checks)
  BY <1>1
<1>10. Passes(<<c1, c2, c3, c4, c5>>) <=>
          ~ c1.fails /\ ~ c2.fails /\ ~ c3.fails /\ ~ c4.fails /\ ~ c5.fails
  BY DEF Passes
<1>11. QED
  BY <1>2, <1>8, <1>9, <1>10

LEMMA LegacyGasChecksPass ==
    ASSUME NEW t
    PROVE  /\ LegacyGasChecks(t) \in Seq(Checks)
           /\ Passes(LegacyGasChecks(t)) <=> LegacyGasFits(t)
<1> DEFINE c1 == Check(t.gas = Null \/ t.gasPrice = Null, "InvalidGasOrGasPrice")
           c2 == Check(FeeMarketFields(t), "UnsupportedFeeMarketError")
<1>1. c1 \in Checks /\ c2 \in Checks
  BY CheckListed DEF Errors, FeeMarketFields
<1>2. LegacyGasChecks(t) = <<c1, c2>>
  BY DEF LegacyGasChecks
<1>3. (c1.fails <=> t.gas = Null \/ t.gasPrice = Null) /\ (c2.fails <=> FeeMarketFields(t))
  BY DEF Check
<1>4. LegacyGasFits(t) <=> ~ c1.fails /\ ~ c2.fails
  BY <1>3 DEF LegacyGasFits, LegacyGas
<1> HIDE DEF c1, c2
<1>5. <<c1, c2>> \in Seq(Checks)
  BY <1>1
<1>6. Passes(<<c1, c2>>) <=> ~ c1.fails /\ ~ c2.fails
  BY DEF Passes
<1>7. QED
  BY <1>2, <1>4, <1>5, <1>6

LEMMA FeeMarketGasChecksPass ==
    ASSUME NEW t
    PROVE  /\ FeeMarketGasChecks(t) \in Seq(Checks)
           /\ Passes(FeeMarketGasChecks(t)) <=> FeeMarketGasFits(t)
<1> DEFINE c1 == Check(t.gasPrice # Null /\ t.type = 2, "Eip1559GasPriceError")
           c2 == Check(t.type \in {0, 1}, "UnsupportedFeeMarketError")
           c3 == Check(t.maxFeePerGas = Null \/ t.maxPriorityFeePerGas = Null,
                       "InvalidMaxPriorityFeePerGasOrMaxFeePerGas")
<1>1. c1 \in Checks /\ c2 \in Checks /\ c3 \in Checks
  <2>1. c1 \in Checks
    BY CheckListed DEF Errors
  <2>2. c2 \in Checks
    BY DEF Check, Checks, Errors
  <2>3. c3 \in Checks
    BY CheckListed DEF Errors
  <2>4. QED
    BY <2>1, <2>2, <2>3
<1>2. FeeMarketGasChecks(t) = <<c1, c2, c3>>
  BY DEF FeeMarketGasChecks
<1>3. /\ c1.fails <=> t.gasPrice # Null /\ t.type = 2
      /\ c2.fails <=> t.type \in {0, 1}
      /\ c3.fails <=> t.maxFeePerGas = Null \/ t.maxPriorityFeePerGas = Null
  BY DEF Check
<1>4. FeeMarketGasFits(t) <=> ~ c1.fails /\ ~ c2.fails /\ ~ c3.fails
  BY <1>3 DEF FeeMarketGasFits
<1> HIDE DEF c1, c2, c3
<1>5. <<c1, c2, c3>> \in Seq(Checks)
  BY <1>1
<1>6. Passes(<<c1, c2, c3>>) <=> ~ c1.fails /\ ~ c2.fails /\ ~ c3.fails
  BY DEF Passes
<1>7. QED
  BY <1>2, <1>4, <1>5, <1>6

LEMMA GasChecksPass ==
    ASSUME NEW t
    PROVE  GasChecks(t) \in Seq(Checks) /\ (Passes(GasChecks(t)) <=> GasFits(t))
<1> DEFINE legacy    == t.gas # Null /\ t.gasPrice # Null
           feeMarket == t.gas # Null /\ t.maxFeePerGas # Null /\ t.maxPriorityFeePerGas # Null
           typed     == IF t.type = Null THEN FALSE ELSE t.type > 1
           c1 == Check(~legacy /\ ~feeMarket, "MissingGasError")
           c2 == Check(legacy /\ feeMarket, "TransactionGasMismatchError")
           byFields == IF legacy THEN LegacyGasChecks(t) ELSE FeeMarketGasChecks(t)
           byType   == IF typed THEN FeeMarketGasChecks(t) ELSE LegacyGasChecks(t)
<1>1. c1 \in Checks /\ c2 \in Checks
  BY CheckListed DEF Errors
<1>2. GasChecks(t) = <<c1, c2>> \o byFields \o byType
  BY DEF GasChecks
<1>3. (c1.fails <=> ~legacy /\ ~feeMarket) /\ (c2.fails <=> legacy /\ feeMarket)
  BY DEF Check
<1>4. /\ byFields \in Seq(Checks)
      /\ Passes(byFields) <=> IF legacy THEN LegacyGasFits(t) ELSE FeeMarketGasFits(t)
  BY LegacyGasChecksPass, FeeMarketGasChecksPass
<1>5. /\ byType \in Seq(Checks)
      /\ Passes(byType) <=> IF typed THEN FeeMarketGasFits(t) ELSE LegacyGasFits(t)
  BY LegacyGasChecksPass, FeeMarketGasChecksPass
<1>6. GasFits(t) <=> ~ c1.fails /\ ~ c2.fails /\ Passes(byFields) /\ Passes(byType)
  BY <1>3, <1>4, <1>5 DEF GasFits, LegacyGas, FeeMarketGas
<1> HIDE DEF c1, c2, byFields, byType
<1>7. <<c1, c2>> \in Seq(Checks)
  BY <1>1
<1>8. Passes(<<c1, c2>>) <=> ~ c1.fails /\ ~ c2.fails
  BY DEF Passes
<1> DEFINE first == <<c1, c2>>
<1>9. first \in Seq(Checks) /\ (Passes(first) <=> ~ c1.fails /\ ~ c2.fails)
  BY <1>7, <1>8
<1>10. GasChecks(t) = first \o byFields \o byType
  BY <1>2
<1> HIDE DEF first
<1>11. /\ first \o byFields \in Seq(Checks)
       /\ Passes(first \o byFields) <=> Passes(first) /\ Passes(byFields)
  BY <1>4, <1>9, ConcatenatedChecks
<1>12. /\ (first \o byFields) \o byType \in Seq(Checks)
       /\ Passes((first \o byFields) \o byType) <=> Passes(first \o byFields) /\ Passes(byType)
  BY <1>5, <1>11, ConcatenatedChecks
<1>13. QED
  BY <1>6, <1>9, <1>10, <1>11, <1>12

LEMMA ValidationSays ==
    ASSUME NEW t
    PROVE  /\ ValidateTransactionForSigning(t) = "none"
                 <=> ChainsAgree(t) /\ GasFits(t) /\ t.nonce # Null /\ t.chainId # Null
           /\ ValidateTransactionForSigning(t) \in Errors \cup {"none"}
<1> DEFINE last == <<Check(t.nonce = Null \/ t.chainId = Null, "InvalidNonceOrChainIdError")>>
           chains == ChainChecks(t)
           gas    == GasChecks(t)
<1>1. last \in Seq(Checks) /\ (Passes(last) <=> t.nonce # Null /\ t.chainId # Null)
  <2> DEFINE c == Check(t.nonce = Null \/ t.chainId = Null, "InvalidNonceOrChainIdError")
  <2>1. c \in Checks
    BY CheckListed DEF Errors
  <2>2. c.fails <=> t.nonce = Null \/ t.chainId = Null
    BY DEF Check
  <2>3. last = <<c>>
    OBVIOUS
  <2> HIDE DEF c, last
  <2>4. <<c>> \in Seq(Checks) /\ (Passes(<<c>>) <=> ~ c.fails)
    BY <2>1 DEF Passes
  <2>5. QED
    BY <2>2, <2>3, <2>4
<1>2. ValidateTransactionForSigning(t) = FirstError(chains \o gas \o last)
  BY DEF ValidateTransactionForSigning
<1>3. chains \in Seq(Checks) /\ (Passes(chains) <=> ChainsAgree(t))
  BY ChainChecksPass
<1>4. gas \in Seq(Checks) /\ (Passes(gas) <=> GasFits(t))
  BY GasChecksPass
<1> HIDE DEF last, chains, gas
<1>5. chains \o gas \in Seq(Checks) /\ (Passes(chains \o gas) <=> Passes(chains) /\ Passes(gas))
  BY <1>3, <1>4, ConcatenatedChecks
<1>6. /\ (chains \o gas) \o last \in Seq(Checks)
      /\ Passes((chains \o gas) \o last) <=> Passes(chains \o gas) /\ Passes(last)
  BY <1>1, <1>5, ConcatenatedChecks
<1>7. /\ FirstError((chains \o gas) \o last) = "none" <=> Passes((chains \o gas) \o last)
      /\ FirstError((chains \o gas) \o last) \in Errors \cup {"none"}
  BY <1>6, NoErrorMeansPasses
<1>8. QED
  BY <1>1, <1>2, <1>3, <1>4, <1>5, <1>6, <1>7

---------------------------------------------------------------------------
(* What filling keeps of the transaction that was asked for, and what its  *)
(* prices are: the program's, or the library's for one that named none.    *)

SamePrices(t, u) ==
    /\ u.gasPrice = t.gasPrice
    /\ u.maxFeePerGas = t.maxFeePerGas
    /\ u.maxPriorityFeePerGas = t.maxPriorityFeePerGas

SameBody(t, u) ==
    \A name \in {"type", "accessList", "hardfork", "chain", "common", "nonce", "chainId", "from"} :
       u[name] = t[name]

LegacyPriced(asked, t) ==
    /\ asked.gasPrice = Null /\ asked.maxFeePerGas = Null
    /\ t.gasPrice = NodeGasPrice /\ ~ FeeMarketFields(t)

FeeMarketPriced(asked, t) ==
    /\ asked.gasPrice = Null /\ t.gasPrice = Null
    /\ t.maxPriorityFeePerGas \in Nat
    /\ \E baseFee \in BaseFees \ {Null} :
          t.maxFeePerGas = Or(asked.maxFeePerGas, 2 * baseFee + t.maxPriorityFeePerGas)

Priced(asked, t) == SamePrices(asked, t) \/ LegacyPriced(asked, t) \/ FeeMarketPriced(asked, t)

Kept(asked, t) ==
    /\ IsTransaction(t)
    /\ asked.type # Null => t.type = asked.type
    /\ asked.nonce # Null => t.nonce = asked.nonce
    /\ t.data = asked.data
    /\ t.input = asked.input \/ (asked.data = Null /\ asked.input = Null /\ t.input = 0)
    /\ asked.accessList # Null => t.accessList = asked.accessList
    /\ t.chainId = Or(asked.chainId, NodeChainId) \/ (asked.chainId = Null /\ t.chainId = Null)
    /\ \/ Or(t.gasLimit, t.gas) = Or(asked.gasLimit, asked.gas)
       \/ Or(t.gasLimit, t.gas) = Or(asked.gasLimit, Or(asked.gas, NodeGas))

(* A legacy transaction has no access list to lose.                        *)
FitsItsType(t) == Or(t.type, 0) = 0 => t.accessList = Null

LEMMA Absent ==
    /\ Null \notin Nat /\ Null \notin KnownHardforks
    /\ \A v, w : Or(v, w) = v \/ (v = Null /\ Or(v, w) = w)
    /\ \A v \in Quantity, w \in Quantity : Or(v, w) \in Quantity
    /\ \A v \in Quantity, w \in Nat : Or(v, w) \in Nat
BY ValuesAssumption DEF Or, Quantity

LEMMA SamePricesPriced ==
    ASSUME NEW asked, NEW t, NEW u, SamePrices(t, u)
    PROVE  /\ Priced(asked, t) => Priced(asked, u)
           /\ SamePrices(asked, t) => SamePrices(asked, u)
BY DEF SamePrices, Priced, LegacyPriced, FeeMarketPriced, FeeMarketFields

LEMMA FormattedKeeps ==
    ASSUME NEW asked, NEW t, Kept(asked, t)
    PROVE  /\ Kept(asked, Formatted(t)) /\ SamePrices(t, Formatted(t))
           /\ SameBody(t, Formatted(t))
           /\ FitsItsType(t) => FitsItsType(Formatted(t))
           /\ Formatted(t).gas = Or(t.gasLimit, t.gas) /\ Formatted(t).gasLimit = Null
<1> DEFINE u   == Formatted(t)
           gas == Or(t.gasLimit, t.gas)
<1>1. gas \in Quantity
  BY Absent DEF Kept, IsTransaction
<1> HIDE DEF gas
<1>2. /\ \A name \in {"type", "gasPrice", "maxFeePerGas", "maxPriorityFeePerGas", "accessList",
                      "chainId", "nonce", "data", "input", "hardfork", "chain", "common", "from"} :
            u[name] = t[name]
      /\ u.gas = gas /\ u.gasLimit = Null
      /\ IsTransaction(u)
  <2>1. u = [t EXCEPT !.gas = gas, !.gasLimit = Null]
    BY DEF Formatted, gas
  <2> HIDE DEF u
  <2>2. QED
    BY <1>1, <2>1 DEF Kept, IsTransaction, Quantity
<1> HIDE DEF u
<1>3. Or(u.gasLimit, u.gas) = Or(t.gasLimit, t.gas)
  BY <1>2 DEF Or, gas
<1>4. Kept(asked, u)
  BY <1>2, <1>3 DEF Kept
<1>5. QED
  BY <1>2, <1>4 DEF u, gas, SamePrices, SameBody, FitsItsType

LEMMA FilledKeeps ==
    ASSUME NEW asked, NEW t, Kept(asked, t), NEW ctx \in Contexts
    PROVE  /\ \A from : LET u == [t EXCEPT !.from = from]
                        IN Kept(asked, u) /\ SamePrices(t, u)
           /\ Kept(asked, FilledFrom(t, ctx)) /\ SamePrices(t, FilledFrom(t, ctx))
           /\ Kept(asked, FilledInput(t)) /\ SamePrices(t, FilledInput(t))
           /\ Kept(asked, FilledChain(t, ctx)) /\ SamePrices(t, FilledChain(t, ctx))
           /\ t.nonce = Null => LET u == [t EXCEPT !.nonce = NodeNonce]
                                IN Kept(asked, u) /\ SamePrices(t, u)
           /\ t.chainId = Null => LET u == [t EXCEPT !.chainId = NodeChainId]
                                  IN Kept(asked, u) /\ SamePrices(t, u)
           /\ \A networkId \in Quantity : LET u == [t EXCEPT !.networkId = networkId]
                                          IN Kept(asked, u) /\ SamePrices(t, u)
<1>1. ASSUME NEW from
      PROVE  LET u == [t EXCEPT !.from = from] IN Kept(asked, u) /\ SamePrices(t, u)
  BY DEF Kept, IsTransaction, SamePrices
<1>2. Kept(asked, FilledFrom(t, ctx)) /\ SamePrices(t, FilledFrom(t, ctx))
  BY <1>1 DEF FilledFrom
<1>3. Kept(asked, FilledInput(t)) /\ SamePrices(t, FilledInput(t))
  BY DEF Kept, IsTransaction, SamePrices, FilledInput, Quantity
<1>4. Kept(asked, FilledChain(t, ctx)) /\ SamePrices(t, FilledChain(t, ctx))
  <2>1. /\ ctx.defaultHardfork \in KnownHardforks
        /\ ctx.defaultCommon # Null => /\ ctx.defaultCommon.chainId \in Nat
                                        /\ ctx.defaultCommon.networkId \in Quantity
    BY ProgramAssumption
  <2>2. Or(t.hardfork, ctx.defaultHardfork) \in KnownHardforks \cup {Null}
    BY <2>1 DEF Or, Kept, IsTransaction
  <2>3. CASE t.common # Null
    BY <2>3 DEF SamePrices, FilledChain
  <2>4. CASE t.common = Null
    <3> DEFINE u == [t EXCEPT !.common = ctx.defaultCommon, !.chain = Or(t.chain, ctx.defaultChain),
                              !.hardfork = Or(t.hardfork, ctx.defaultHardfork)]
    <3>1. /\ IsTransaction(u)
          /\ \A name \in {"type", "gasPrice", "maxFeePerGas", "maxPriorityFeePerGas", "accessList",
                          "chainId", "nonce", "data", "input", "gas", "gasLimit"} :
                u[name] = t[name]
      BY <2>1, <2>2 DEF Kept, IsTransaction
    <3>2. FilledChain(t, ctx) = u
      BY <2>4 DEF FilledChain
    <3> HIDE DEF u
    <3>3. QED
      BY <3>1, <3>2 DEF Kept, SamePrices
  <2>5. QED
    BY <2>3, <2>4
<1>5. ASSUME t.nonce = Null
      PROVE  LET u == [t EXCEPT !.nonce = NodeNonce] IN Kept(asked, u) /\ SamePrices(t, u)
  BY <1>5, NodeAssumption DEF Kept, IsTransaction, SamePrices, Quantity
<1>6. ASSUME t.chainId = Null
      PROVE  LET u == [t EXCEPT !.chainId = NodeChainId] IN Kept(asked, u) /\ SamePrices(t, u)
  BY <1>6, NodeAssumption DEF Kept, IsTransaction, SamePrices, Quantity, Or
<1>7. ASSUME NEW networkId \in Quantity
      PROVE  LET u == [t EXCEPT !.networkId = networkId] IN Kept(asked, u) /\ SamePrices(t, u)
  BY DEF Kept, IsTransaction, SamePrices, Quantity
<1>8. QED
  BY <1>1, <1>2, <1>3, <1>4, <1>5, <1>6, <1>7

LEMMA EstimatedKeeps ==
    ASSUME NEW asked, NEW t, Kept(asked, t), t.gas = Null, t.gasLimit = Null
    PROVE  LET u == [t EXCEPT !.gas = NodeGas]
           IN /\ Kept(asked, u) /\ SamePrices(t, u) /\ SameBody(t, u)
              /\ FitsItsType(t) => FitsItsType(u)
              /\ Or(u.gasLimit, u.gas) # Null
<1> DEFINE u == [t EXCEPT !.gas = NodeGas]
<1>1. /\ IsTransaction(u) /\ u.gas = NodeGas /\ u.gasLimit = Null
      /\ \A name \in {"type", "gasPrice", "maxFeePerGas", "maxPriorityFeePerGas", "accessList",
                      "chainId", "nonce", "data", "input", "hardfork", "chain", "common", "from"} :
            u[name] = t[name]
  BY NodeAssumption DEF Kept, IsTransaction, Quantity
<1> HIDE DEF u
<1>2. Or(u.gasLimit, u.gas) = Or(asked.gasLimit, Or(asked.gas, NodeGas))
  <2>1. Or(t.gasLimit, t.gas) = Null
    BY DEF Or
  <2>2. NodeGas # Null
    BY NodeAssumption, Absent
  <2>3. asked.gasLimit = Null /\ asked.gas = Null
    BY <2>1, <2>2 DEF Kept, Or
  <2>4. QED
    BY <1>1, <2>3 DEF Or
<1>3. Kept(asked, u)
  BY <1>1, <1>2 DEF Kept
<1>4. Or(u.gasLimit, u.gas) # Null
  BY <1>1, NodeAssumption, Absent DEF Or
<1>5. QED
  BY <1>1, <1>3, <1>4 DEF u, SamePrices, SameBody, FitsItsType

(* The type that is filled in is one that the transaction fits.            *)
LEMMA FilledTypeKeeps ==
    ASSUME NEW asked, NEW t, Kept(asked, t), NEW ctx \in Contexts, ~ TypeRefused(t)
    PROVE  LET u == FilledType(t, ctx)
           IN /\ Kept(asked, u) /\ SamePrices(t, u) /\ FitsItsType(u)
<1> DEFINE u    == FilledType(t, ctx)
           type == GetTransactionType(t, ctx)
<1>1. DetectTransactionType(t) \in Quantity
  BY DEF DetectTransactionType, HardforkType, Quantity, Kept, IsTransaction
<1>2. type \in Quantity /\ (t.type # Null => type = t.type)
  BY <1>1, Absent, ProgramAssumption DEF GetTransactionType, DetectTransactionType, Or
<1>3. Or(type, 0) = 0 => t.accessList = Null
  <2>1. CASE t.type # Null
    BY <1>2, <2>1, Absent DEF TypeRefused, FitsType, DetectTransactionType, Or
  <2>2. CASE t.type = Null /\ t.accessList # Null
    <3>1. DetectTransactionType(t) \in {1, 2}
      BY <2>2 DEF DetectTransactionType
    <3>2. type \in {1, 2}
      BY <3>1, Absent DEF GetTransactionType, Or
    <3>3. QED
      BY <3>2, Absent DEF Or
  <2>3. QED
    BY <2>1, <2>2
<1> DEFINE list == IF type \in {1, 2} THEN Or(t.accessList, 0) ELSE t.accessList
           gas  == Or(t.gasLimit, t.gas)
<1>4. u = [t EXCEPT !.gasLimit = gas, !.type = type, !.accessList = list]
  BY DEF FilledType
<1>5. list \in Quantity /\ gas \in Quantity
  <2>1. Or(t.accessList, 0) \in Quantity /\ t.accessList \in Quantity /\ gas \in Quantity
    BY Absent DEF Kept, IsTransaction, Quantity
  <2>2. QED
    BY <2>1
<1> HIDE DEF u, type, list, gas
<1>6. /\ \A name \in {"gasPrice", "maxFeePerGas", "maxPriorityFeePerGas", "chainId", "nonce", "data",
                      "input", "gas", "common"} : u[name] = t[name]
      /\ u.type = type /\ u.gasLimit = gas /\ u.accessList = list
      /\ IsTransaction(u)
  BY <1>2, <1>4, <1>5 DEF Kept, IsTransaction, Quantity
<1>7. Or(u.gasLimit, u.gas) = Or(t.gasLimit, t.gas)
  BY <1>6 DEF Or, gas
<1>8. FitsItsType(u)
  BY <1>3, <1>6, Absent DEF FitsItsType, Or, list
<1>9. Kept(asked, u)
  BY <1>2, <1>6, <1>7 DEF Kept, Or, list
<1>10. QED
  BY <1>6, <1>8, <1>9 DEF u, SamePrices

(* What each question about the price means, and what its answer does.     *)
LEMMA PricingQuestions ==
    ASSUME NEW t, NEW ctx, ~ PricingRefused(t, ctx)
    PROVE  /\ PricingQuestion(t, ctx) = "gasPrice" => t.gasPrice = Null /\ ~ FeeMarketFields(t)
           /\ PricingQuestion(t, ctx) = "block" => t.gasPrice = Null
<1> DEFINE type == GetTransactionType(t, ctx)
<1>1. ~ TypeRefused(t)
  BY DEF PricingRefused
<1>2. ASSUME PricingQuestion(t, ctx) = "gasPrice"
      PROVE  t.gasPrice = Null /\ ~ FeeMarketFields(t)
  <2>1. type \in {0, 1} /\ t.gasPrice = Null
    BY <1>2 DEF PricingQuestion
  <2>2. CASE t.type # Null
    BY <1>1, <2>1, <2>2, Absent DEF TypeRefused, FitsType, FeeMarketFields, GetTransactionType,
                                    DetectTransactionType, Or
  <2>3. CASE t.type = Null
    <3>1. FeeMarketFields(t) => DetectTransactionType(t) = 2
      BY <2>3 DEF DetectTransactionType
    <3>2. FeeMarketFields(t) => type = 2
      BY <3>1, Absent DEF GetTransactionType, Or
    <3>3. QED
      BY <2>1, <3>2
  <2>4. QED
    BY <2>2, <2>3
<1>3. ASSUME PricingQuestion(t, ctx) = "block"
      PROVE  t.gasPrice = Null
  <2>1. type = 2
    BY <1>3 DEF PricingQuestion
  <2>2. CASE t.type # Null \/ FeeMarketFields(t)
    <3>1. DetectTransactionType(t) # Null => DetectTransactionType(t) = 2
      BY <2>1, Absent DEF GetTransactionType, Or
    <3>2. DetectTransactionType(t) = 2
      BY <2>2, <3>1, Absent DEF DetectTransactionType
    <3>3. QED
      BY <1>1, <2>2, <3>2 DEF TypeRefused, FitsType
  <2>3. CASE t.type = Null /\ ~ FeeMarketFields(t) /\ t.gasPrice # Null
    <3>1. DetectTransactionType(t) \in {0, 1}
      BY <2>3, Absent DEF DetectTransactionType, HardforkType
    <3>2. QED
      BY <2>1, <3>1, Absent DEF GetTransactionType, Or
  <2>4. QED
    BY <2>2, <2>3
<1>4. QED
  BY <1>2, <1>3

WithPrices(t, price, cap, tip) ==
    [t EXCEPT !.gasPrice = price, !.maxFeePerGas = cap, !.maxPriorityFeePerGas = tip]
HasPrices(u, price, cap, tip) ==
    u.gasPrice = price /\ u.maxFeePerGas = cap /\ u.maxPriorityFeePerGas = tip

LEMMA Repriced ==
    ASSUME NEW asked, NEW t, Kept(asked, t),
           NEW price \in Quantity, NEW cap \in Quantity, NEW tip \in Quantity
    PROVE  /\ Kept(asked, WithPrices(t, price, cap, tip))
           /\ FitsItsType(t) => FitsItsType(WithPrices(t, price, cap, tip))
           /\ HasPrices(WithPrices(t, price, cap, tip), price, cap, tip)
           /\ SameBody(t, WithPrices(t, price, cap, tip))
<1> DEFINE u  == WithPrices(t, price, cap, tip)
           t1 == [t EXCEPT !.gasPrice = price]
           t2 == [t1 EXCEPT !.maxFeePerGas = cap]
           t3 == [t2 EXCEPT !.maxPriorityFeePerGas = tip]
           names == {"type", "accessList", "chainId", "nonce", "data", "input", "hardfork",
                     "chain", "common", "from", "gas", "gasLimit"}
<1>1. /\ IsTransaction(t1) /\ t1.gasPrice = price
      /\ \A name \in names : t1[name] = t[name]
  BY DEF Kept, IsTransaction
<1> HIDE DEF t1
<1>2. /\ IsTransaction(t2) /\ t2.gasPrice = price /\ t2.maxFeePerGas = cap
      /\ \A name \in names : t2[name] = t1[name]
  BY <1>1 DEF IsTransaction
<1> HIDE DEF t2
<1>3. /\ IsTransaction(t3) /\ t3.gasPrice = price /\ t3.maxFeePerGas = cap
      /\ t3.maxPriorityFeePerGas = tip
      /\ \A name \in names : t3[name] = t2[name]
  BY <1>2 DEF IsTransaction
<1>4. u = t3
  BY DEF t1, t2, WithPrices
<1> HIDE DEF t3, u
<1>5. /\ Kept(asked, u) /\ (FitsItsType(t) => FitsItsType(u)) /\ HasPrices(u, price, cap, tip)
      /\ SameBody(t, u)
  BY <1>1, <1>2, <1>3, <1>4 DEF Kept, FitsItsType, HasPrices, SameBody
<1>6. QED
  BY <1>5 DEF u

LEMMA AnsweredPrices ==
    ASSUME NEW asked, NEW t, Kept(asked, t), SamePrices(asked, t), t.gasPrice = Null
    PROVE  /\ ~ FeeMarketFields(t) =>
                 LET u == PricedLegacy(t, NodeGasPrice)
                 IN /\ Kept(asked, u) /\ LegacyPriced(asked, u) /\ (FitsItsType(t) => FitsItsType(u))
                    /\ SameBody(t, u)
           /\ \A ctx \in Contexts, baseFee \in BaseFees \ {Null} :
                 LET u == PricedFeeMarket(t, ctx, baseFee)
                 IN /\ Kept(asked, u) /\ FeeMarketPriced(asked, u) /\ (FitsItsType(t) => FitsItsType(u))
                    /\ SameBody(t, u)
                    /\ t.maxFeePerGas # Null => u.maxFeePerGas = t.maxFeePerGas
                    /\ t.maxPriorityFeePerGas # Null =>
                          u.maxPriorityFeePerGas = t.maxPriorityFeePerGas
<1>1. ASSUME ~ FeeMarketFields(t)
      PROVE  LET u == PricedLegacy(t, NodeGasPrice)
             IN /\ Kept(asked, u) /\ LegacyPriced(asked, u) /\ (FitsItsType(t) => FitsItsType(u))
                /\ SameBody(t, u)
  <2> DEFINE u == PricedLegacy(t, NodeGasPrice)
  <2>1. u = WithPrices(t, NodeGasPrice, Null, Null)
    BY DEF PricedLegacy, WithPrices
  <2> HIDE DEF u
  <2>2. /\ Kept(asked, u) /\ (FitsItsType(t) => FitsItsType(u)) /\ SameBody(t, u)
        /\ HasPrices(u, NodeGasPrice, Null, Null)
    <3>1. NodeGasPrice \in Quantity /\ Null \in Quantity
      BY NodeAssumption DEF Quantity
    <3>2. QED
      BY <2>1, <3>1, Repriced
  <2>3. QED
    BY <1>1, <2>2 DEF u, SamePrices, LegacyPriced, FeeMarketFields, HasPrices
<1>2. ASSUME NEW ctx \in Contexts, NEW baseFee \in BaseFees \ {Null}
      PROVE  LET u == PricedFeeMarket(t, ctx, baseFee)
             IN /\ Kept(asked, u) /\ FeeMarketPriced(asked, u) /\ (FitsItsType(t) => FitsItsType(u))
                /\ SameBody(t, u)
                /\ t.maxFeePerGas # Null => u.maxFeePerGas = t.maxFeePerGas
                /\ t.maxPriorityFeePerGas # Null =>
                      u.maxPriorityFeePerGas = t.maxPriorityFeePerGas
  <2> DEFINE u   == PricedFeeMarket(t, ctx, baseFee)
             tip == Or(t.maxPriorityFeePerGas, ctx.defaultMaxPriorityFeePerGas)
             cap == Or(t.maxFeePerGas, 2 * baseFee + tip)
  <2>1. u = WithPrices(t, Null, cap, tip)
    <3>1. u = [t EXCEPT !.gasPrice = Null, !.maxPriorityFeePerGas = tip, !.maxFeePerGas = cap]
      BY DEF PricedFeeMarket, Or
    <3> HIDE DEF tip, cap, u
    <3>2. QED
      BY <3>1 DEF Kept, IsTransaction, WithPrices
  <2>2. tip \in Nat
    BY Absent, ProgramAssumption DEF Kept, IsTransaction
  <2>3. baseFee \in Nat
    BY NodeAssumption DEF Quantity
  <2> HIDE DEF u, tip
  <2>4. cap \in Nat
    <3>1. 2 * baseFee + tip \in Nat /\ t.maxFeePerGas \in Quantity
      BY <2>2, <2>3 DEF Kept, IsTransaction
    <3>2. QED
      BY <3>1, Absent
  <2>5. cap = Or(asked.maxFeePerGas, 2 * baseFee + tip)
    BY DEF SamePrices
  <2> HIDE DEF cap
  <2>6. /\ Kept(asked, u) /\ (FitsItsType(t) => FitsItsType(u)) /\ SameBody(t, u)
        /\ HasPrices(u, Null, cap, tip)
    <3>1. Null \in Quantity /\ cap \in Quantity /\ tip \in Quantity
      BY <2>2, <2>4 DEF Quantity
    <3>2. QED
      BY <2>1, <3>1, Repriced
  <2>7. FeeMarketPriced(asked, u)
    BY <2>2, <2>5, <2>6 DEF FeeMarketPriced, SamePrices, HasPrices
  <2>8. QED
    BY <2>6, <2>7 DEF u, tip, cap, HasPrices, Or
<1>3. QED
  BY <1>1, <1>2

---------------------------------------------------------------------------
(* The invariant: what the transaction is at every question, and what has  *)
(* been checked of one that is signed.                                     *)

Stage(question, t) ==
    /\ question = "called" => SamePrices(Asked, t)
    /\ question \in {"gasPrice", "block", "call"} => Entry = "send"
    /\ question \in {"nonce", "chainId", "networkId"} /\ Entry # "send" => SamePrices(Asked, t)
    /\ question \in {"gasPrice", "block", "builderGasPrice", "builderBlock"} =>
          SamePrices(Asked, t) /\ t.gasPrice = Null
    /\ question \in {"gasPrice", "builderGasPrice"} => ~ FeeMarketFields(t)
    /\ question = "nonce" => t.nonce = Null
    /\ question = "chainId" => t.chainId = Null
    /\ question \in {"builderGasPrice", "builderBlock", "estimate"} => FitsItsType(t)
    /\ question = "estimate" => t.gas = Null /\ t.gasLimit = Null

Signable(t) ==
    /\ FitsItsType(t) /\ t.gasLimit = Null
    /\ ValidateTransactionForSigning(t) = "none"
    /\ ~ FactoryRefuses(TxData(t), TxData(t).common)
    /\ ~ SignRefuses(TxData(t), PriorityKey)
    /\ ~ LacksSignature(TxData(t))

SignedAs(t, bytes) ==
    \E recovery, pRecovery \in {0, 1} :
       bytes = Serialize(Sign(TxData(t), Signer, PriorityKey, recovery, pRecovery))

SigningInv ==
    /\ request \in Requests /\ config \in Contexts
    /\ Kept(Asked, tx) /\ Priced(Asked, tx)
    /\ Stage(at, tx)
    /\ at # "ended" => outcome = "pending"
    /\ outcome = "signed" => Signable(tx) /\ SignedAs(tx, signed)

LEMMA SigningInit == Init => SigningInv
<1> SUFFICES ASSUME Init
             PROVE  SigningInv
  OBVIOUS
<1>1. tx = Asked /\ request \in Requests /\ config \in Contexts /\ at = "called"
      /\ outcome = "pending"
  BY DEF Init, Asked
<1>2. Kept(Asked, tx)
  <2>1. IsTransaction(tx)
    BY <1>1, ProgramAssumption DEF Asked
  <2>2. tx.chainId = Or(tx.chainId, NodeChainId) \/ tx.chainId = Null
    BY DEF Or
  <2> DEFINE t == tx
  <2>3. t = Asked
    BY <1>1
  <2> HIDE DEF t
  <2>4. Kept(t, t)
    BY <2>1, <2>2 DEF Kept, t
  <2>5. QED
    BY <2>3, <2>4 DEF t
<1>3. Priced(Asked, tx) /\ Stage(at, tx)
  BY <1>1 DEF Priced, SamePrices, Stage
<1>4. QED
  BY <1>1, <1>2, <1>3 DEF SigningInv

(* A question, and an error, keep the invariant.                           *)
LEMMA AskKeeps ==
    ASSUME SigningInv, UNCHANGED context, outcome = "pending",
           NEW question, question # "ended", NEW t, Ask(question, t),
           Kept(Asked, t), Priced(Asked, t), Stage(question, t)
    PROVE  SigningInv'
<1>1. request' = request /\ config' = config /\ tx' = t /\ at' = question /\ outcome' = outcome
  BY DEF context, Ask
<1>2. Asked' = Asked /\ Entry' = Entry
  BY <1>1 DEF Asked, Entry
<1>3. Stage(at, tx)'
  BY <1>1, <1>2 DEF Stage
<1>4. QED
  BY <1>1, <1>2, <1>3 DEF SigningInv

LEMMA RejectKeeps ==
    ASSUME SigningInv, UNCHANGED context, NEW error, error # "signed", Reject(error)
    PROVE  SigningInv'
<1>1. request' = request /\ config' = config /\ tx' = tx /\ at' = "ended" /\ outcome' = error
  BY DEF context, Reject
<1>2. Asked' = Asked
  BY <1>1 DEF Asked
<1>3. Stage(at, tx)'
  BY <1>1 DEF Stage
<1>4. QED
  BY <1>1, <1>2, <1>3 DEF SigningInv

LEMMA PrepareKeeps ==
    ASSUME SigningInv, UNCHANGED context, NEW built, Prepare(built),
           Kept(Asked, built), Priced(Asked, built), FitsItsType(built)
    PROVE  SigningInv'
<1> DEFINE t   == Formatted(built)
           obj == TxData(t)
           error == ValidateTransactionForSigning(t)
<1>1. Kept(Asked, t) /\ Priced(Asked, t) /\ FitsItsType(t) /\ t.gasLimit = Null
  BY FormattedKeeps, SamePricesPriced
<1>2. error # "none" => error # "signed"
  BY ValidationSays DEF Errors
<1>3. IF error # "none" THEN Reject(error)
      ELSE IF FactoryRefuses(obj, obj.common) THEN Reject("FactoryError")
      ELSE SignObject(t, obj)
  BY DEF Prepare
<1> HIDE DEF t, error
<1>4. CASE \/ Reject("FactoryError") \/ Reject("PrivateKeyError")
           \/ Reject("TransactionSigningError") \/ Reject("EIP4895NotSupported")
           \/ (error # "none" /\ Reject(error))
  BY <1>2, <1>4, RejectKeeps
<1>5. ASSUME error = "none", ~ FactoryRefuses(obj, obj.common), ~ SignRefuses(obj, PriorityKey),
             ~ LacksSignature(obj),
             NEW recovery \in {0, 1}, NEW pRecovery \in {0, 1},
             Resolve(t, Serialize(Sign(obj, Signer, PriorityKey, recovery, pRecovery)))
      PROVE  SigningInv'
  <2>1. /\ request' = request /\ config' = config /\ tx' = t /\ at' = "ended" /\ outcome' = "signed"
        /\ signed' = Serialize(Sign(obj, Signer, PriorityKey, recovery, pRecovery))
    BY <1>5 DEF context, Resolve
  <2>2. Asked' = Asked /\ Entry' = Entry /\ PriorityKey' = PriorityKey
    BY <2>1 DEF Asked, Entry, PriorityKey
  <2>3. TxData(tx)' = obj
    BY <2>1 DEF TxData, SigningCommon, DefaultCommon
  <2> HIDE DEF obj
  <2>4. LacksSignature(TxData(tx))' <=> LacksSignature(obj)
    BY <2>2, <2>3 DEF LacksSignature
  <2>5. Signable(tx)'
    BY <1>1, <1>5, <2>1, <2>2, <2>3, <2>4 DEF Signable, error
  <2>6. SignedAs(tx, signed)'
    BY <2>1, <2>2, <2>3 DEF SignedAs
  <2>7. Stage(at, tx)'
    BY <2>1 DEF Stage
  <2>8. QED
    BY <1>1, <2>1, <2>2, <2>5, <2>6, <2>7 DEF SigningInv
<1>6. QED
  BY <1>3, <1>4, <1>5 DEF SignObject

LEMMA EstimateKeeps ==
    ASSUME SigningInv, UNCHANGED context, outcome = "pending", NEW t, EstimateOrPrepare(t),
           Kept(Asked, t), Priced(Asked, t), FitsItsType(t)
    PROVE  SigningInv'
<1>1. CASE t.gas = Null /\ t.gasLimit = Null
  <2>1. Ask("estimate", t)
    BY <1>1 DEF EstimateOrPrepare
  <2>2. Stage("estimate", t)
    BY <1>1 DEF Stage
  <2>3. QED
    BY <2>1, <2>2, AskKeeps
<1>2. CASE ~ (t.gas = Null /\ t.gasLimit = Null)
  BY <1>2, PrepareKeeps DEF EstimateOrPrepare
<1>3. QED
  BY <1>1, <1>2

LEMMA BuildTypeKeeps ==
    ASSUME SigningInv, UNCHANGED context, outcome = "pending", NEW t, BuildType(t),
           Kept(Asked, t), Priced(Asked, t), Entry # "send" => SamePrices(Asked, t)
    PROVE  SigningInv'
<1> DEFINE typed == FilledType(t, config)
<1>1. CASE TypeRefused(t)
  BY <1>1, RejectKeeps DEF BuildType
<1>2. CASE ~ TypeRefused(t)
  <2>1. config \in Contexts
    BY DEF SigningInv
  <2>2. Kept(Asked, typed) /\ SamePrices(t, typed) /\ FitsItsType(typed)
    BY <1>2, <2>1, FilledTypeKeeps
  <2>3. IF Entry # "prepare" THEN EstimateOrPrepare(typed)
        ELSE IF PricingRefused(typed, config) THEN Reject("UnsupportedTransactionTypeError")
        ELSE CASE PricingQuestion(typed, config) = "gasPrice" -> Ask("builderGasPrice", typed)
               [] PricingQuestion(typed, config) = "block"    -> Ask("builderBlock", typed)
               [] OTHER                                       -> EstimateOrPrepare(typed)
    BY <1>2 DEF BuildType
  <2> HIDE DEF typed
  <2>4. Priced(Asked, typed) /\ (Entry # "send" => SamePrices(Asked, typed))
    BY <2>2, SamePricesPriced
  <2>5. CASE EstimateOrPrepare(typed)
    BY <2>2, <2>4, <2>5, EstimateKeeps
  <2>6. CASE Reject("UnsupportedTransactionTypeError")
    BY <2>6, RejectKeeps
  <2>7. CASE /\ Entry = "prepare" /\ ~ PricingRefused(typed, config)
             /\ PricingQuestion(typed, config) = "gasPrice" /\ Ask("builderGasPrice", typed)
    <3>1. Stage("builderGasPrice", typed)
      BY <2>2, <2>4, <2>7, PricingQuestions DEF Stage
    <3>2. QED
      BY <2>2, <2>4, <2>7, <3>1, AskKeeps
  <2>8. CASE /\ Entry = "prepare" /\ ~ PricingRefused(typed, config)
             /\ PricingQuestion(typed, config) = "block" /\ Ask("builderBlock", typed)
    <3>1. Stage("builderBlock", typed)
      BY <2>2, <2>4, <2>8, PricingQuestions DEF Stage
    <3>2. QED
      BY <2>2, <2>4, <2>8, <3>1, AskKeeps
  <2>9. QED
    BY <2>3, <2>5, <2>6, <2>7, <2>8
<1>3. QED
  BY <1>1, <1>2

LEMMA BuildNetworkKeeps ==
    ASSUME SigningInv, UNCHANGED context, outcome = "pending", NEW t, BuildNetwork(t),
           Kept(Asked, t), Priced(Asked, t), Entry # "send" => SamePrices(Asked, t)
    PROVE  SigningInv'
<1> DEFINE networkId == Or(t.networkId, config.defaultNetworkId)
           filled    == [t EXCEPT !.networkId = networkId]
<1>1. config \in Contexts /\ config.defaultNetworkId \in Quantity
  BY ProgramAssumption DEF SigningInv
<1>2. networkId \in Quantity
  BY <1>1, Absent DEF Kept, IsTransaction
<1>3. IF filled.networkId = Null THEN Ask("networkId", filled) ELSE BuildType(filled)
  BY DEF BuildNetwork
<1> HIDE DEF networkId
<1>4. Kept(Asked, filled) /\ SamePrices(t, filled)
  BY <1>1, <1>2, FilledKeeps
<1> HIDE DEF filled
<1>5. Priced(Asked, filled) /\ (Entry # "send" => SamePrices(Asked, filled))
  BY <1>4, SamePricesPriced
<1>6. CASE BuildType(filled)
  BY <1>4, <1>5, <1>6, BuildTypeKeeps
<1>7. CASE Ask("networkId", filled)
  <2>1. Stage("networkId", filled)
    BY <1>5 DEF Stage
  <2>2. QED
    BY <1>4, <1>5, <1>7, <2>1, AskKeeps
<1>8. QED
  BY <1>3, <1>6, <1>7

LEMMA BuildChainKeeps ==
    ASSUME SigningInv, UNCHANGED context, outcome = "pending", NEW t, BuildChain(t),
           Kept(Asked, t), Priced(Asked, t), Entry # "send" => SamePrices(Asked, t)
    PROVE  SigningInv'
<1> DEFINE filled == FilledChain(FilledInput(t), config)
<1>1. CASE PayloadsDiffer(t)
  BY <1>1, RejectKeeps DEF BuildChain
<1>2. CASE ~ PayloadsDiffer(t)
  <2>1. config \in Contexts
    BY DEF SigningInv
  <2>2. Kept(Asked, FilledInput(t)) /\ SamePrices(t, FilledInput(t))
    BY <2>1, FilledKeeps
  <2>3. Kept(Asked, filled) /\ SamePrices(FilledInput(t), filled)
    BY <2>1, <2>2, FilledKeeps
  <2>4. IF NeedsChainId(filled) THEN Ask("chainId", filled) ELSE BuildNetwork(filled)
    BY <1>2 DEF BuildChain
  <2> HIDE DEF filled
  <2>5. Priced(Asked, filled) /\ (Entry # "send" => SamePrices(Asked, filled))
    BY <2>2, <2>3, SamePricesPriced
  <2>6. CASE NeedsChainId(filled)
    <3>1. Stage("chainId", filled)
      BY <2>5, <2>6 DEF Stage, NeedsChainId
    <3>2. QED
      BY <2>3, <2>4, <2>5, <2>6, <3>1, AskKeeps
  <2>7. CASE ~ NeedsChainId(filled)
    BY <2>3, <2>4, <2>5, <2>7, BuildNetworkKeeps
  <2>8. QED
    BY <2>6, <2>7
<1>3. QED
  BY <1>1, <1>2

LEMMA BuildKeeps ==
    ASSUME SigningInv, UNCHANGED context, outcome = "pending", NEW t, Build(t),
           Kept(Asked, t), Priced(Asked, t), Entry # "send" => SamePrices(Asked, t)
    PROVE  SigningInv'
<1> DEFINE filled == FilledFrom(t, config)
<1>1. config \in Contexts
  BY DEF SigningInv
<1>2. Kept(Asked, filled) /\ SamePrices(t, filled)
  BY <1>1, FilledKeeps
<1>3. IF filled.nonce # Null THEN BuildChain(filled)
      ELSE IF filled.from = Null THEN Reject("UnableToPopulateNonceError")
      ELSE Ask("nonce", filled)
  BY DEF Build
<1> HIDE DEF filled
<1>4. Priced(Asked, filled) /\ (Entry # "send" => SamePrices(Asked, filled))
  BY <1>2, SamePricesPriced
<1>5. CASE BuildChain(filled)
  BY <1>2, <1>4, <1>5, BuildChainKeeps
<1>6. CASE Reject("UnableToPopulateNonceError")
  BY <1>6, RejectKeeps
<1>7. CASE filled.nonce = Null /\ Ask("nonce", filled)
  <2>1. Stage("nonce", filled)
    BY <1>4, <1>7 DEF Stage
  <2>2. QED
    BY <1>2, <1>4, <1>7, <2>1, AskKeeps
<1>8. QED
  BY <1>3, <1>5, <1>6, <1>7

---------------------------------------------------------------------------
(* The steps *)

LEMMA CallSendKeeps == ASSUME SigningInv, CallSend PROVE SigningInv'
<1> DEFINE asSigner == [tx EXCEPT !.from = Signer]
           t        == Formatted(asSigner)
<1>1. /\ at = "called" /\ Entry = "send" /\ outcome = "pending" /\ UNCHANGED context
      /\ Kept(Asked, tx) /\ SamePrices(Asked, tx) /\ config \in Contexts
  BY DEF CallSend, SigningInv, Stage
<1>2. Kept(Asked, asSigner) /\ SamePrices(tx, asSigner)
  BY <1>1, FilledKeeps
<1>3. Kept(Asked, t) /\ SamePrices(asSigner, t)
  <2> HIDE DEF asSigner
  <2>1. QED
    BY <1>2, FormattedKeeps
<1>4. IF PayloadsDiffer(tx) THEN Reject("TransactionDataAndInputError")
      ELSE IF ~ NeedsGasPrice(t) THEN Ask("call", t)
      ELSE IF PricingRefused(t, config) THEN Reject("UnsupportedTransactionTypeError")
      ELSE CASE PricingQuestion(t, config) = "gasPrice" -> Ask("gasPrice", t)
             [] PricingQuestion(t, config) = "block"    -> Ask("block", t)
             [] OTHER                                   -> Ask("call", t)
  BY DEF CallSend
<1> HIDE DEF asSigner, t
<1>5. SamePrices(Asked, t) /\ Priced(Asked, t)
  BY <1>1, <1>2, <1>3 DEF SamePrices, Priced
<1>6. CASE Reject("TransactionDataAndInputError") \/ Reject("UnsupportedTransactionTypeError")
  BY <1>1, <1>6, RejectKeeps
<1>7. CASE Ask("call", t)
  <2>1. Stage("call", t)
    BY <1>1 DEF Stage
  <2>2. QED
    BY <1>1, <1>3, <1>5, <1>7, <2>1, AskKeeps
<1>8. CASE /\ ~ PricingRefused(t, config) /\ PricingQuestion(t, config) = "gasPrice"
           /\ Ask("gasPrice", t)
  <2>1. Stage("gasPrice", t)
    BY <1>1, <1>5, <1>8, PricingQuestions DEF Stage
  <2>2. QED
    BY <1>1, <1>3, <1>5, <1>8, <2>1, AskKeeps
<1>9. CASE ~ PricingRefused(t, config) /\ PricingQuestion(t, config) = "block" /\ Ask("block", t)
  <2>1. Stage("block", t)
    BY <1>1, <1>5, <1>9, PricingQuestions DEF Stage
  <2>2. QED
    BY <1>1, <1>3, <1>5, <1>9, <2>1, AskKeeps
<1>10. QED
  BY <1>4, <1>6, <1>7, <1>8, <1>9

LEMMA AnswerGasPriceKeeps == ASSUME SigningInv, AnswerGasPrice PROVE SigningInv'
<1> DEFINE u == PricedLegacy(tx, NodeGasPrice)
<1>1. /\ at \in {"gasPrice", "builderGasPrice"} /\ outcome = "pending" /\ UNCHANGED context
      /\ Kept(Asked, tx) /\ SamePrices(Asked, tx) /\ tx.gasPrice = Null /\ ~ FeeMarketFields(tx)
      /\ at = "gasPrice" => Entry = "send"
      /\ at = "builderGasPrice" => FitsItsType(tx)
  BY DEF AnswerGasPrice, SigningInv, Stage
<1>2. Kept(Asked, u) /\ LegacyPriced(Asked, u) /\ (FitsItsType(tx) => FitsItsType(u))
  BY <1>1, AnsweredPrices
<1>3. \/ at = "gasPrice" /\ Ask("call", u)
      \/ at = "builderGasPrice" /\ EstimateOrPrepare(u)
  BY DEF AnswerGasPrice
<1> HIDE DEF u
<1>4. Priced(Asked, u)
  BY <1>2 DEF Priced
<1>5. CASE at = "gasPrice" /\ Ask("call", u)
  <2>1. Stage("call", u)
    BY <1>1, <1>5 DEF Stage
  <2>2. QED
    BY <1>1, <1>2, <1>4, <1>5, <2>1, AskKeeps
<1>6. CASE at = "builderGasPrice" /\ EstimateOrPrepare(u)
  BY <1>1, <1>2, <1>4, <1>6, EstimateKeeps
<1>7. QED
  BY <1>3, <1>5, <1>6

LEMMA AnswerBlockKeeps == ASSUME SigningInv, AnswerBlock PROVE SigningInv'
<1>1. /\ at \in {"block", "builderBlock"} /\ outcome = "pending" /\ UNCHANGED context
      /\ Kept(Asked, tx) /\ SamePrices(Asked, tx) /\ tx.gasPrice = Null /\ config \in Contexts
      /\ at = "block" => Entry = "send"
      /\ at = "builderBlock" => FitsItsType(tx)
  BY DEF AnswerBlock, SigningInv, Stage
<1>2. PICK baseFee \in BaseFees :
         IF baseFee = Null THEN Reject("Eip1559NotSupportedError")
         ELSE IF at = "block" THEN Ask("call", PricedFeeMarket(tx, config, baseFee))
         ELSE EstimateOrPrepare(PricedFeeMarket(tx, config, baseFee))
  BY DEF AnswerBlock
<1>3. CASE baseFee = Null
  BY <1>1, <1>2, <1>3, RejectKeeps
<1>4. CASE baseFee # Null
  <2> DEFINE u == PricedFeeMarket(tx, config, baseFee)
  <2>1. Kept(Asked, u) /\ FeeMarketPriced(Asked, u) /\ (FitsItsType(tx) => FitsItsType(u))
    BY <1>1, <1>4, AnsweredPrices
  <2>2. IF at = "block" THEN Ask("call", u) ELSE EstimateOrPrepare(u)
    BY <1>2, <1>4
  <2> HIDE DEF u
  <2>3. Priced(Asked, u)
    BY <2>1 DEF Priced
  <2>4. CASE at = "block"
    <3>1. Stage("call", u)
      BY <1>1, <2>4 DEF Stage
    <3>2. QED
      BY <1>1, <2>1, <2>2, <2>3, <2>4, <3>1, AskKeeps
  <2>5. CASE at = "builderBlock"
    BY <1>1, <2>1, <2>2, <2>3, <2>5, EstimateKeeps
  <2>6. QED
    BY <1>1, <2>4, <2>5
<1>5. QED
  BY <1>3, <1>4

LEMMA BuildingKeeps ==
    ASSUME SigningInv,
           CallSign \/ AnswerCall \/ AnswerNonce \/ AnswerChainId \/ AnswerNetworkId \/ AnswerEstimate
    PROVE  SigningInv'
<1>1. /\ request \in Requests /\ config \in Contexts /\ Kept(Asked, tx) /\ Priced(Asked, tx)
      /\ at # "ended" => outcome = "pending"
  BY DEF SigningInv
<1>2. CASE CallSign
  <2>1. at = "called" /\ UNCHANGED context /\ Build(tx) /\ SamePrices(Asked, tx)
    BY <1>2 DEF CallSign, SigningInv, Stage
  <2>2. QED
    BY <1>1, <2>1, BuildKeeps
<1>3. CASE AnswerCall
  <2>1. at = "call" /\ UNCHANGED context /\ Build(tx) /\ Entry = "send"
    BY <1>3 DEF AnswerCall, SigningInv, Stage
  <2>2. QED
    BY <1>1, <2>1, BuildKeeps
<1>4. CASE AnswerNonce
  <2> DEFINE u == [tx EXCEPT !.nonce = NodeNonce]
  <2>1. /\ at = "nonce" /\ UNCHANGED context /\ BuildChain(u) /\ tx.nonce = Null
        /\ Entry # "send" => SamePrices(Asked, tx)
    BY <1>4 DEF AnswerNonce, SigningInv, Stage
  <2>2. Kept(Asked, u) /\ SamePrices(tx, u)
    BY <1>1, <2>1, FilledKeeps
  <2> HIDE DEF u
  <2>3. Priced(Asked, u) /\ (Entry # "send" => SamePrices(Asked, u))
    BY <1>1, <2>1, <2>2, SamePricesPriced
  <2>4. QED
    BY <1>1, <2>1, <2>2, <2>3, BuildChainKeeps
<1>5. CASE AnswerChainId
  <2> DEFINE u == [tx EXCEPT !.chainId = NodeChainId]
  <2>1. /\ at = "chainId" /\ UNCHANGED context /\ BuildNetwork(u) /\ tx.chainId = Null
        /\ Entry # "send" => SamePrices(Asked, tx)
    BY <1>5 DEF AnswerChainId, SigningInv, Stage
  <2>2. Kept(Asked, u) /\ SamePrices(tx, u)
    BY <1>1, <2>1, FilledKeeps
  <2> HIDE DEF u
  <2>3. Priced(Asked, u) /\ (Entry # "send" => SamePrices(Asked, u))
    BY <1>1, <2>1, <2>2, SamePricesPriced
  <2>4. QED
    BY <1>1, <2>1, <2>2, <2>3, BuildNetworkKeeps
<1>6. CASE AnswerNetworkId
  <2> DEFINE u == [tx EXCEPT !.networkId = NodeNetworkId]
  <2>1. /\ at = "networkId" /\ UNCHANGED context /\ BuildType(u)
        /\ Entry # "send" => SamePrices(Asked, tx)
    BY <1>6 DEF AnswerNetworkId, SigningInv, Stage
  <2>2. NodeNetworkId \in Quantity
    BY NodeAssumption DEF Quantity
  <2>3. Kept(Asked, u) /\ SamePrices(tx, u)
    BY <1>1, <2>2, FilledKeeps
  <2> HIDE DEF u
  <2>4. Priced(Asked, u) /\ (Entry # "send" => SamePrices(Asked, u))
    BY <1>1, <2>1, <2>3, SamePricesPriced
  <2>5. QED
    BY <1>1, <2>1, <2>3, <2>4, BuildTypeKeeps
<1>7. CASE AnswerEstimate
  <2> DEFINE u == [tx EXCEPT !.gas = NodeGas]
  <2>1. /\ at = "estimate" /\ UNCHANGED context /\ Prepare(u) /\ FitsItsType(tx)
        /\ tx.gas = Null /\ tx.gasLimit = Null
    BY <1>7 DEF AnswerEstimate, SigningInv, Stage
  <2>2. Kept(Asked, u) /\ SamePrices(tx, u) /\ FitsItsType(u)
    BY <1>1, <2>1, EstimatedKeeps
  <2> HIDE DEF u
  <2>3. Priced(Asked, u)
    BY <1>1, <2>2, SamePricesPriced
  <2>4. QED
    BY <2>1, <2>2, <2>3, PrepareKeeps
<1>8. QED
  BY <1>2, <1>3, <1>4, <1>5, <1>6, <1>7

LEMMA SigningInvariant == Spec => []SigningInv
<1>1. SigningInv /\ [Next]_vars => SigningInv'
  <2> SUFFICES ASSUME SigningInv, [Next]_vars
               PROVE  SigningInv'
    OBVIOUS
  <2>1. CASE CallSend
    BY <2>1, CallSendKeeps
  <2>2. CASE CallSign \/ AnswerCall \/ AnswerNonce \/ AnswerChainId \/ AnswerNetworkId \/ AnswerEstimate
    BY <2>2, BuildingKeeps
  <2>3. CASE AnswerGasPrice
    BY <2>3, AnswerGasPriceKeeps
  <2>4. CASE AnswerBlock
    BY <2>4, AnswerBlockKeeps
  <2>5. CASE NodeFails
    <3>1. UNCHANGED context /\ Reject("RpcError")
      BY <2>5 DEF NodeFails
    <3>2. QED
      BY <3>1, RejectKeeps
  <2>6. CASE Reconfigure
    <3>1. /\ request' = request /\ config' \in Contexts /\ tx' = tx /\ at' = at
          /\ outcome' = outcome /\ at # "ended"
      BY <2>6 DEF Reconfigure
    <3>2. outcome # "signed"
      BY <3>1 DEF SigningInv
    <3>3. Asked' = Asked /\ Entry' = Entry
      BY <3>1 DEF Asked, Entry
    <3>4. Stage(at, tx)'
      BY <3>1, <3>3 DEF SigningInv, Stage
    <3>5. QED
      BY <3>1, <3>2, <3>3, <3>4 DEF SigningInv
  <2>7. CASE UNCHANGED vars
    <3>1. /\ request' = request /\ config' = config /\ tx' = tx /\ at' = at /\ signed' = signed
          /\ outcome' = outcome
      BY <2>7 DEF vars, context
    <3>2. Asked' = Asked /\ Entry' = Entry /\ PriorityKey' = PriorityKey
      BY <3>1 DEF Asked, Entry, PriorityKey
    <3>3. TxData(tx)' = TxData(tx)
      BY <3>1 DEF TxData, SigningCommon, DefaultCommon
    <3>4. Stage(at, tx)' <=> Stage(at, tx)
      BY <3>1, <3>2 DEF Stage
    <3>5. Signable(tx)' <=> Signable(tx)
      BY <3>1, <3>2, <3>3 DEF Signable, LacksSignature
    <3>6. SignedAs(tx, signed)' <=> SignedAs(tx, signed)
      BY <3>1, <3>2, <3>3 DEF SignedAs
    <3>7. QED
      BY <3>1, <3>2, <3>4, <3>5, <3>6 DEF SigningInv
  <2>8. QED
    BY <2>1, <2>2, <2>3, <2>4, <2>5, <2>6, <2>7 DEF Next
<1>2. QED
  BY <1>1, SigningInit, PTL DEF Spec

---------------------------------------------------------------------------
(* What the invariant says of a signed transaction                         *)

(* The chain a transaction is signed for, where its ids agree.             *)
LEMMA CommonChosen ==
    ASSUME NEW t, ChainIdOf(t) = t.chainId
    PROVE  /\ SigningCommon(t).chainId = IF HasZeroId(t) /\ Or(t.type, 0) = 0 THEN Mainnet
                                         ELSE t.chainId
           /\ SigningCommon(t).hardfork =
                 IF HasZeroId(t) THEN "merge"
                 ELSE Or(CommonHardfork(t), Or(t.hardfork, config.defaultHardfork))
BY DEF SigningCommon, DefaultCommon

LEMMA WhatIsSignable ==
    ASSUME NEW t, Kept(Asked, t), Signable(t), config \in Contexts
    PROVE  LET obj == TxData(t)
           IN /\ Unsigned(obj)
              /\ obj.type = 64 => Entry = "priority" /\ PriorityKey = Sponsor
              /\ obj.chainId = Or(Asked.chainId, NodeChainId)
              /\ obj.common.chainId = IF HasZeroId(t) /\ obj.type = 0 THEN Mainnet ELSE obj.chainId
              /\ HasZeroId(t) => obj.common.hardfork = "merge"
              /\ obj.nonce # Null /\ obj.gasLimit # Null
              /\ obj.type \in {0, 1} => obj.gasPrice # Null /\ ~ FeeMarketFields(t)
              /\ obj.type \in {2, 64} => /\ obj.gasPrice = Null
                                         /\ obj.maxFeePerGas # Null
                                         /\ obj.maxPriorityFeePerGas # Null
<1> DEFINE obj == TxData(t)
<1>1. /\ ChainsAgree(t) /\ GasFits(t) /\ t.nonce # Null /\ t.chainId # Null
      /\ IsTransaction(t) /\ FitsItsType(t) /\ t.gasLimit = Null
  BY ValidationSays DEF Signable, Kept
<1>2. t.chainId = Or(Asked.chainId, NodeChainId) /\ t.chainId \in Nat
  BY <1>1 DEF Kept, IsTransaction, Quantity
<1>3. obj.type \in Types
  <2>1. Supported(obj.type)
    BY DEF Signable, FactoryRefuses
  <2>2. {class.type : class \in Classes} = Types
    BY DEF Classes, Types, LegacyTransaction, AccessListEIP2930Transaction,
           FeeMarketEIP1559Transaction, PriorityETNIP1Transaction
  <2>3. obj.type = Or(t.type, 0)
    BY DEF TxData
  <2> HIDE DEF obj
  <2>4. Or(obj.type, 0) = obj.type
    BY <2>3, Absent DEF Or
  <2>5. QED
    BY <2>1, <2>2, <2>4 DEF Supported
<1>4. ChainIdOf(t) = t.chainId
  <2>1. CASE t.common = Null
    BY <2>1 DEF ChainIdOf
  <2>2. CASE t.common # Null
    <3>1. t.common.chainId \in Nat /\ t.common.chainId # Null
      BY <1>1, <2>2, Absent DEF IsTransaction
    <3>2. t.common.chainId = t.chainId
      BY <1>1, <2>2, <3>1 DEF ChainsAgree, Mismatch, Or
    <3>3. QED
      BY <2>2, <3>2 DEF ChainIdOf
  <2>3. QED
    BY <2>1, <2>2
<1>5. /\ obj.type = Or(t.type, 0) /\ obj.common = SigningCommon(t) /\ obj.chainId = t.chainId
      /\ obj.nonce = t.nonce /\ obj.gasPrice = t.gasPrice /\ obj.gasLimit = t.gas
      /\ obj.maxFeePerGas = t.maxFeePerGas /\ obj.maxPriorityFeePerGas = t.maxPriorityFeePerGas
      /\ obj.common.chainId = IF HasZeroId(t) /\ obj.type = 0 THEN Mainnet ELSE t.chainId
      /\ HasZeroId(t) => obj.common.hardfork = "merge"
  BY <1>4, CommonChosen DEF TxData
<1>6. Unsigned(obj)
  <2> DEFINE payload == Or(t.data, t.input)
             type    == Or(t.type, 0)
             common  == SigningCommon(t)
  <2>1. payload \in Quantity
    BY <1>1, Absent DEF IsTransaction
  <2>2. type \in Types /\ common.chainId \in Nat
    BY <1>2, <1>3, <1>5 DEF Mainnet
  <2>3. obj = [type |-> type, common |-> common, chainId |-> t.chainId,
               nonce |-> t.nonce, gasPrice |-> t.gasPrice, gasLimit |-> t.gas,
               data |-> payload, accessList |-> t.accessList,
               maxPriorityFeePerGas |-> t.maxPriorityFeePerGas, maxFeePerGas |-> t.maxFeePerGas,
               v |-> Null, r |-> Null, s |-> Null, pV |-> Null, pR |-> Null, pS |-> Null]
    BY DEF TxData
  <2>4. /\ t.nonce \in Quantity /\ t.gasPrice \in Quantity /\ t.gas \in Quantity
        /\ t.accessList \in Quantity /\ t.maxPriorityFeePerGas \in Quantity
        /\ t.maxFeePerGas \in Quantity
    BY <1>1 DEF IsTransaction
  <2> HIDE DEF payload, type, common, obj, Types, Quantity
  <2>5. QED
    BY <1>2, <2>1, <2>2, <2>3, <2>4 DEF Unsigned
<1>7. ASSUME obj.type = 64
      PROVE  Entry = "priority" /\ PriorityKey = Sponsor
  <2>1. PriorityKey # Null
    BY <1>7 DEF Signable, SignRefuses
  <2>2. QED
    BY <2>1 DEF PriorityKey
<1>8. obj.type \in {0, 1} => t.gasPrice # Null /\ ~ FeeMarketFields(t)
  <2> SUFFICES ASSUME Or(t.type, 0) \in {0, 1}
               PROVE  t.gasPrice # Null /\ ~ FeeMarketFields(t)
    BY <1>5
  <2>1. ~ (t.type # Null /\ t.type > 1)
    BY DEF Or
  <2>2. LegacyGasFits(t)
    BY <1>1, <2>1 DEF GasFits
  <2>3. QED
    BY <2>2 DEF LegacyGasFits, LegacyGas
<1>9. obj.type \in {2, 64} => t.gasPrice = Null /\ t.maxFeePerGas # Null /\ t.maxPriorityFeePerGas # Null
  <2> SUFFICES ASSUME Or(t.type, 0) \in {2, 64}
               PROVE  t.gasPrice = Null /\ t.maxFeePerGas # Null /\ t.maxPriorityFeePerGas # Null
    BY <1>5
  <2>1. t.type # Null /\ t.type > 1
    BY DEF Or
  <2>2. FeeMarketGasFits(t)
    BY <1>1, <2>1 DEF GasFits
  <2>3. ~ LegacyGas(t) /\ t.gas # Null
    BY <1>1, <2>2 DEF GasFits, LegacyGas, FeeMarketGas, LegacyGasFits, FeeMarketGasFits,
                      FeeMarketFields
  <2>4. QED
    BY <2>2, <2>3 DEF FeeMarketGasFits, LegacyGas
<1>10. t.gas # Null
  BY <1>1 DEF GasFits, LegacyGas, FeeMarketGas
<1> HIDE DEF obj
<1>11. QED
  BY <1>1, <1>2, <1>5, <1>6, <1>7, <1>8, <1>9, <1>10 DEF obj

LEMMA FieldsRead ==
    ASSUME NEW raw, NEW obj, NEW signedObj, Reads(raw, obj, signedObj), Unsigned(obj)
    PROVE  LET read == FromSerializedData(raw)
           IN /\ raw.type = obj.type /\ read.type = obj.type
              /\ read.nonce = DecNumber(Enc(obj.nonce)) /\ read.data = Enc(obj.data)
              /\ read.gasLimit = DecNumber(Enc(obj.gasLimit))
              /\ obj.type # 0 => /\ read.chainId = DecNumber(Enc(obj.chainId))
                                 /\ read.accessList = Enc(obj.accessList)
              /\ obj.type \in {0, 1} => read.gasPrice = DecNumber(Enc(obj.gasPrice))
              /\ obj.type \in {2, 64} =>
                    /\ read.maxFeePerGas = DecNumber(Enc(obj.maxFeePerGas))
                    /\ read.maxPriorityFeePerGas = DecNumber(Enc(obj.maxPriorityFeePerGas))
<1> DEFINE read == FromSerializedData(raw)
           F    == ClassOf(obj.type).fields
           Has(name) == \E i \in DOMAIN F : F[i] = name
<1>1. obj.type \in Types
  BY DEF Unsigned
<1>2. /\ raw.type = obj.type /\ read.type = obj.type
      /\ \A i \in DOMAIN F :
            /\ F[i] \in NumberFields => read[F[i]] = DecNumber(Enc(obj[F[i]]))
            /\ F[i] \in {"data", "accessList"} => read[F[i]] = Enc(obj[F[i]])
  BY DEF Reads
<1> HIDE DEF read
<1>3. CASE obj.type = 0
  <2>1. F = <<"nonce", "gasPrice", "gasLimit", "data">>
    BY <1>3, ClassesByType DEF LegacyTransaction
  <2> HIDE DEF F
  <2>2. DOMAIN F = 1 .. 4 /\ F[1] = "nonce" /\ F[2] = "gasPrice" /\ F[3] = "gasLimit" /\ F[4] = "data"
    BY <2>1
  <2>3. QED
    BY <1>2, <1>3, <2>2 DEF read, NumberFields
<1>4. CASE obj.type = 1
  <2>1. F = <<"chainId", "nonce", "gasPrice", "gasLimit", "data", "accessList">>
    BY <1>4, ClassesByType DEF AccessListEIP2930Transaction
  <2> HIDE DEF F
  <2>2. /\ DOMAIN F = 1 .. 6 /\ F[1] = "chainId" /\ F[2] = "nonce" /\ F[3] = "gasPrice"
        /\ F[4] = "gasLimit" /\ F[5] = "data" /\ F[6] = "accessList"
    BY <2>1
  <2>3. QED
    BY <1>2, <1>4, <2>2 DEF read, NumberFields
<1>5. CASE obj.type \in {2, 64}
  <2>1. F = <<"chainId", "nonce", "maxPriorityFeePerGas", "maxFeePerGas", "gasLimit",
              "data", "accessList">>
    BY <1>5, ClassesByType DEF FeeMarketEIP1559Transaction, PriorityETNIP1Transaction
  <2> HIDE DEF F
  <2>2. /\ DOMAIN F = 1 .. 7 /\ F[1] = "chainId" /\ F[2] = "nonce"
        /\ F[3] = "maxPriorityFeePerGas" /\ F[4] = "maxFeePerGas"
        /\ F[5] = "gasLimit" /\ F[6] = "data" /\ F[7] = "accessList"
    BY <2>1
  <2>3. QED
    BY <1>2, <1>5, <2>2 DEF read, NumberFields
<1>6. QED
  BY <1>1, <1>3, <1>4, <1>5 DEF Types

(* What holds of every signed transaction.                                 *)
LEMMA SignedTransaction ==
    ASSUME SigningInv, outcome = "signed"
    PROVE  LET obj == TxData(tx)
           IN /\ Unsigned(obj) /\ Kept(Asked, tx) /\ Priced(Asked, tx) /\ FitsItsType(tx)
              /\ \E signedObj : Reads(signed, obj, signedObj)
              /\ RecoverTransaction(signed) = Signer
              /\ obj.type = 64 => IsSigned(Signed) /\ GetPriorityPublicKey(Signed) = Sponsor
              /\ obj.type = 0 =>
                    ChainIdOfV(Signed.v) = IF GteHardfork(obj.common.hardfork, "spuriousDragon")
                                           THEN obj.common.chainId ELSE Null
<1> DEFINE obj == TxData(tx)
<1>1. /\ Kept(Asked, tx) /\ Priced(Asked, tx) /\ Signable(tx) /\ FitsItsType(tx)
      /\ config \in Contexts /\ SignedAs(tx, signed)
  BY DEF SigningInv, Signable
<1>2. Unsigned(obj) /\ (obj.type = 64 => PriorityKey = Sponsor)
  BY <1>1, WhatIsSignable
<1>3. PICK recovery \in {0, 1}, pRecovery \in {0, 1} :
         signed = Serialize(Sign(obj, Signer, PriorityKey, recovery, pRecovery))
  BY <1>1 DEF SignedAs
<1> DEFINE signedObj == Sign(obj, Signer, PriorityKey, recovery, pRecovery)
<1> HIDE DEF obj
<1>4. Reads(signed, obj, signedObj)
  <2>1. Reads(Serialize(signedObj), obj, signedObj)
    BY <1>2, WhatIsRead
  <2>2. QED
    BY <1>3, <2>1
<1>5. /\ RecoverTransaction(signed) = Signer
      /\ obj.type = 64 => IsSigned(Signed) /\ GetPriorityPublicKey(Signed) = PriorityKey
      /\ obj.type = 0 =>
            ChainIdOfV(Signed.v) = IF GteHardfork(obj.common.hardfork, "spuriousDragon")
                                   THEN obj.common.chainId ELSE Null
  BY <1>2, <1>3, SenderFound DEF Signed
<1>6. QED
  BY <1>1, <1>2, <1>4, <1>5 DEF obj

---------------------------------------------------------------------------
(* The theorems *)

(* SendersRecovered holds of every transaction, configuration and answer:  *)
(* what is signed is read back as the signer's.                            *)
THEOREM SendersAreRecovered == Spec => []SendersRecovered
<1>1. SigningInv => SendersRecovered
  <2> SUFFICES ASSUME SigningInv, outcome = "signed"
               PROVE  /\ RecoverTransaction(signed) = Signer
                      /\ signed.type = 64 =>
                            /\ Entry = "priority"
                            /\ IsSigned(Signed)
                            /\ GetPriorityPublicKey(Signed) = Sponsor
    BY DEF SendersRecovered
  <2> DEFINE obj == TxData(tx)
  <2>1. /\ Unsigned(obj) /\ RecoverTransaction(signed) = Signer
        /\ obj.type = 64 => IsSigned(Signed) /\ GetPriorityPublicKey(Signed) = Sponsor
    BY SignedTransaction
  <2>2. obj.type = 64 => Entry = "priority"
    BY WhatIsSignable DEF SigningInv
  <2> HIDE DEF obj
  <2>3. signed.type = obj.type
    BY SignedTransaction DEF obj, Reads
  <2>4. QED
    BY <2>1, <2>2, <2>3
<1>2. QED
  BY <1>1, SigningInvariant, PTL

(* NeverOverpays holds of them all: no signature promises more than the    *)
(* program allowed, and each the node's price where it named none.         *)
THEOREM NoOverpaying == Spec => []NeverOverpays
<1>1. SigningInv => NeverOverpays
  <2> SUFFICES ASSUME SigningInv, outcome = "signed"
               PROVE  LET cap == IF IsFeeMarket(Signed.type) THEN Signed.maxFeePerGas
                                 ELSE Signed.gasPrice
                      IN /\ Asked.gasPrice # Null => cap = Asked.gasPrice
                         /\ Asked.maxFeePerGas # Null => cap = Asked.maxFeePerGas
                         /\ Asked.gasPrice = Null /\ Asked.maxFeePerGas = Null =>
                               IF IsFeeMarket(Signed.type)
                               THEN \E baseFee \in BaseFees \ {Null} :
                                       cap = Signed.maxPriorityFeePerGas + 2 * baseFee
                               ELSE cap = NodeGasPrice
    BY DEF NeverOverpays
  <2> DEFINE obj == TxData(tx)
  <2>1. Unsigned(obj) /\ Priced(Asked, tx)
    BY SignedTransaction
  <2>2. PICK signedObj : Reads(signed, obj, signedObj)
    BY SignedTransaction
  <2>3. /\ Kept(Asked, tx) /\ Signable(tx) /\ config \in Contexts
    BY DEF SigningInv
  <2>4. /\ obj.type \in {0, 1} => tx.gasPrice # Null /\ ~ FeeMarketFields(tx)
        /\ obj.type \in {2, 64} => /\ tx.gasPrice = Null
                                   /\ tx.maxFeePerGas # Null
                                   /\ tx.maxPriorityFeePerGas # Null
    BY <2>3, WhatIsSignable DEF TxData
  <2>5. /\ obj.gasPrice = tx.gasPrice /\ obj.maxFeePerGas = tx.maxFeePerGas
        /\ obj.maxPriorityFeePerGas = tx.maxPriorityFeePerGas
        /\ tx.gasPrice \in Quantity /\ tx.maxFeePerGas \in Quantity
        /\ tx.maxPriorityFeePerGas \in Quantity
    BY <2>3 DEF TxData, Kept, IsTransaction
  <2> HIDE DEF obj
  <2>6. obj.type \in Types
    BY <2>1 DEF Unsigned
  <2>7. /\ Signed.type = obj.type
        /\ obj.type \in {0, 1} => Signed.gasPrice = tx.gasPrice
        /\ obj.type \in {2, 64} => /\ Signed.maxFeePerGas = tx.maxFeePerGas
                                   /\ Signed.maxPriorityFeePerGas = tx.maxPriorityFeePerGas
    BY <2>1, <2>2, <2>4, <2>5, FieldsRead, Encodings DEF Signed, Quantity
  <2>8. CASE obj.type \in {0, 1}
    <3>1. IF IsFeeMarket(Signed.type) THEN FALSE ELSE Signed.gasPrice = tx.gasPrice
      BY <2>7, <2>8 DEF IsFeeMarket
    <3>2. CASE SamePrices(Asked, tx)
      BY <2>4, <2>8, <3>1, <3>2 DEF SamePrices, FeeMarketFields
    <3>3. CASE LegacyPriced(Asked, tx)
      BY <3>1, <3>3, NodeAssumption DEF LegacyPriced
    <3>4. CASE FeeMarketPriced(Asked, tx)
      BY <2>4, <2>8, <3>4 DEF FeeMarketPriced
    <3>5. QED
      BY <2>1, <3>2, <3>3, <3>4 DEF Priced
  <2>9. CASE obj.type \in {2, 64}
    <3>1. /\ IsFeeMarket(Signed.type) /\ Signed.maxFeePerGas = tx.maxFeePerGas
          /\ Signed.maxPriorityFeePerGas = tx.maxPriorityFeePerGas
      BY <2>7, <2>9 DEF IsFeeMarket
    <3>2. CASE SamePrices(Asked, tx)
      BY <2>4, <2>9, <3>1, <3>2 DEF SamePrices
    <3>3. CASE LegacyPriced(Asked, tx)
      BY <2>4, <2>9, <3>3 DEF LegacyPriced, FeeMarketFields
    <3>4. CASE FeeMarketPriced(Asked, tx)
      <4>1. PICK baseFee \in BaseFees \ {Null} :
               tx.maxFeePerGas = Or(Asked.maxFeePerGas, 2 * baseFee + tx.maxPriorityFeePerGas)
        BY <3>4 DEF FeeMarketPriced
      <4>2. baseFee \in Nat
        BY <4>1, NodeAssumption DEF Quantity
      <4>3. tx.maxPriorityFeePerGas \in Nat /\ Asked.gasPrice = Null
        BY <3>4 DEF FeeMarketPriced
      <4>4. ASSUME Asked.maxFeePerGas = Null
            PROVE  tx.maxFeePerGas = tx.maxPriorityFeePerGas + 2 * baseFee
        <5>1. tx.maxFeePerGas = 2 * baseFee + tx.maxPriorityFeePerGas
          BY <4>1, <4>4 DEF Or
        <5>2. QED
          BY <4>2, <4>3, <5>1
      <4>5. Asked.maxFeePerGas # Null => tx.maxFeePerGas = Asked.maxFeePerGas
        BY <4>1 DEF Or
      <4>6. QED
        BY <3>1, <4>1, <4>3, <4>4, <4>5
    <3>5. QED
      BY <2>1, <3>2, <3>3, <3>4 DEF Priced
  <2>10. QED
    BY <2>6, <2>8, <2>9 DEF Types
<1>2. QED
  BY <1>1, SigningInvariant, PTL

---------------------------------------------------------------------------
(* A transaction that is described and priced is signed: its stages.       *)

Complete ==
    /\ Described(config) /\ ~ changed
    /\ config.defaultCommon = Null
    /\ PricedByProgram \/ PricedByLibrary
    /\ Asked.type = 64 <=> Entry = "priority"

\* Before the defaults of its chain, and with them.
Raw(asked, t) ==
    /\ t.common = Null /\ t.type = asked.type /\ t.accessList = asked.accessList
    /\ t.hardfork = asked.hardfork
Filled(asked, ctx, t) ==
    /\ t.common = Null /\ t.type = asked.type /\ t.accessList = asked.accessList
    /\ t.hardfork = Or(asked.hardfork, ctx.defaultHardfork) /\ t.chain # Null /\ t.nonce # Null

\* With its type, and with its price.
Typed(asked, ctx, entry, t) ==
    /\ t.common = Null
    /\ t.hardfork = Or(asked.hardfork, ctx.defaultHardfork) /\ t.chain # Null
    /\ t.nonce # Null /\ t.chainId # Null
    /\ t.type \in Types /\ (t.type = 64 <=> entry = "priority")
LegacyReady(t) == t.gasPrice # Null /\ ~ FeeMarketFields(t)
FeeMarketReady(t) ==
    /\ t.gasPrice = Null /\ t.maxFeePerGas # Null /\ t.maxPriorityFeePerGas # Null
    /\ t.maxFeePerGas >= t.maxPriorityFeePerGas
PriceReady(t) ==
    /\ t.type \in {0, 1} => LegacyReady(t)
    /\ t.type \in {2, 64} => FeeMarketReady(t)

PricedSoFar(t) ==
    \/ PricedByProgram /\ SamePrices(Asked, t)
    \/ PricedByLibrary /\ Entry = "prepare" /\ SamePrices(Asked, t)
    \/ PricedByLibrary /\ Asked.type = Null /\ LegacyPriced(Asked, t)
    \/ PricedByLibrary /\ FeeMarketPriced(Asked, t)

CompleteStage(question, t) ==
    /\ question = "called" => Raw(Asked, t) /\ t.from = Asked.from
    /\ question \in {"gasPrice", "block"} => PricedByLibrary /\ Raw(Asked, t) /\ t.from # Null
    /\ question = "gasPrice" => Asked.type = Null
    /\ question = "call" => Raw(Asked, t) /\ t.from # Null /\ PricedSoFar(t)
    /\ question = "nonce" => Raw(Asked, t) /\ PricedSoFar(t)
    /\ question \in {"chainId", "networkId"} => Filled(Asked, config, t) /\ PricedSoFar(t)
    /\ question = "networkId" => t.chainId # Null
    /\ question \in {"builderGasPrice", "builderBlock", "estimate"} =>
          Typed(Asked, config, Entry, t)
    /\ question = "builderGasPrice" => t.type \in {0, 1}
    /\ question = "builderBlock" => t.type = 2 /\ (PricedByLibrary \/ FeeMarketReady(t))
    /\ question = "estimate" => PriceReady(t)

OnItsWay ==
    /\ outcome \in {"pending", "signed", "RpcError", "Eip1559NotSupportedError"}
    /\ at # "ended" => CompleteStage(at, tx)

(* The hardforks the defaults leave a described transaction.               *)
LEMMA HardforkChosen ==
    ASSUME Complete, NEW t, t.common = Null, config \in Contexts, request \in Requests,
           t.hardfork \in {Asked.hardfork, Or(Asked.hardfork, config.defaultHardfork)}
    PROVE  /\ t.hardfork # Null => HardforkType(t) = IF t.gasPrice # Null THEN 0 ELSE 2
           /\ t.hardfork = Null => HardforkType(t) = Null
           /\ Or(Asked.hardfork, config.defaultHardfork) # Null
           /\ Or(Asked.hardfork, config.defaultHardfork) \in {"london", "merge"}
<1>1. config.defaultHardfork \in KnownHardforks /\ config.defaultHardfork # Null
  BY ProgramAssumption, Absent
<1>2. /\ Or(Asked.hardfork, config.defaultHardfork) # Null
      /\ t.hardfork # Null => t.hardfork = Or(Asked.hardfork, config.defaultHardfork)
  BY <1>1 DEF Or
<1>3. Or(Asked.hardfork, config.defaultHardfork) \in {"london", "merge"}
  BY DEF Complete, Described
<1>4. Or(t.hardfork, CommonHardfork(t)) = t.hardfork
  BY DEF CommonHardfork, Or
<1>5. GteHardfork("london", "london") /\ GteHardfork("merge", "london")
  BY HardforksKnown DEF GteHardfork
<1>6. QED
  BY <1>2, <1>3, <1>4, <1>5 DEF HardforkType

(* The type of what the program priced, of what nobody has priced yet, and *)
(* of what the library priced.                                             *)
LEMMA TypeByProgram ==
    ASSUME Complete, NEW t, t.common = Null, config \in Contexts, request \in Requests,
           t.hardfork \in {Asked.hardfork, Or(Asked.hardfork, config.defaultHardfork)},
           t.type = Asked.type, t.accessList = Asked.accessList,
           PricedByProgram, SamePrices(Asked, t)
    PROVE  /\ ~ TypeRefused(t)
           /\ GetTransactionType(t, config) \in Types
           /\ GetTransactionType(t, config) = 64 <=> Asked.type = 64
           /\ GetTransactionType(t, config) \in {0, 1} => LegacyReady(t)
           /\ GetTransactionType(t, config) \in {2, 64} => FeeMarketReady(t)
           /\ ~ NeedsGasPrice(t)
<1> DEFINE type == GetTransactionType(t, config)
<1>1. /\ t.hardfork # Null => HardforkType(t) = IF t.gasPrice # Null THEN 0 ELSE 2
      /\ t.hardfork = Null => HardforkType(t) = Null
  BY HardforkChosen
<1>2. CASE /\ Asked.type \in {Null, 0, 1} /\ Asked.gasPrice # Null /\ ~ FeeMarketFields(Asked)
           /\ Asked.type = 0 => Asked.accessList = Null
  <2>1. LegacyReady(t)
    BY <1>2 DEF SamePrices, FeeMarketFields, LegacyReady
  <2>2. DetectTransactionType(t) \in {0, 1} /\ (t.type # Null => DetectTransactionType(t) = t.type)
    BY <1>1, <1>2, <2>1, Absent DEF DetectTransactionType, LegacyReady
  <2>3. type \in {0, 1}
    BY <2>2, Absent DEF GetTransactionType, Or
  <2>4. ~ TypeRefused(t)
    BY <1>2, <2>1, <2>2, Absent DEF TypeRefused, FitsType, LegacyReady, FeeMarketFields
  <2>5. ~ NeedsGasPrice(t)
    BY <2>1 DEF NeedsGasPrice, LegacyReady
  <2> HIDE DEF type
  <2>6. type \in Types /\ type # 64 /\ Asked.type # 64 /\ type \notin {2, 64}
    BY <1>2, <2>3, Absent DEF Types
  <2>7. QED
    BY <2>1, <2>4, <2>5, <2>6 DEF type
<1>3. CASE /\ Asked.type \in {Null, 2, 64} /\ Asked.gasPrice = Null
           /\ Asked.maxFeePerGas # Null /\ Asked.maxPriorityFeePerGas # Null
           /\ Asked.maxFeePerGas >= Asked.maxPriorityFeePerGas
  <2>1. FeeMarketReady(t)
    BY <1>3 DEF SamePrices, FeeMarketReady
  <2>2. DetectTransactionType(t) = Or(Asked.type, 2) /\ Or(Asked.type, 2) \in {2, 64}
    BY <1>3, <2>1, Absent DEF DetectTransactionType, FeeMarketReady, FeeMarketFields, Or
  <2>3. type = Or(Asked.type, 2)
    BY <2>2, Absent DEF GetTransactionType, Or
  <2>4. ~ TypeRefused(t)
    BY <2>1, <2>2 DEF TypeRefused, FitsType, FeeMarketReady
  <2>5. ~ NeedsGasPrice(t)
    BY <2>1 DEF NeedsGasPrice, FeeMarketReady
  <2>6. Or(Asked.type, 2) = 64 <=> Asked.type = 64
    BY <1>3, Absent DEF Or
  <2> HIDE DEF type
  <2>7. type \in Types /\ type \notin {0, 1} /\ (type = 64 <=> Asked.type = 64)
    BY <2>2, <2>3, <2>6 DEF Types
  <2>8. QED
    BY <2>1, <2>4, <2>5, <2>7 DEF type
<1>4. QED
  BY <1>2, <1>3 DEF PricedByProgram

LEMMA TypeByLibrary ==
    ASSUME Complete, NEW t, t.common = Null, config \in Contexts, request \in Requests,
           t.hardfork \in {Asked.hardfork, Or(Asked.hardfork, config.defaultHardfork)},
           t.type = Asked.type, t.accessList = Asked.accessList,
           PricedByLibrary
    PROVE  /\ SamePrices(Asked, t) =>
                 /\ ~ TypeRefused(t)
                 /\ GetTransactionType(t, config) \in {0, 1, 2}
                 /\ GetTransactionType(t, config) \in {0, 1} => Asked.type = Null
                 /\ NeedsGasPrice(t) /\ t.gasPrice = Null /\ ~ FeeMarketFields(t)
           /\ Asked.type = Null /\ LegacyPriced(Asked, t) =>
                 /\ ~ TypeRefused(t) /\ LegacyReady(t)
                 /\ t.hardfork # Null => GetTransactionType(t, config) \in {0, 1}
           /\ FeeMarketPriced(Asked, t) =>
                 /\ ~ TypeRefused(t) /\ FeeMarketReady(t)
                 /\ GetTransactionType(t, config) = 2
<1> DEFINE type == GetTransactionType(t, config)
<1>1. /\ t.hardfork # Null => HardforkType(t) = IF t.gasPrice # Null THEN 0 ELSE 2
      /\ t.hardfork = Null => HardforkType(t) = Null
  BY HardforkChosen
<1>2. Asked.type \in {Null, 2} /\ Asked.gasPrice = Null /\ ~ FeeMarketFields(Asked)
  BY DEF PricedByLibrary
<1>3. Asked.type = Null => config.defaultTransactionType \in {0, 1, 2}
  BY DEF PricedByLibrary
<1>4. ASSUME SamePrices(Asked, t)
      PROVE  /\ ~ TypeRefused(t) /\ type \in {0, 1, 2} /\ (type \in {0, 1} => Asked.type = Null)
             /\ NeedsGasPrice(t) /\ t.gasPrice = Null /\ ~ FeeMarketFields(t)
  <2>1. t.gasPrice = Null /\ ~ FeeMarketFields(t)
    BY <1>2, <1>4 DEF SamePrices, FeeMarketFields
  <2>2. NeedsGasPrice(t)
    BY <2>1 DEF NeedsGasPrice, FeeMarketFields
  <2>3. /\ DetectTransactionType(t) \in {1, 2, Null}
        /\ t.type # Null => DetectTransactionType(t) = 2
    BY <1>1, <1>2, <2>1 DEF DetectTransactionType
  <2>4. type \in {0, 1, 2} /\ (t.type # Null => type = 2)
    <3>1. CASE t.type # Null
      BY <2>3, <3>1, Absent DEF GetTransactionType, Or
    <3>2. CASE t.type = Null
      BY <1>3, <2>3, <3>2, Absent DEF GetTransactionType, Or
    <3>3. QED
      BY <3>1, <3>2
  <2>5. ~ TypeRefused(t)
    BY <2>1, <2>3 DEF TypeRefused, FitsType
  <2> HIDE DEF type
  <2>6. QED
    BY <2>1, <2>2, <2>4, <2>5
<1>5. ASSUME Asked.type = Null, LegacyPriced(Asked, t)
      PROVE  ~ TypeRefused(t) /\ LegacyReady(t) /\ (t.hardfork # Null => type \in {0, 1})
  <2>1. LegacyReady(t)
    BY <1>5, NodeAssumption, Absent DEF LegacyPriced, LegacyReady
  <2>2. ~ TypeRefused(t)
    BY <1>5, <2>1 DEF TypeRefused, LegacyReady
  <2>3. t.hardfork # Null => DetectTransactionType(t) \in {0, 1}
    BY <1>1, <1>5, <2>1 DEF DetectTransactionType, LegacyReady
  <2>4. QED
    BY <2>1, <2>2, <2>3, Absent DEF GetTransactionType, Or
<1>6. ASSUME FeeMarketPriced(Asked, t)
      PROVE  ~ TypeRefused(t) /\ FeeMarketReady(t) /\ type = 2
  <2>1. PICK baseFee \in BaseFees \ {Null} :
           t.maxFeePerGas = Or(Asked.maxFeePerGas, 2 * baseFee + t.maxPriorityFeePerGas)
    BY <1>6 DEF FeeMarketPriced
  <2>2. t.maxPriorityFeePerGas \in Nat /\ t.gasPrice = Null
    BY <1>6 DEF FeeMarketPriced
  <2>3. baseFee \in Nat /\ t.maxFeePerGas = 2 * baseFee + t.maxPriorityFeePerGas
    BY <1>2, <2>1, NodeAssumption DEF FeeMarketFields, Or, Quantity
  <2>4. t.maxFeePerGas \in Nat /\ t.maxFeePerGas >= t.maxPriorityFeePerGas
    BY <2>2, <2>3
  <2>5. FeeMarketReady(t)
    BY <2>2, <2>4, Absent DEF FeeMarketReady
  <2>6. DetectTransactionType(t) = 2
    BY <1>2, <2>5 DEF DetectTransactionType, FeeMarketReady, FeeMarketFields
  <2>7. type = 2
    BY <2>6, Absent DEF GetTransactionType, Or
  <2>8. ~ TypeRefused(t)
    BY <2>2, <2>6 DEF TypeRefused, FitsType
  <2>9. QED
    BY <2>5, <2>7, <2>8
<1>7. QED
  BY <1>4, <1>5, <1>6

LEMMA SenderFilled ==
    ASSUME NEW asked, NEW t, Kept(asked, t), NEW ctx
    PROVE  LET u == FilledFrom(t, ctx)
           IN /\ u.from = Or(t.from, ctx.defaultAccount) /\ u.nonce = t.nonce
              /\ Raw(asked, t) => Raw(asked, u)
BY DEF Kept, IsTransaction, Raw, FilledFrom

LEMMA FilledTypeBody ==
    ASSUME NEW asked, NEW t, Kept(asked, t), t.common = Null, NEW ctx
    PROVE  LET u == FilledType(t, ctx)
           IN /\ u.type = GetTransactionType(t, ctx) /\ u.common = Null
              /\ u.hardfork = t.hardfork /\ u.chain = t.chain /\ u.nonce = t.nonce
              /\ u.chainId = t.chainId
<1> DEFINE type == GetTransactionType(t, ctx)
           list == IF type \in {1, 2} THEN Or(t.accessList, 0) ELSE t.accessList
           gas  == Or(t.gasLimit, t.gas)
           u    == FilledType(t, ctx)
<1>1. u = [t EXCEPT !.gasLimit = gas, !.type = type, !.accessList = list]
  BY DEF FilledType
<1> HIDE DEF type, list, gas, u
<1>2. /\ u.type = type /\ u.common = Null /\ u.hardfork = t.hardfork /\ u.chain = t.chain
      /\ u.nonce = t.nonce /\ u.chainId = t.chainId
  BY <1>1 DEF Kept, IsTransaction
<1>3. QED
  BY <1>2 DEF u, type

LEMMA FilledBodies ==
    ASSUME NEW asked, NEW t, Kept(asked, t), t.common = Null,
           NEW ctx \in Contexts, ctx.defaultCommon = Null
    PROVE  /\ \A from : LET u == [t EXCEPT !.from = from]
                        IN Raw(asked, t) => Raw(asked, u) /\ u.from = from /\ u.nonce = t.nonce
           /\ LET u == FilledChain(FilledInput(t), ctx)
              IN /\ Raw(asked, t) /\ t.nonce # Null => Filled(asked, ctx, u)
                 /\ u.common = Null
           /\ LET u == [t EXCEPT !.nonce = NodeNonce]
              IN u.nonce # Null /\ (Raw(asked, t) => Raw(asked, u))
           /\ LET u == [t EXCEPT !.chainId = NodeChainId]
              IN u.chainId # Null /\ (Filled(asked, ctx, t) => Filled(asked, ctx, u))
           /\ \A networkId : LET u == [t EXCEPT !.networkId = networkId]
                             IN u.chainId = t.chainId /\ (Filled(asked, ctx, t) => Filled(asked, ctx, u))
           /\ LET u == FilledType(t, ctx)
              IN /\ u.type = GetTransactionType(t, ctx) /\ u.common = Null
                 /\ u.hardfork = t.hardfork /\ u.chain = t.chain /\ u.nonce = t.nonce
                 /\ u.chainId = t.chainId
<1>1. ASSUME NEW from
      PROVE  LET u == [t EXCEPT !.from = from]
             IN Raw(asked, t) => Raw(asked, u) /\ u.from = from /\ u.nonce = t.nonce
  BY DEF Kept, IsTransaction, Raw
<1>2. LET u == FilledChain(FilledInput(t), ctx)
      IN /\ Raw(asked, t) /\ t.nonce # Null => Filled(asked, ctx, u)
         /\ u.common = Null
  <2> DEFINE s == FilledInput(t)
             hardfork == Or(s.hardfork, ctx.defaultHardfork)
             chain    == Or(s.chain, ctx.defaultChain)
             u == FilledChain(s, ctx)
  <2>1. Kept(asked, s)
    BY FilledKeeps
  <2>2. s.common = Null /\ s.type = t.type /\ s.accessList = t.accessList /\ s.nonce = t.nonce
        /\ s.hardfork = t.hardfork
    BY DEF Kept, IsTransaction, FilledInput
  <2> HIDE DEF s
  <2>3. u = [s EXCEPT !.common = Null, !.chain = chain, !.hardfork = hardfork]
    BY <2>2 DEF FilledChain
  <2>4. chain # Null
    BY ProgramAssumption DEF Or
  <2> HIDE DEF chain, hardfork, u
  <2>5. u.common = Null /\ u.type = s.type /\ u.accessList = s.accessList /\ u.nonce = s.nonce
        /\ u.hardfork = hardfork /\ u.chain = chain
    BY <2>1, <2>3 DEF Kept, IsTransaction
  <2>6. Raw(asked, t) /\ t.nonce # Null => Filled(asked, ctx, u)
    BY <2>2, <2>4, <2>5 DEF Raw, Filled, hardfork
  <2>7. QED
    BY <2>5, <2>6 DEF u, s
<1>3. LET u == [t EXCEPT !.nonce = NodeNonce]
      IN u.nonce # Null /\ (Raw(asked, t) => Raw(asked, u))
  BY NodeAssumption, Absent DEF Kept, IsTransaction, Raw
<1>4. LET u == [t EXCEPT !.chainId = NodeChainId]
      IN u.chainId # Null /\ (Filled(asked, ctx, t) => Filled(asked, ctx, u))
  BY NodeAssumption, Absent DEF Kept, IsTransaction, Filled
<1>5. LET u == FilledType(t, ctx)
      IN /\ u.type = GetTransactionType(t, ctx) /\ u.common = Null
         /\ u.hardfork = t.hardfork /\ u.chain = t.chain /\ u.nonce = t.nonce
         /\ u.chainId = t.chainId
  BY FilledTypeBody
<1>6. ASSUME NEW networkId
      PROVE  LET u == [t EXCEPT !.networkId = networkId]
             IN u.chainId = t.chainId /\ (Filled(asked, ctx, t) => Filled(asked, ctx, u))
  BY DEF Kept, IsTransaction, Filled
<1>7. QED
  BY <1>1, <1>2, <1>3, <1>4, <1>5, <1>6

LEMMA AskGoesOn ==
    ASSUME UNCHANGED context, outcome = "pending",
           NEW question, NEW t, Ask(question, t), CompleteStage(question, t)
    PROVE  OnItsWay'
<1>1. request' = request /\ config' = config /\ tx' = t /\ at' = question /\ outcome' = "pending"
  BY DEF context, Ask
<1>2. Asked' = Asked /\ Entry' = Entry
  BY <1>1 DEF Asked, Entry
<1>3. (PricedByProgram' <=> PricedByProgram) /\ (PricedByLibrary' <=> PricedByLibrary)
  BY <1>1, <1>2 DEF PricedByProgram, PricedByLibrary
<1>4. PricedSoFar(tx)' <=> PricedSoFar(t)
  BY <1>1, <1>2, <1>3 DEF PricedSoFar
<1>5. CompleteStage(at, tx)'
  BY <1>1, <1>2, <1>3, <1>4 DEF CompleteStage
<1>6. QED
  BY <1>1, <1>5 DEF OnItsWay

(* What is ready is signed.                                                *)
LEMMA PrepareSigns ==
    ASSUME Complete, request \in Requests, config \in Contexts, UNCHANGED context,
           NEW built, Prepare(built), Kept(Asked, built), Typed(Asked, config, Entry, built),
           PriceReady(built), FitsItsType(built), Or(built.gasLimit, built.gas) # Null
    PROVE  OnItsWay'
<1> DEFINE t   == Formatted(built)
           obj == TxData(t)
<1>1. /\ Kept(Asked, t) /\ SamePrices(built, t) /\ SameBody(built, t) /\ FitsItsType(t)
      /\ t.gas = Or(built.gasLimit, built.gas) /\ t.gasLimit = Null
  BY FormattedKeeps
<1>2. IF ValidateTransactionForSigning(t) # "none" THEN Reject(ValidateTransactionForSigning(t))
      ELSE IF FactoryRefuses(obj, obj.common) THEN Reject("FactoryError")
      ELSE SignObject(t, obj)
  BY DEF Prepare
<1> HIDE DEF t
<1>3. Typed(Asked, config, Entry, t)
  BY <1>1 DEF SameBody, Typed
<1>4. PriceReady(t) /\ t.gas # Null
  BY <1>1 DEF SameBody, SamePrices, PriceReady, LegacyReady, FeeMarketReady, FeeMarketFields
<1>5. Or(t.type, 0) = t.type /\ t.type # Null /\ t.type \in Types
  BY <1>3, ValuesAssumption DEF Typed, Types, Or
<1>6. t.hardfork # Null /\ t.hardfork \in {"london", "merge"}
  BY <1>3, HardforkChosen DEF Typed
<1>7. ValidateTransactionForSigning(t) = "none"
  <2>1. ChainsAgree(t)
    BY <1>3, <1>6 DEF ChainsAgree, Mismatch, Or, Typed
  <2>2. GasFits(t)
    <3>1. CASE t.type \in {0, 1}
      <4>1. LegacyGas(t) /\ LegacyGasFits(t) /\ ~ FeeMarketGas(t)
        BY <1>4, <3>1 DEF LegacyGas, LegacyGasFits, FeeMarketGas, PriceReady, LegacyReady, FeeMarketFields
      <4>2. ~ (t.type > 1)
        BY <3>1
      <4>3. QED
        BY <4>1, <4>2 DEF GasFits
    <3>2. CASE t.type \in {2, 64}
      <4>1. ~ LegacyGas(t) /\ FeeMarketGas(t) /\ FeeMarketGasFits(t)
        BY <1>4, <3>2 DEF LegacyGas, FeeMarketGasFits, FeeMarketGas, PriceReady, FeeMarketReady
      <4>2. t.type # Null /\ t.type > 1
        BY <1>5, <3>2
      <4>3. QED
        BY <4>1, <4>2 DEF GasFits
    <3>3. QED
      BY <1>5, <3>1, <3>2 DEF Types
  <2>3. QED
    BY <1>3, <2>1, <2>2, ValidationSays DEF Typed
<1>8. /\ obj.type = t.type /\ obj.chainId = t.chainId /\ obj.gasLimit = t.gas
      /\ obj.maxFeePerGas = t.maxFeePerGas /\ obj.maxPriorityFeePerGas = t.maxPriorityFeePerGas
      /\ t.type # 0 => obj.common.chainId = t.chainId
      /\ obj.common.hardfork \in {"london", "merge"}
  <2>1. ChainIdOf(t) = t.chainId /\ CommonHardfork(t) = Null
    BY <1>3 DEF Typed, ChainIdOf, CommonHardfork
  <2>2. /\ t.type # 0 => SigningCommon(t).chainId = t.chainId
        /\ SigningCommon(t).hardfork \in {"london", "merge"}
    BY <1>5, <1>6, <2>1, CommonChosen DEF Or
  <2>3. QED
    BY <1>5, <2>2 DEF TxData
<1> HIDE DEF obj
<1>9. ~ FactoryRefuses(obj, obj.common)
  <2>1. Supported(obj.type)
    <3>1. {class.type : class \in Classes} = Types
      BY DEF Classes, Types, LegacyTransaction, AccessListEIP2930Transaction,
             FeeMarketEIP1559Transaction, PriorityETNIP1Transaction
    <3>2. QED
      BY <1>5, <1>8, <3>1 DEF Supported
  <2>2. /\ GteHardfork(obj.common.hardfork, ClassOf(obj.type).since)
        /\ ClassOf(obj.type).since = "london" => t.type \in {2, 64}
    <3>1. ClassOf(obj.type).since \in {"homestead", "berlin", "london"}
      BY <1>5, <1>8, ClassesByType DEF Types, LegacyTransaction, AccessListEIP2930Transaction,
                     FeeMarketEIP1559Transaction, PriorityETNIP1Transaction
    <3>2. ClassOf(obj.type).since = "london" => t.type \in {2, 64}
      BY <1>5, <1>8, ClassesByType DEF Types, LegacyTransaction, AccessListEIP2930Transaction
    <3>3. IndexOf(obj.common.hardfork) \in {4, 5}
      BY <1>8, HardforksKnown
    <3>4. QED
      BY <3>1, <3>2, <3>3, HardforksKnown DEF GteHardfork
  <2>3. t.type \in {2, 64} => ~ (obj.maxFeePerGas < obj.maxPriorityFeePerGas)
    <3>1. obj.maxFeePerGas \in Quantity /\ obj.maxPriorityFeePerGas \in Quantity
      BY <1>1, <1>8 DEF Kept, IsTransaction
    <3>2. QED
      BY <1>4, <1>8, <3>1 DEF PriceReady, FeeMarketReady, Quantity
  <2>4. ClassOf(obj.type).type = t.type
    BY <1>5, <1>8, ClassesByType DEF Types, LegacyTransaction, AccessListEIP2930Transaction,
                   FeeMarketEIP1559Transaction, PriorityETNIP1Transaction
  <2>5. QED
    BY <1>8, <2>1, <2>2, <2>3, <2>4 DEF FactoryRefuses
<1>10. ~ SignRefuses(obj, PriorityKey)
  BY <1>3, <1>8, ValuesAssumption DEF SignRefuses, PriorityKey, Typed
<1>11. ~ LacksSignature(obj) /\ ~ GasPriceThrows(obj) /\ ~ (obj.gasLimit < IntrinsicGas)
  <2>1. Entry = "priority" => obj.type = 64
    BY <1>3, <1>8 DEF Typed
  <2>2. t.gas = Or(Asked.gasLimit, Or(Asked.gas, NodeGas))
    BY <1>1, <1>4 DEF Kept, Or
  <2>3. t.gas \in Nat /\ t.gas >= IntrinsicGas /\ IntrinsicGas \in Nat
    BY <1>1, <1>4, <2>2, NodeAssumption DEF Complete, Described, Kept, IsTransaction, Quantity
  <2>4. ~ GasPriceThrows(obj)
    BY <1>8, HardforksKnown DEF GasPriceThrows, GteHardfork
  <2>5. QED
    BY <1>8, <2>1, <2>3, <2>4 DEF LacksSignature
<1>12. \E recovery, pRecovery \in {0, 1} :
          Resolve(t, Serialize(Sign(obj, Signer, PriorityKey, recovery, pRecovery)))
  BY <1>2, <1>7, <1>9, <1>10, <1>11 DEF SignObject, obj
<1>13. QED
  BY <1>12 DEF Resolve, OnItsWay

\* A step of such a call, other than a reconfiguration.
Underway ==
    /\ Complete /\ request \in Requests /\ config \in Contexts
    /\ outcome = "pending" /\ UNCHANGED context

LEMMA EstimateGoesOn ==
    ASSUME Underway, NEW t, EstimateOrPrepare(t), Kept(Asked, t), FitsItsType(t),
           Typed(Asked, config, Entry, t), PriceReady(t)
    PROVE  OnItsWay'
<1>1. CASE t.gas = Null /\ t.gasLimit = Null
  <2>1. Ask("estimate", t)
    BY <1>1 DEF EstimateOrPrepare
  <2>2. CompleteStage("estimate", t)
    BY DEF CompleteStage
  <2>3. QED
    BY <2>1, <2>2, AskGoesOn DEF Underway
<1>2. CASE ~ (t.gas = Null /\ t.gasLimit = Null)
  <2>1. Or(t.gasLimit, t.gas) # Null
    BY <1>2 DEF Or
  <2>2. Prepare(t)
    BY <1>2 DEF EstimateOrPrepare
  <2>3. QED
    BY <2>1, <2>2, PrepareSigns DEF Underway
<1>3. QED
  BY <1>1, <1>2

(* What has its type is asked about its price, or is ready.                *)
LEMMA TypedNotRefused ==
    ASSUME Underway, NEW t, Typed(Asked, config, Entry, t), FitsItsType(t),
           t.type \in {0, 1} => ~ FeeMarketFields(t), t.type = 2 => t.gasPrice = Null
    PROVE  /\ GetTransactionType(t, config) = t.type
           /\ ~ TypeRefused(t) /\ ~ PricingRefused(t, config)
<1>1. t.type \in Types /\ t.type # Null
  BY ValuesAssumption DEF Typed, Types
<1>2. DetectTransactionType(t) = t.type
  BY <1>1 DEF DetectTransactionType
<1>3. GetTransactionType(t, config) = t.type
  BY <1>1, <1>2 DEF GetTransactionType, Or
<1>4. FitsType(t, t.type)
  BY <1>1 DEF FitsType, FitsItsType, FeeMarketFields, Or
<1>5. ~ TypeRefused(t)
  BY <1>2, <1>4 DEF TypeRefused
<1>6. ~ (t.type > 127)
  BY <1>1 DEF Types
<1>7. QED
  BY <1>3, <1>5, <1>6 DEF PricingRefused

LEMMA BuildTypeGoesOn ==
    ASSUME Underway, NEW t, BuildType(t), Kept(Asked, t), Filled(Asked, config, t),
           PricedSoFar(t), t.chainId # Null
    PROVE  OnItsWay'
<1> DEFINE u    == FilledType(t, config)
           type == GetTransactionType(t, config)
<1>1. /\ Complete /\ request \in Requests /\ config \in Contexts
      /\ config.defaultCommon = Null /\ (Asked.type = 64 <=> Entry = "priority")
  BY DEF Underway, Complete
<1>2. /\ t.common = Null /\ t.type = Asked.type /\ t.accessList = Asked.accessList
      /\ t.hardfork = Or(Asked.hardfork, config.defaultHardfork) /\ t.chain # Null /\ t.nonce # Null
  BY DEF Filled
<1>3. t.hardfork # Null
  BY <1>1, <1>2, HardforkChosen
<1>4. \/ /\ PricedByProgram /\ ~ TypeRefused(t) /\ type \in Types /\ (type = 64 <=> Asked.type = 64)
         /\ type \in {0, 1} => LegacyReady(t)
         /\ type \in {2, 64} => FeeMarketReady(t)
      \/ /\ PricedByLibrary /\ Entry = "prepare" /\ ~ TypeRefused(t) /\ type \in {0, 1, 2}
         /\ t.gasPrice = Null /\ ~ FeeMarketFields(t)
      \/ PricedByLibrary /\ ~ TypeRefused(t) /\ LegacyReady(t) /\ type \in {0, 1}
      \/ PricedByLibrary /\ ~ TypeRefused(t) /\ FeeMarketReady(t) /\ type = 2
  <2>1. CASE PricedByProgram /\ SamePrices(Asked, t)
    BY <1>1, <1>2, <2>1, TypeByProgram
  <2>2. CASE PricedByLibrary /\ Entry = "prepare" /\ SamePrices(Asked, t)
    BY <1>1, <1>2, <2>2, TypeByLibrary
  <2>3. CASE PricedByLibrary /\ Asked.type = Null /\ LegacyPriced(Asked, t)
    BY <1>1, <1>2, <1>3, <2>3, TypeByLibrary
  <2>4. CASE PricedByLibrary /\ FeeMarketPriced(Asked, t)
    BY <1>1, <1>2, <2>4, TypeByLibrary
  <2>5. QED
    BY <2>1, <2>2, <2>3, <2>4 DEF PricedSoFar
<1>5. PricedByLibrary => Entry # "priority"
  BY DEF PricedByLibrary
<1>6. ~ TypeRefused(t) /\ type \in Types /\ (type = 64 <=> Entry = "priority")
  BY <1>1, <1>4, <1>5 DEF Types
<1>7. /\ u.type = type /\ u.common = Null /\ u.hardfork = t.hardfork /\ u.chain = t.chain
      /\ u.nonce = t.nonce /\ u.chainId = t.chainId
  BY <1>2, FilledTypeBody
<1>8. Kept(Asked, u) /\ SamePrices(t, u) /\ FitsItsType(u)
  BY <1>1, <1>6, FilledTypeKeeps
<1>9. IF Entry # "prepare" THEN EstimateOrPrepare(u)
      ELSE IF PricingRefused(u, config) THEN Reject("UnsupportedTransactionTypeError")
      ELSE CASE PricingQuestion(u, config) = "gasPrice" -> Ask("builderGasPrice", u)
             [] PricingQuestion(u, config) = "block"    -> Ask("builderBlock", u)
             [] OTHER                                   -> EstimateOrPrepare(u)
  BY <1>6 DEF BuildType
<1> HIDE DEF u, type
<1>10. Typed(Asked, config, Entry, u)
  BY <1>2, <1>6, <1>7 DEF Typed
<1>11. \/ PricedByProgram /\ PriceReady(u)
       \/ PricedByLibrary /\ PriceReady(u)
       \/ /\ PricedByLibrary /\ Entry = "prepare" /\ u.type \in {0, 1, 2}
          /\ u.gasPrice = Null /\ ~ FeeMarketFields(u)
  BY <1>4, <1>7, <1>8 DEF SamePrices, PriceReady, LegacyReady, FeeMarketReady, FeeMarketFields
<1>12. /\ u.type \in {0, 1} => ~ FeeMarketFields(u)
       /\ u.type = 2 => u.gasPrice = Null
  BY <1>11 DEF PriceReady, LegacyReady, FeeMarketReady
<1>13. /\ GetTransactionType(u, config) = u.type /\ ~ PricingRefused(u, config)
       /\ u.type \in Types /\ u.type # Null
  BY <1>10, <1>8, <1>12, TypedNotRefused, ValuesAssumption DEF Typed, Types
<1>14. CASE EstimateOrPrepare(u) /\ PriceReady(u)
  BY <1>8, <1>10, <1>14, EstimateGoesOn
<1>15. CASE Entry = "prepare" /\ u.type \in {0, 1} /\ u.gasPrice = Null /\ Ask("builderGasPrice", u)
  <2>1. CompleteStage("builderGasPrice", u)
    BY <1>10, <1>15 DEF CompleteStage
  <2>2. QED
    BY <1>15, <2>1, AskGoesOn DEF Underway
<1>16. CASE Entry = "prepare" /\ u.type = 2 /\ Ask("builderBlock", u)
  <2>1. CompleteStage("builderBlock", u)
    BY <1>10, <1>11, <1>16 DEF CompleteStage, PriceReady
  <2>2. QED
    BY <1>16, <2>1, AskGoesOn DEF Underway
<1>17. CASE Entry # "prepare"
  BY <1>9, <1>11, <1>14, <1>17
<1>18. CASE Entry = "prepare"
  <2>1. u.type # 64
    BY <1>10, <1>18 DEF Typed
  <2>2. CASE u.type \in {0, 1} /\ u.gasPrice = Null
    <3>1. PricingQuestion(u, config) = "gasPrice"
      BY <1>13, <2>2 DEF PricingQuestion
    <3>2. QED
      BY <1>9, <1>13, <1>15, <1>18, <2>2, <3>1
  <2>3. CASE u.type = 2
    <3>1. PricingQuestion(u, config) = "block"
      BY <1>13, <2>3 DEF PricingQuestion
    <3>2. QED
      BY <1>9, <1>13, <1>16, <1>18, <2>3, <3>1
  <2>4. CASE u.type \in {0, 1} /\ u.gasPrice # Null
    <3>1. PricingQuestion(u, config) = "nothing"
      BY <1>13, <2>4 DEF PricingQuestion
    <3>2. PriceReady(u)
      BY <1>11, <2>4
    <3>3. EstimateOrPrepare(u)
      BY <1>9, <1>13, <1>18, <3>1
    <3>4. QED
      BY <1>14, <3>2, <3>3
  <2>5. QED
    BY <1>13, <2>1, <2>2, <2>3, <2>4 DEF Types
<1>19. QED
  BY <1>17, <1>18

LEMMA BuildNetworkGoesOn ==
    ASSUME Underway, NEW t, BuildNetwork(t), Kept(Asked, t), Filled(Asked, config, t),
           PricedSoFar(t), t.chainId # Null
    PROVE  OnItsWay'
<1> DEFINE networkId == Or(t.networkId, config.defaultNetworkId)
           u         == [t EXCEPT !.networkId = networkId]
<1>1. config \in Contexts /\ config.defaultNetworkId \in Quantity /\ config.defaultCommon = Null
  BY ProgramAssumption DEF Underway, Complete
<1>2. networkId \in Quantity
  BY <1>1, Absent DEF Kept, IsTransaction
<1>3. IF u.networkId = Null THEN Ask("networkId", u) ELSE BuildType(u)
  BY DEF BuildNetwork
<1> HIDE DEF networkId
<1>4. Kept(Asked, u) /\ SamePrices(t, u)
  BY <1>1, <1>2, FilledKeeps
<1>5. u.chainId # Null /\ Filled(Asked, config, u)
  BY <1>1, FilledBodies DEF Filled
<1> HIDE DEF u
<1>6. PricedSoFar(u)
  BY <1>4 DEF PricedSoFar, SamePrices, LegacyPriced, FeeMarketPriced, FeeMarketFields
<1>7. CASE BuildType(u)
  BY <1>4, <1>5, <1>6, <1>7, BuildTypeGoesOn
<1>8. CASE Ask("networkId", u)
  <2>1. CompleteStage("networkId", u)
    BY <1>5, <1>6 DEF CompleteStage
  <2>2. QED
    BY <1>8, <2>1, AskGoesOn DEF Underway
<1>9. QED
  BY <1>3, <1>7, <1>8

LEMMA BuildChainGoesOn ==
    ASSUME Underway, NEW t, BuildChain(t), Kept(Asked, t), Raw(Asked, t), PricedSoFar(t),
           t.nonce # Null
    PROVE  OnItsWay'
<1> DEFINE u == FilledChain(FilledInput(t), config)
<1>1. /\ Complete /\ config \in Contexts /\ config.defaultCommon = Null /\ ~ PayloadsDiffer(Asked)
  BY DEF Underway, Complete, Described
<1>2. ~ PayloadsDiffer(t)
  BY <1>1 DEF PayloadsDiffer, Kept
<1>3. IF NeedsChainId(u) THEN Ask("chainId", u) ELSE BuildNetwork(u)
  BY <1>2 DEF BuildChain
<1>4. Filled(Asked, config, u) /\ u.common = Null
  <2>1. t.common = Null
    BY DEF Raw
  <2>2. /\ Raw(Asked, t) /\ t.nonce # Null => Filled(Asked, config, u)
        /\ u.common = Null
    BY <1>1, <2>1, FilledBodies
  <2> HIDE DEF u
  <2>3. QED
    BY <2>2
<1>5. SamePrices(t, u) /\ Kept(Asked, u)
  <2>1. Kept(Asked, FilledInput(t)) /\ SamePrices(t, FilledInput(t))
    BY <1>1, FilledKeeps
  <2>2. SamePrices(FilledInput(t), u) /\ Kept(Asked, u)
    BY <1>1, <2>1, FilledKeeps
  <2> HIDE DEF u
  <2>3. QED
    BY <2>1, <2>2 DEF SamePrices
<1> HIDE DEF u
<1>6. PricedSoFar(u)
  BY <1>5 DEF PricedSoFar, SamePrices, LegacyPriced, FeeMarketPriced, FeeMarketFields
<1>7. CASE NeedsChainId(u)
  <2>1. Ask("chainId", u) /\ CompleteStage("chainId", u)
    BY <1>3, <1>4, <1>6, <1>7 DEF CompleteStage
  <2>2. QED
    BY <2>1, AskGoesOn DEF Underway
<1>8. CASE ~ NeedsChainId(u)
  <2>1. u.chainId # Null
    BY <1>4, <1>8 DEF NeedsChainId
  <2>2. QED
    BY <1>3, <1>4, <1>5, <1>6, <1>8, <2>1, BuildNetworkGoesOn
<1>9. QED
  BY <1>7, <1>8

LEMMA BuildGoesOn ==
    ASSUME Underway, NEW t, Build(t), Kept(Asked, t), Raw(Asked, t), PricedSoFar(t),
           t.nonce # Null \/ Or(t.from, config.defaultAccount) # Null
    PROVE  OnItsWay'
<1> DEFINE u == FilledFrom(t, config)
<1>1. config \in Contexts /\ config.defaultCommon = Null
  BY DEF Underway, Complete
<1>2. Kept(Asked, u) /\ SamePrices(t, u)
  BY <1>1, FilledKeeps
<1>3. u.from = Or(t.from, config.defaultAccount) /\ u.nonce = t.nonce /\ Raw(Asked, u)
  BY SenderFilled
<1>4. IF u.nonce # Null THEN BuildChain(u)
      ELSE IF u.from = Null THEN Reject("UnableToPopulateNonceError")
      ELSE Ask("nonce", u)
  BY DEF Build
<1> HIDE DEF u
<1>5. PricedSoFar(u)
  BY <1>2 DEF PricedSoFar, SamePrices, LegacyPriced, FeeMarketPriced, FeeMarketFields
<1>6. CASE u.nonce # Null
  BY <1>2, <1>3, <1>4, <1>5, <1>6, BuildChainGoesOn
<1>7. CASE u.nonce = Null
  <2>1. Ask("nonce", u) /\ CompleteStage("nonce", u)
    BY <1>3, <1>4, <1>5, <1>7 DEF CompleteStage
  <2>2. QED
    BY <2>1, AskGoesOn DEF Underway
<1>8. QED
  BY <1>6, <1>7

(* The library's price is one its own validation accepts.                  *)
LEMMA FeeMarketCovers ==
    ASSUME NEW asked, NEW t, FeeMarketPriced(asked, t), asked.maxFeePerGas = Null
    PROVE  FeeMarketReady(t)
<1>1. PICK baseFee \in BaseFees \ {Null} :
         t.maxFeePerGas = Or(asked.maxFeePerGas, 2 * baseFee + t.maxPriorityFeePerGas)
  BY DEF FeeMarketPriced
<1>2. t.maxPriorityFeePerGas \in Nat /\ t.gasPrice = Null
  BY DEF FeeMarketPriced
<1>3. baseFee \in Nat /\ t.maxFeePerGas = 2 * baseFee + t.maxPriorityFeePerGas
  BY <1>1, NodeAssumption DEF Or, Quantity
<1>4. t.maxFeePerGas \in Nat /\ t.maxFeePerGas >= t.maxPriorityFeePerGas
  BY <1>2, <1>3
<1>5. QED
  BY <1>2, <1>4, Absent DEF FeeMarketReady

(* Each step of such a call.                                               *)
LEMMA CallSendGoesOn ==
    ASSUME Underway, SigningInv, CompleteStage(at, tx), CallSend
    PROVE  OnItsWay'
<1> DEFINE asSigner == [tx EXCEPT !.from = Signer]
           t        == Formatted(asSigner)
<1>1. /\ at = "called" /\ Entry = "send" /\ Kept(Asked, tx) /\ SamePrices(Asked, tx)
      /\ config \in Contexts /\ request \in Requests /\ UNCHANGED context
  BY DEF CallSend, SigningInv, Stage
<1>2. Raw(Asked, tx) /\ tx.common = Null
  BY <1>1 DEF CompleteStage, Raw
<1>3. Complete /\ ~ PayloadsDiffer(Asked) /\ (Asked.type = 64 <=> Entry = "priority")
  BY DEF Underway, Complete, Described
<1>4. Kept(Asked, asSigner) /\ SamePrices(tx, asSigner)
  BY <1>1, FilledKeeps
<1>5. Raw(Asked, asSigner) /\ asSigner.from = Signer
  BY <1>1, <1>2 DEF Kept, IsTransaction, Raw
<1>6. Kept(Asked, t) /\ SamePrices(asSigner, t) /\ SameBody(asSigner, t)
  <2> HIDE DEF asSigner
  <2>1. QED
    BY <1>4, FormattedKeeps
<1>7. ~ PayloadsDiffer(tx)
  BY <1>1, <1>3 DEF PayloadsDiffer, Kept
<1>8. IF ~ NeedsGasPrice(t) THEN Ask("call", t)
      ELSE IF PricingRefused(t, config) THEN Reject("UnsupportedTransactionTypeError")
      ELSE CASE PricingQuestion(t, config) = "gasPrice" -> Ask("gasPrice", t)
             [] PricingQuestion(t, config) = "block"    -> Ask("block", t)
             [] OTHER                                   -> Ask("call", t)
  BY <1>7 DEF CallSend
<1> HIDE DEF asSigner, t
<1>9. Raw(Asked, t) /\ t.from # Null
  BY <1>5, <1>6, ValuesAssumption DEF Raw, SameBody
<1>10. SamePrices(Asked, t)
  BY <1>1, <1>4, <1>6 DEF SamePrices
<1>11. t.common = Null /\ t.hardfork = Asked.hardfork /\ t.type = Asked.type
       /\ t.accessList = Asked.accessList
  BY <1>9 DEF Raw
<1>12. CASE PricedByProgram
  <2>1. ~ NeedsGasPrice(t)
    BY <1>1, <1>3, <1>10, <1>11, <1>12, TypeByProgram
  <2>2. Ask("call", t) /\ CompleteStage("call", t)
    BY <1>8, <1>9, <1>10, <1>12, <2>1 DEF CompleteStage, PricedSoFar
  <2>3. QED
    BY <2>2, AskGoesOn DEF Underway
<1>13. CASE PricedByLibrary
  <2> DEFINE type == GetTransactionType(t, config)
  <2>1. /\ ~ TypeRefused(t) /\ type \in {0, 1, 2} /\ (type \in {0, 1} => Asked.type = Null)
        /\ NeedsGasPrice(t) /\ t.gasPrice = Null
    BY <1>1, <1>3, <1>10, <1>11, <1>13, TypeByLibrary
  <2>2. ~ PricingRefused(t, config) /\ type # Null
    BY <2>1, ValuesAssumption DEF PricingRefused
  <2>3. CASE type \in {0, 1}
    <3>1. PricingQuestion(t, config) = "gasPrice"
      BY <2>1, <2>2, <2>3 DEF PricingQuestion
    <3>2. Ask("gasPrice", t) /\ CompleteStage("gasPrice", t)
      BY <1>8, <1>9, <1>13, <2>1, <2>2, <2>3, <3>1 DEF CompleteStage
    <3>3. QED
      BY <3>2, AskGoesOn DEF Underway
  <2>4. CASE type = 2
    <3>1. PricingQuestion(t, config) = "block"
      BY <2>1, <2>2, <2>4 DEF PricingQuestion
    <3>2. Ask("block", t) /\ CompleteStage("block", t)
      BY <1>8, <1>9, <1>13, <2>1, <2>2, <3>1 DEF CompleteStage
    <3>3. QED
      BY <3>2, AskGoesOn DEF Underway
  <2>5. QED
    BY <2>1, <2>3, <2>4
<1>14. QED
  BY <1>3, <1>12, <1>13 DEF Complete

LEMMA AnswerGasPriceGoesOn ==
    ASSUME Underway, SigningInv, CompleteStage(at, tx), AnswerGasPrice
    PROVE  OnItsWay'
<1> DEFINE u == PricedLegacy(tx, NodeGasPrice)
<1>1. /\ at \in {"gasPrice", "builderGasPrice"} /\ Kept(Asked, tx) /\ SamePrices(Asked, tx)
      /\ tx.gasPrice = Null /\ ~ FeeMarketFields(tx)
      /\ at = "builderGasPrice" => FitsItsType(tx)
  BY DEF AnswerGasPrice, SigningInv, Stage
<1>2. /\ Kept(Asked, u) /\ LegacyPriced(Asked, u) /\ (FitsItsType(tx) => FitsItsType(u))
      /\ SameBody(tx, u)
  BY <1>1, AnsweredPrices
<1>3. \/ at = "gasPrice" /\ Ask("call", u)
      \/ at = "builderGasPrice" /\ EstimateOrPrepare(u)
  BY DEF AnswerGasPrice
<1> HIDE DEF u
<1>4. CASE at = "gasPrice" /\ Ask("call", u)
  <2>1. Raw(Asked, u) /\ u.from # Null /\ PricedByLibrary /\ Asked.type = Null
    BY <1>2, <1>4 DEF CompleteStage, Raw, SameBody
  <2>2. CompleteStage("call", u)
    BY <1>2, <2>1 DEF CompleteStage, PricedSoFar
  <2>3. QED
    BY <1>4, <2>2, AskGoesOn DEF Underway
<1>5. CASE at = "builderGasPrice" /\ EstimateOrPrepare(u)
  <2>1. Typed(Asked, config, Entry, u) /\ u.type \in {0, 1}
    BY <1>2, <1>5 DEF CompleteStage, Typed, SameBody
  <2>2. LegacyReady(u)
    BY <1>2, NodeAssumption, Absent DEF LegacyPriced, LegacyReady
  <2>3. PriceReady(u)
    BY <2>1, <2>2 DEF PriceReady
  <2>4. QED
    BY <1>1, <1>2, <1>5, <2>1, <2>3, EstimateGoesOn
<1>6. QED
  BY <1>3, <1>4, <1>5

LEMMA AnswerBlockGoesOn ==
    ASSUME Underway, SigningInv, CompleteStage(at, tx), AnswerBlock
    PROVE  OnItsWay'
<1>1. /\ at \in {"block", "builderBlock"} /\ Kept(Asked, tx) /\ SamePrices(Asked, tx)
      /\ tx.gasPrice = Null /\ config \in Contexts
      /\ at = "builderBlock" => FitsItsType(tx)
  BY DEF AnswerBlock, SigningInv, Stage
<1>2. PICK baseFee \in BaseFees :
         IF baseFee = Null THEN Reject("Eip1559NotSupportedError")
         ELSE IF at = "block" THEN Ask("call", PricedFeeMarket(tx, config, baseFee))
         ELSE EstimateOrPrepare(PricedFeeMarket(tx, config, baseFee))
  BY DEF AnswerBlock
<1>3. CASE baseFee = Null
  BY <1>2, <1>3 DEF Reject, OnItsWay
<1>4. CASE baseFee # Null
  <2> DEFINE u == PricedFeeMarket(tx, config, baseFee)
  <2>1. /\ Kept(Asked, u) /\ FeeMarketPriced(Asked, u) /\ (FitsItsType(tx) => FitsItsType(u))
        /\ SameBody(tx, u)
        /\ tx.maxFeePerGas # Null => u.maxFeePerGas = tx.maxFeePerGas
        /\ tx.maxPriorityFeePerGas # Null => u.maxPriorityFeePerGas = tx.maxPriorityFeePerGas
    BY <1>1, <1>4, AnsweredPrices
  <2>2. IF at = "block" THEN Ask("call", u) ELSE EstimateOrPrepare(u)
    BY <1>2, <1>4
  <2> HIDE DEF u
  <2>3. CASE at = "block"
    <3>1. Raw(Asked, u) /\ u.from # Null /\ PricedByLibrary
      BY <2>1, <2>3 DEF CompleteStage, Raw, SameBody
    <3>2. CompleteStage("call", u)
      BY <2>1, <3>1 DEF CompleteStage, PricedSoFar
    <3>3. QED
      BY <2>2, <2>3, <3>2, AskGoesOn DEF Underway
  <2>4. CASE at = "builderBlock"
    <3>1. Typed(Asked, config, Entry, u) /\ u.type = 2
      BY <2>1, <2>4 DEF CompleteStage, Typed, SameBody
    <3>2. PricedByLibrary => FeeMarketReady(u)
      BY <2>1, FeeMarketCovers DEF PricedByLibrary, FeeMarketFields
    <3>3. FeeMarketReady(tx) => FeeMarketReady(u)
      BY <2>1 DEF FeeMarketReady, FeeMarketPriced
    <3>4. FeeMarketReady(u)
      BY <2>4, <3>2, <3>3 DEF CompleteStage
    <3>5. PriceReady(u)
      BY <3>1, <3>4 DEF PriceReady
    <3>6. QED
      BY <1>1, <2>1, <2>2, <2>4, <3>1, <3>5, EstimateGoesOn
  <2>5. QED
    BY <1>1, <2>3, <2>4
<1>5. QED
  BY <1>3, <1>4

LEMMA BuildingGoesOn ==
    ASSUME Underway, SigningInv, CompleteStage(at, tx),
           CallSign \/ AnswerCall \/ AnswerNonce \/ AnswerChainId \/ AnswerNetworkId \/ AnswerEstimate
    PROVE  OnItsWay'
<1>1. Kept(Asked, tx) /\ config \in Contexts /\ config.defaultCommon = Null
  BY DEF SigningInv, Underway, Complete
<1>2. CASE CallSign
  <2>1. /\ at = "called" /\ Entry # "send" /\ Build(tx) /\ SamePrices(Asked, tx)
        /\ Raw(Asked, tx) /\ tx.from = Asked.from
    BY <1>2 DEF CallSign, SigningInv, Stage, CompleteStage
  <2>2. tx.nonce # Null \/ Or(tx.from, config.defaultAccount) # Null
    BY <1>1, <2>1 DEF Underway, Complete, Described, Kept
  <2>3. PricedSoFar(tx)
    BY <2>1 DEF Underway, Complete, PricedSoFar, PricedByLibrary
  <2>4. QED
    BY <1>1, <2>1, <2>2, <2>3, BuildGoesOn
<1>3. CASE AnswerCall
  <2>1. Build(tx) /\ Raw(Asked, tx) /\ tx.from # Null /\ PricedSoFar(tx)
    BY <1>3 DEF AnswerCall, CompleteStage
  <2>2. Or(tx.from, config.defaultAccount) # Null
    BY <2>1 DEF Or
  <2>3. QED
    BY <1>1, <2>1, <2>2, BuildGoesOn
<1>4. CASE AnswerNonce
  <2> DEFINE u == [tx EXCEPT !.nonce = NodeNonce]
  <2>1. BuildChain(u) /\ tx.nonce = Null /\ Raw(Asked, tx) /\ PricedSoFar(tx)
    BY <1>4 DEF AnswerNonce, SigningInv, Stage, CompleteStage
  <2>2. Kept(Asked, u) /\ SamePrices(tx, u)
    BY <1>1, <2>1, FilledKeeps
  <2>3. tx.common = Null
    BY <2>1 DEF Raw
  <2>4. u.nonce # Null /\ Raw(Asked, u)
    BY <1>1, <2>1, <2>3, FilledBodies
  <2> HIDE DEF u
  <2>5. PricedSoFar(u)
    BY <2>1, <2>2 DEF PricedSoFar, SamePrices, LegacyPriced, FeeMarketPriced, FeeMarketFields
  <2>6. QED
    BY <2>1, <2>2, <2>4, <2>5, BuildChainGoesOn
<1>5. CASE AnswerChainId
  <2> DEFINE u == [tx EXCEPT !.chainId = NodeChainId]
  <2>1. /\ BuildNetwork(u) /\ tx.chainId = Null
        /\ Filled(Asked, config, tx) /\ PricedSoFar(tx)
    BY <1>5 DEF AnswerChainId, SigningInv, Stage, CompleteStage
  <2>2. Kept(Asked, u) /\ SamePrices(tx, u)
    BY <1>1, <2>1, FilledKeeps
  <2>3. tx.common = Null
    BY <2>1 DEF Filled
  <2>4. u.chainId # Null /\ Filled(Asked, config, u)
    BY <1>1, <2>1, <2>3, FilledBodies
  <2> HIDE DEF u
  <2>5. PricedSoFar(u)
    BY <2>1, <2>2 DEF PricedSoFar, SamePrices, LegacyPriced, FeeMarketPriced, FeeMarketFields
  <2>6. QED
    BY <2>1, <2>2, <2>4, <2>5, BuildNetworkGoesOn
<1>6. CASE AnswerNetworkId
  <2> DEFINE u == [tx EXCEPT !.networkId = NodeNetworkId]
  <2>1. BuildType(u) /\ Filled(Asked, config, tx) /\ PricedSoFar(tx) /\ tx.chainId # Null
    BY <1>6 DEF AnswerNetworkId, CompleteStage
  <2>2. NodeNetworkId \in Quantity
    BY NodeAssumption DEF Quantity
  <2>3. Kept(Asked, u) /\ SamePrices(tx, u)
    BY <1>1, <2>2, FilledKeeps
  <2>4. tx.common = Null
    BY <2>1 DEF Filled
  <2>5. u.chainId # Null /\ Filled(Asked, config, u)
    <3>1. \A networkId : LET v == [tx EXCEPT !.networkId = networkId]
                         IN v.chainId = tx.chainId /\ (Filled(Asked, config, tx) => Filled(Asked, config, v))
      BY <1>1, <2>4, FilledBodies
    <3>2. QED
      BY <2>1, <3>1
  <2> HIDE DEF u
  <2>6. PricedSoFar(u)
    BY <2>1, <2>3 DEF PricedSoFar, SamePrices, LegacyPriced, FeeMarketPriced, FeeMarketFields
  <2>7. QED
    BY <2>1, <2>3, <2>5, <2>6, BuildTypeGoesOn
<1>7. CASE AnswerEstimate
  <2> DEFINE u == [tx EXCEPT !.gas = NodeGas]
  <2>1. /\ Prepare(u) /\ FitsItsType(tx) /\ tx.gas = Null /\ tx.gasLimit = Null
        /\ Typed(Asked, config, Entry, tx) /\ PriceReady(tx)
    BY <1>7 DEF AnswerEstimate, SigningInv, Stage, CompleteStage
  <2>2. /\ Kept(Asked, u) /\ SamePrices(tx, u) /\ SameBody(tx, u) /\ FitsItsType(u)
        /\ Or(u.gasLimit, u.gas) # Null
    BY <1>1, <2>1, EstimatedKeeps
  <2> HIDE DEF u
  <2>3. Typed(Asked, config, Entry, u)
    BY <2>1, <2>2 DEF SameBody, Typed
  <2>4. PriceReady(u)
    BY <2>1, <2>2
       DEF SameBody, SamePrices, PriceReady, LegacyReady, FeeMarketReady, FeeMarketFields
  <2>5. QED
    BY <2>1, <2>2, <2>3, <2>4, PrepareSigns DEF Underway
<1>8. QED
  BY <1>2, <1>3, <1>4, <1>5, <1>6, <1>7

(* Unless the context changes, it goes on until it is signed or the node   *)
(* stops it.                                                               *)
CompleteInv == Complete => OnItsWay

LEMMA CompleteInvariant == Spec => []CompleteInv
<1>1. Init => CompleteInv
  <2> SUFFICES ASSUME Init, Complete
               PROVE  OnItsWay
    BY DEF CompleteInv
  <2>1. tx = Asked /\ at = "called" /\ outcome = "pending" /\ Asked.common = Null
    BY DEF Init, Asked, Complete, Described
  <2>2. Raw(Asked, tx) /\ tx.from = Asked.from
    BY <2>1 DEF Raw
  <2>3. QED
    BY <2>1, <2>2 DEF OnItsWay, CompleteStage
<1>2. SigningInv /\ CompleteInv /\ [Next]_vars => CompleteInv'
  <2> SUFFICES ASSUME SigningInv, CompleteInv, [Next]_vars, Complete'
               PROVE  OnItsWay'
    BY DEF CompleteInv
  <2>1. CASE Reconfigure
    BY <2>1 DEF Reconfigure, Complete
  <2>2. UNCHANGED context => Complete /\ OnItsWay
    <3> SUFFICES ASSUME UNCHANGED context
                 PROVE  Complete
      BY DEF CompleteInv
    <3>1. request' = request /\ config' = config /\ changed' = changed
      BY DEF context
    <3>2. Asked' = Asked /\ Entry' = Entry
      BY <3>1 DEF Asked, Entry
    <3>3. Described(config)' <=> Described(config)
      BY <3>1, <3>2 DEF Described
    <3>4. (PricedByProgram' <=> PricedByProgram) /\ (PricedByLibrary' <=> PricedByLibrary)
      BY <3>1, <3>2 DEF PricedByProgram, PricedByLibrary
    <3>5. QED
      BY <3>1, <3>2, <3>3, <3>4 DEF Complete
  <2>3. UNCHANGED context /\ at # "ended" => Underway /\ CompleteStage(at, tx)
    BY <2>2 DEF Underway, SigningInv, OnItsWay
  <2>4. CASE CallSend
    BY <2>3, <2>4, CallSendGoesOn DEF CallSend
  <2>5. CASE CallSign \/ AnswerCall \/ AnswerNonce \/ AnswerChainId \/ AnswerNetworkId \/ AnswerEstimate
    <3>1. UNCHANGED context /\ at # "ended"
      BY <2>5 DEF CallSign, AnswerCall, AnswerNonce, AnswerChainId, AnswerNetworkId, AnswerEstimate
    <3>2. QED
      BY <2>3, <2>5, <3>1, BuildingGoesOn
  <2>6. CASE AnswerGasPrice
    <3>1. UNCHANGED context /\ at # "ended"
      BY <2>6 DEF AnswerGasPrice
    <3>2. QED
      BY <2>3, <2>6, <3>1, AnswerGasPriceGoesOn
  <2>7. CASE AnswerBlock
    <3>1. UNCHANGED context /\ at # "ended"
      BY <2>7 DEF AnswerBlock
    <3>2. QED
      BY <2>3, <2>7, <3>1, AnswerBlockGoesOn
  <2>8. CASE NodeFails
    BY <2>8 DEF NodeFails, Reject, OnItsWay
  <2>9. CASE UNCHANGED vars
    <3>1. /\ UNCHANGED context /\ request' = request /\ config' = config /\ tx' = tx /\ at' = at
          /\ outcome' = outcome
      BY <2>9 DEF vars, context
    <3>2. Asked' = Asked /\ Entry' = Entry
      BY <3>1 DEF Asked, Entry
    <3>3. (PricedByProgram' <=> PricedByProgram) /\ (PricedByLibrary' <=> PricedByLibrary)
      BY <3>1, <3>2 DEF PricedByProgram, PricedByLibrary
    <3>4. PricedSoFar(tx)' <=> PricedSoFar(tx)
      BY <3>1, <3>2, <3>3 DEF PricedSoFar
    <3>5. CompleteStage(at, tx)' <=> CompleteStage(at, tx)
      BY <3>1, <3>2, <3>3, <3>4 DEF CompleteStage
    <3>6. QED
      BY <2>2, <3>1, <3>5 DEF OnItsWay
  <2>10. QED
    BY <2>1, <2>4, <2>5, <2>6, <2>7, <2>8, <2>9 DEF Next
<1>3. QED
  BY <1>1, <1>2, SigningInvariant, PTL DEF Spec

---------------------------------------------------------------------------
(* The fields of a signed transaction are those that were asked for.       *)

LEMMA SignedFields ==
    ASSUME SigningInv, outcome = "signed"
    PROVE  /\ signed.type = 0 /\ HasZeroId(tx) => ChainIdOfV(Signed.v) = Mainnet
           /\ signed.type = 0 /\ ~ HasZeroId(tx) =>
                 ChainIdOfV(Signed.v) = IF GteHardfork(SigningCommon(tx).hardfork, "spuriousDragon")
                                        THEN Or(Asked.chainId, NodeChainId) ELSE Null
           /\ signed.type # 0 => Signed.chainId = Or(Asked.chainId, NodeChainId)
           /\ Asked.type # Null => Signed.type = Asked.type
           /\ Asked.nonce # Null => Signed.nonce = Asked.nonce
           /\ Enc(Or(Asked.data, Asked.input)) = Signed.data
           /\ Asked.accessList # Null => Signed.accessList = Enc(Asked.accessList)
           /\ Signed.gasLimit = Or(Asked.gasLimit, Or(Asked.gas, NodeGas))
<1> DEFINE obj == TxData(tx)
<1>1. /\ Unsigned(obj) /\ FitsItsType(tx)
      /\ obj.type = 0 =>
            ChainIdOfV(Signed.v) = IF GteHardfork(obj.common.hardfork, "spuriousDragon")
                                   THEN obj.common.chainId ELSE Null
  BY SignedTransaction
<1>2. PICK signedObj : Reads(signed, obj, signedObj)
  BY SignedTransaction
<1>3. Kept(Asked, tx) /\ Signable(tx) /\ config \in Contexts /\ request \in Requests
  BY DEF SigningInv
<1>4. /\ obj.chainId = Or(Asked.chainId, NodeChainId) /\ obj.gasLimit # Null
      /\ obj.common.chainId = IF HasZeroId(tx) /\ obj.type = 0 THEN Mainnet ELSE obj.chainId
      /\ HasZeroId(tx) => obj.common.hardfork = "merge"
  BY <1>3, WhatIsSignable
<1>5. /\ obj.type = Or(tx.type, 0) /\ obj.nonce = tx.nonce /\ obj.gasLimit = tx.gas
      /\ obj.data = Or(tx.data, tx.input) /\ obj.accessList = tx.accessList
      /\ obj.common = SigningCommon(tx)
  BY DEF TxData
<1> HIDE DEF obj
<1>6. /\ signed.type = obj.type /\ Signed.type = obj.type
      /\ Signed.nonce = DecNumber(Enc(obj.nonce)) /\ Signed.data = Enc(obj.data)
      /\ Signed.gasLimit = DecNumber(Enc(obj.gasLimit))
      /\ obj.type # 0 => /\ Signed.chainId = DecNumber(Enc(obj.chainId))
                         /\ Signed.accessList = Enc(obj.accessList)
  BY <1>1, <1>2, FieldsRead DEF Signed
<1>7. /\ signed.type = 0 /\ HasZeroId(tx) => ChainIdOfV(Signed.v) = Mainnet
      /\ signed.type = 0 /\ ~ HasZeroId(tx) =>
            ChainIdOfV(Signed.v) = IF GteHardfork(SigningCommon(tx).hardfork, "spuriousDragon")
                                   THEN Or(Asked.chainId, NodeChainId) ELSE Null
  <2>1. GteHardfork("merge", "spuriousDragon")
    BY HardforksKnown DEF GteHardfork
  <2>2. QED
    BY <1>1, <1>4, <1>5, <1>6, <2>1
<1>8. signed.type # 0 => Signed.chainId = Or(Asked.chainId, NodeChainId)
  <2>1. obj.chainId \in Nat
    BY <1>1 DEF Unsigned
  <2>2. QED
    BY <1>4, <1>6, <2>1, Encodings
<1>9. Asked.type # Null => Signed.type = Asked.type
  BY <1>3, <1>5, <1>6 DEF Kept, Or
<1>10. Asked.nonce # Null => Signed.nonce = Asked.nonce
  <2>1. tx.nonce \in Quantity
    BY <1>3 DEF Kept, IsTransaction
  <2>2. Asked.nonce # Null => tx.nonce = Asked.nonce /\ tx.nonce \in Nat
    BY <1>3, <2>1 DEF Kept, Quantity
  <2>3. QED
    BY <1>5, <1>6, <2>2, Encodings
<1>11. Enc(Or(Asked.data, Asked.input)) = Signed.data
  <2>1. CASE tx.input = Asked.input
    BY <1>3, <1>5, <1>6, <2>1 DEF Kept
  <2>2. CASE Asked.data = Null /\ Asked.input = Null /\ tx.input = 0
    <3>1. Or(Asked.data, Asked.input) = Null /\ obj.data = 0
      BY <1>3, <1>5, <2>2 DEF Kept, Or
    <3>2. Enc(Null) = Enc(0)
      BY DEF Enc
    <3>3. QED
      BY <1>6, <3>1, <3>2
  <2>3. QED
    BY <1>3, <2>1, <2>2 DEF Kept
<1>12. Asked.accessList # Null => Signed.accessList = Enc(Asked.accessList)
  <2>1. Asked.accessList # Null => tx.accessList = Asked.accessList /\ obj.type # 0
    BY <1>1, <1>3, <1>5 DEF Kept, FitsItsType
  <2>2. QED
    BY <1>5, <1>6, <2>1
<1>13. Signed.gasLimit = Or(Asked.gasLimit, Or(Asked.gas, NodeGas))
  <2>1. tx.gasLimit = Null /\ tx.gas # Null /\ tx.gas \in Nat
    BY <1>3, <1>4, <1>5 DEF Signable, Kept, IsTransaction, Quantity
  <2>2. tx.gas = Or(Asked.gasLimit, Or(Asked.gas, NodeGas))
    BY <1>3, <2>1 DEF Kept, Or
  <2>3. QED
    BY <1>5, <1>6, <2>1, <2>2, Encodings
<1>14. QED
  BY <1>7, <1>8, <1>9, <1>10, <1>11, <1>12, <1>13

(* What is signed is what the program gave, for the chain it meant, through *)
(* the formatting, filling, validation and serialization of every entry and *)
(* whatever the context becomes meanwhile: only a legacy transaction may be *)
(* bound elsewhere, to mainnet where an id is 0.  And a transaction that is *)
(* described and priced is signed unless the node fails.                    *)
THEOREM SignsAsAsked == Spec => []SignsWhatWasAsked
<1>1. SigningInv /\ CompleteInv => SignsWhatWasAsked
  <2> SUFFICES ASSUME SigningInv, CompleteInv
               PROVE  SignsWhatWasAsked
    OBVIOUS
  <2>1. BoundToItsChain
    BY SignedFields DEF BoundToItsChain
  <2>2. outcome = "signed" =>
           /\ Asked.type # Null => Signed.type = Asked.type
           /\ Asked.nonce # Null => Signed.nonce = Asked.nonce
           /\ Enc(Or(Asked.data, Asked.input)) = Signed.data
           /\ Asked.accessList # Null => Signed.accessList = Enc(Asked.accessList)
           /\ Signed.gasLimit = Or(Asked.gasLimit, Or(Asked.gas, NodeGas))
    BY SignedFields
  <2>3. Complete => outcome \in {"pending", "signed", "RpcError", "Eip1559NotSupportedError"}
    BY DEF CompleteInv, OnItsWay
  <2> USE DEF Complete
  <2>4. QED
    BY <2>1, <2>2, <2>3 DEF SignsWhatWasAsked
<1>2. QED
  BY <1>1, SigningInvariant, CompleteInvariant, PTL
================================================================================
