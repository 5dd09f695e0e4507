---------------------------------- MODULE Abi ----------------------------------
(***************************************************************************)
(* The ABI coder: parameters as octets and back, logs, and the hash of     *)
(* typed data (web3-eth-abi/src).                                          *)
(*                                                                         *)
(* A type is [base, size, arrays, components, name, indexed] as in         *)
(* Validation: the size of a number is in bits and that of bytes in        *)
(* octets.  A value is a "number" n, a "boolean" b, a "text" or "hex" (a   *)
(* hex string) with octets, an "array" with items or an "object" with      *)
(* fields; what comes out of a tuple is a "struct" with items and their    *)
(* names.  A word of the model has WORD_SIZE octets, of which an address   *)
(* fills all but one; the code has 32 and 20.                              *)
(***************************************************************************)
EXTENDS Integers, FiniteSetsExt, SequencesExt

CONSTANT WORD_SIZE      \* 2 or 3, for the integers of the model have 32 bits

AnySize == -1
AddressSize == WORD_SIZE - 1

Drop(s, n)  == SubSeq(s, n + 1, Len(s))
Take(s, n)  == SubSeq(s, 1, Min({n, Len(s)}))
Zeros(n)    == [i \in 1..n |-> 0]
Plain(base, size) == [base |-> base, size |-> size, arrays |-> <<>>, components |-> <<>>]
ItemOf(type) == [type EXCEPT !.arrays = Front(type.arrays)]

IsListType(type) == type.arrays # <<>>

RECURSIVE IsDynamic(_)
IsDynamic(type) ==
    IF IsListType(type) THEN Last(type.arrays) = AnySize \/ IsDynamic(ItemOf(type))
    ELSE \/ type.base = "string"
         \/ type.base = "bytes" /\ type.size = AnySize
         \/ type.base = "tuple" /\ \E i \in DOMAIN type.components : IsDynamic(type.components[i])

---------------------------------------------------------------------------
(* Encoding *)

Refused          == [ok |-> FALSE, dynamic |-> FALSE, encoded |-> <<>>]
Static(octets)   == [ok |-> TRUE, dynamic |-> FALSE, encoded |-> octets]
Dynamic(octets)  == [ok |-> TRUE, dynamic |-> TRUE, encoded |-> octets]
Flat(parts)      == FlattenSeq([i \in DOMAIN parts |-> parts[i].encoded])

Mask == 256 ^ WORD_SIZE
Width(type) == IF type.size = AnySize THEN 8 * WORD_SIZE ELSE type.size
HasLimits(type) == Width(type) \in {8 * i : i \in 1..WORD_SIZE}
Limits(type) ==
    LET base == 2 ^ Width(type) IN
    IF type.base = "uint" THEN [min |-> 0, max |-> base - 1]
    ELSE [min |-> - (base \div 2), max |-> base \div 2 - 1]
Within(type, n) == HasLimits(type) /\ n >= Limits(type).min /\ n <= Limits(type).max

BigIntToUint8Array(n) ==
    LET m == IF n < 0 THEN Mask + n ELSE n IN
    [i \in 1..WORD_SIZE |-> (m \div 256 ^ (WORD_SIZE - i)) % 256]
Uint8ArrayToBigInt(word, max) ==
    LET n == FoldLeft(LAMBDA sum, octet : 256 * sum + octet, 0, word) IN
    IF n <= max THEN n ELSE n - Mask

EncodeNumber(type, v) ==
    IF v.form = "number" /\ Within(type, v.n) THEN Static(BigIntToUint8Array(v.n)) ELSE Refused

EncodeBoolean(v) ==
    IF v.form = "boolean" THEN Static(BigIntToUint8Array(IF v.b THEN 1 ELSE 0))
    ELSE IF v.form = "number" /\ v.n \in {0, 1} THEN Static(BigIntToUint8Array(v.n)) ELSE Refused

EncodeAddress(v) ==
    IF v.form = "hex" /\ Len(v.octets) = AddressSize
    THEN Static(Zeros(WORD_SIZE - AddressSize) \o v.octets) ELSE Refused

FullWords(n) == WORD_SIZE * ((n + WORD_SIZE - 1) \div WORD_SIZE)
EncodeBytes(size, octets) ==
    IF size = AnySize
    THEN Dynamic(BigIntToUint8Array(Len(octets)) \o octets \o Zeros(FullWords(Len(octets)) - Len(octets)))
    ELSE IF size \notin 1..WORD_SIZE \/ size < Len(octets) THEN Refused
    ELSE Static(octets \o Zeros(WORD_SIZE - Len(octets)))

\* Values of known length stand in the head; the head has the offset of the
\* others, which follow it.
FaultEncodeDynamicParams(parts) ==      \* an offset from the end of the head
    LET tails == [i \in DOMAIN parts |-> IF parts[i].dynamic THEN parts[i].encoded ELSE <<>>] IN
    FlattenSeq([i \in DOMAIN parts |->
        IF parts[i].dynamic THEN BigIntToUint8Array(Len(FlattenSeq(SubSeq(tails, 1, i - 1))))
        ELSE parts[i].encoded]) \o FlattenSeq(tails)
EncodeDynamicParams(parts) ==
    LET tails == [i \in DOMAIN parts |-> IF parts[i].dynamic THEN parts[i].encoded ELSE <<>>]
        heads(offsets) == [i \in DOMAIN parts |->
                              IF parts[i].dynamic THEN BigIntToUint8Array(offsets[i]) ELSE parts[i].encoded]
        staticSize == Len(FlattenSeq(heads([i \in DOMAIN parts |-> 0])))
    IN FlattenSeq(heads([i \in DOMAIN parts |-> staticSize + Len(FlattenSeq(SubSeq(tails, 1, i - 1)))]))
       \o FlattenSeq(tails)

EncodeArray(size, parts) ==
    LET dynamicItems == parts # <<>> /\ parts[1].dynamic IN
    IF size = AnySize
    THEN Dynamic(BigIntToUint8Array(Len(parts)) \o EncodeDynamicParams(parts))
    ELSE IF Len(parts) # size THEN Refused
    ELSE IF dynamicItems THEN Dynamic(EncodeDynamicParams(parts)) ELSE Static(Flat(parts))

EncodeTuple(parts) ==
    IF \E i \in DOMAIN parts : parts[i].dynamic THEN Dynamic(EncodeDynamicParams(parts))
    ELSE Static(Flat(parts))

\* The values of the components; a list may have more of them.
Inputs(type, v) ==
    IF v.form = "array" THEN v.items
    ELSE [i \in DOMAIN type.components |-> v.fields[type.components[i].name]]
InputMissing(type, v) ==
    \/ v.form \notin {"array", "object"}
    \/ v.form = "array" /\ Len(v.items) < Len(type.components)
    \/ v.form = "object" /\ \E i \in DOMAIN type.components :
                                type.components[i].name \notin DOMAIN v.fields

RECURSIVE EncodeParam(_, _)
EncodeParam(type, v) ==
    LET together(parts, whole) == IF \A i \in DOMAIN parts : parts[i].ok THEN whole ELSE Refused IN
    IF IsListType(type)
    THEN IF v.form # "array" THEN Refused
         ELSE LET parts == [i \in DOMAIN v.items |-> EncodeParam(ItemOf(type), v.items[i])]
              IN together(parts, EncodeArray(Last(type.arrays), parts))
    ELSE CASE type.base = "tuple" ->
                IF InputMissing(type, v) THEN Refused
                ELSE LET parts == [i \in DOMAIN type.components |->
                                      EncodeParam(type.components[i], Inputs(type, v)[i])]
                     IN together(parts, EncodeTuple(parts))
           [] type.base = "string" -> IF v.form = "text" THEN EncodeBytes(AnySize, v.octets) ELSE Refused
           [] type.base = "bytes"  -> IF v.form = "hex" THEN EncodeBytes(type.size, v.octets) ELSE Refused
           [] type.base = "bool"    -> EncodeBoolean(v)
           [] type.base = "address" -> EncodeAddress(v)
           [] type.base \in {"uint", "int"} -> EncodeNumber(type, v)

EncodeParameters(types, values) ==
    IF Len(types) # Len(values) THEN Refused
    ELSE EncodeParam([Plain("tuple", AnySize) EXCEPT !.components = types],
                     [form |-> "array", items |-> values])

---------------------------------------------------------------------------
(* Decoding *)

\* What a dynamic value consumes is used by nobody.
Thrown == [ok |-> FALSE, result |-> [form |-> "none"], consumed |-> 0]
Read(result, consumed) == [ok |-> TRUE, result |-> result, consumed |-> consumed]

OffsetType == Plain("uint", 8 * (WORD_SIZE - 1))      \* "uint32"

DecodeNumber(type, octets) ==
    IF Len(octets) < WORD_SIZE \/ ~ HasLimits(type) THEN Thrown
    ELSE LET n == Uint8ArrayToBigInt(Take(octets, WORD_SIZE), Limits(type).max) IN
         IF Within(type, n) THEN Read([form |-> "number", n |-> n], WORD_SIZE) ELSE Thrown

DecodeBool(octets) ==
    LET number == DecodeNumber(Plain("uint", 8), octets) IN
    IF number.ok /\ number.result.n <= 1
    THEN Read([form |-> "boolean", b |-> number.result.n = 1], WORD_SIZE) ELSE Thrown

DecodeAddress(octets) ==
    IF Len(octets) < WORD_SIZE THEN Thrown
    ELSE Read([form |-> "hex", octets |-> Drop(Take(octets, WORD_SIZE), WORD_SIZE - AddressSize)], WORD_SIZE)

\* The length is measured against what there is with the length itself: data
\* that break off may come out shorter than they say.
DecodeBytes(form, size, octets) ==
    LET length == DecodeNumber(OffsetType, octets) IN
    IF size # AnySize
    THEN IF size > Len(octets) THEN Thrown
         ELSE Read([form |-> form, octets |-> Take(octets, size)], WORD_SIZE)
    ELSE IF ~ length.ok THEN Thrown
    ELSE IF length.result.n > Len(octets) THEN Thrown
    ELSE Read([form |-> form, octets |-> Take(Drop(octets, WORD_SIZE), length.result.n)], WORD_SIZE)

NamedFields(types, items) ==
    [name \in {types[i].name : i \in DOMAIN types} \ {""} |->
        items[Max({i \in DOMAIN types : types[i].name = name})]]
Struct(types, items) == [form |-> "struct", items |-> items, names |-> NamedFields(types, items)]

RECURSIVE DecodeParam(_, _)
\* Values one after the other: the dynamic ones at the offset that stands in
\* their place, counted from the first.
DecodeAt(type, octets, here) ==
    LET offset == DecodeNumber(OffsetType, here) IN
    IF IsDynamic(type) /\ ~ offset.ok THEN Thrown
    ELSE DecodeParam(type, IF IsDynamic(type) THEN Drop(octets, offset.result.n) ELSE here)
OneMore(done, type, value) ==
    IF ~ done.ok \/ ~ value.ok THEN Thrown
    ELSE Read(Append(done.result, value.result),
              done.consumed + IF IsDynamic(type) THEN WORD_SIZE ELSE value.consumed)
DecodeInPlace(types, octets) ==
    FoldLeft(LAMBDA done, type :
                 OneMore(done, type, DecodeAt(type, octets, Drop(octets, done.consumed))),
             Read(<<>>, 0), types)

Tupled(types, values) ==
    IF values.ok THEN Read(Struct(types, values.result), values.consumed) ELSE Thrown
DecodeTuple(types, octets) == Tupled(types, DecodeInPlace(types, octets))

Listed(items) ==
    IF items.ok THEN Read([form |-> "array", items |-> items.result], items.consumed) ELSE Thrown
DecodeArray(type, octets) ==
    LET known   == Last(type.arrays)
        length  == DecodeNumber(OffsetType, octets)
        size    == IF known # AnySize THEN known ELSE length.result.n
        start   == IF known # AnySize THEN octets ELSE Drop(octets, WORD_SIZE)
    IN IF known = AnySize /\ ~ length.ok THEN Thrown
       \* a length beyond the data fails at the first item that is not there
       ELSE Listed(DecodeInPlace([i \in 1..Min({size, Len(octets) + 1}) |-> ItemOf(type)], start))

DecodeParam(type, octets) ==
    IF IsListType(type) THEN DecodeArray(type, octets)
    ELSE CASE type.base = "tuple"   -> DecodeTuple(type.components, octets)
           [] type.base = "string"  -> DecodeBytes("text", AnySize, octets)
           [] type.base = "bytes"   -> DecodeBytes("hex", type.size, octets)
           [] type.base = "bool"    -> DecodeBool(octets)
           [] type.base = "address" -> DecodeAddress(octets)
           [] type.base \in {"uint", "int"} -> DecodeNumber(type, octets)

DecodeParameters(types, octets) ==
    IF types # <<>> /\ octets = <<>> THEN Thrown ELSE DecodeTuple(types, octets)
FirstOfAll(all) == IF all.ok THEN Read(all.result.items[1], 0) ELSE Thrown
DecodeParameter(type, octets) ==
    FirstOfAll(DecodeParameters(<<[name |-> ""] @@ type>>, octets))

---------------------------------------------------------------------------
(* Parameters in the short form of a struct: a sequence of [name, list,    *)
(* type], whose type is a sequence of the same for a struct in it          *)

RECURSIVE MapStructToCoderFormat(_)
MapStructNameAndType(item) ==
    [name |-> item.name, base |-> "tuple", size |-> AnySize, indexed |-> FALSE,
     arrays |-> IF item.list THEN <<AnySize>> ELSE <<>>,
     components |-> MapStructToCoderFormat(item.struct)]
MapStructToCoderFormat(struct) ==
    [i \in DOMAIN struct |->
        IF struct[i].struct # <<>> THEN MapStructNameAndType(struct[i])
        ELSE [name |-> struct[i].name, indexed |-> FALSE] @@ struct[i].type]

---------------------------------------------------------------------------
(* Logs and errors of a contract *)

STATIC_TYPES == {"bool", "string", "int", "uint", "address"}

\* A topic is decoded if its type begins as a static one does, as "uint8[]"
\* does, whose topic is a hash.
DecodeTopic(type, topic) ==
    IF type.base \notin STATIC_TYPES \/ (type.base = "string" /\ type.arrays = <<>>)
    THEN Read([form |-> "hex", octets |-> topic], 0)
    ELSE DecodeParameter(type, topic)

Logged(inputs, decoded, value) ==
    IF ~ decoded.ok \/ \E i \in DOMAIN inputs : ~ value[i].ok THEN Thrown
    ELSE Read(Struct(inputs, [i \in DOMAIN inputs |-> value[i].result]), 0)
MergeTopics(inputs, decoded, topics) ==
    LET indexed == {i \in DOMAIN inputs : inputs[i].indexed}
        offset  == Len(topics) - Cardinality(indexed)
        rank(i, set) == Cardinality({j \in set : j <= i})
    IN Logged(inputs, decoded,
           [i \in DOMAIN inputs |->
               IF i \in indexed THEN DecodeTopic(inputs[i], topics[offset + rank(i, indexed)])
               ELSE Read(decoded.result.items[rank(i, DOMAIN inputs \ indexed)], 0)])
DecodeLog(inputs, data, topics) ==
    MergeTopics(inputs, DecodeParameters(SelectSeq(inputs, LAMBDA t : ~ t.indexed), data), topics)

\* The error that a contract gave as its reason: the first whose signature
\* the data begin with; arguments that cannot be decoded are left out.
DecodedError(name, arguments) ==
    [name |-> name, decoded |-> arguments.ok, arguments |-> arguments.result]
DecodeContractErrorData(errors, signature, data) ==
    LET fitting == SelectSeq(errors, LAMBDA e : e.signature = signature) IN
    IF fitting = <<>> THEN [name |-> ""]
    ELSE DecodedError(fitting[1].name, DecodeParameters(fitting[1].inputs, data))
==============================================================================
