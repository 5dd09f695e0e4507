------------------------------- MODULE TypedData -------------------------------
(***************************************************************************)
(* The hash of typed data, EIP-712 (web3-eth-abi/src/eip_712.ts).          *)
(*                                                                         *)
(* Struct types are numbers, in the order of their names, and `types` maps *)
(* each to its fields [name, struct, of]: struct is 0 for a field of a type *)
(* of the ABI, and `of` is that type, or the dimensions of the list.  A    *)
(* hash is the record of what was hashed: different things have different  *)
(* hashes.                                                                 *)
(***************************************************************************)
EXTENDS Abi

\* A type is one of its fields without the name.
StructOf(n) == [struct |-> n, of |-> Plain("tuple", AnySize)]

\* The structs that a struct is made of, itself first, each once.  What is
\* looked into at present is not among the dependencies: a struct that has
\* itself as a field is looked into for ever.
RECURSIVE GetDependencies(_, _, _)
DependenciesOf(types, n, previous, field) ==
    previous \o SelectSeq(GetDependencies(types, field.struct, previous),
                         LAMBDA d : ~ Contains(previous, d))
GetDependencies(types, n, dependencies) ==
    IF Contains(dependencies, n) \/ n \notin DOMAIN types THEN dependencies
    ELSE <<n>> \o FoldLeft(LAMBDA previous, field : DependenciesOf(types, n, previous, field),
                          <<>>, types[n])

FaultEncodeType(types, n) ==                 \* the struct alone
    <<[struct |-> n, fields |-> types[n]]>>
EncodeType(types, n) ==
    LET all    == GetDependencies(types, n, <<>>)
        sorted == <<n>> \o SortSeq(Tail(all), <)
    IN [i \in DOMAIN sorted |-> [struct |-> sorted[i], fields |-> types[sorted[i]]]]

\* A text that reads as a hex string is hashed as the octets it stands for.
HexDigit(c) == IF c \in 48..57 THEN c - 48 ELSE IF c \in 97..102 THEN c - 87 ELSE -1
IsHexStrict(octets) ==
    /\ Len(octets) >= 2 /\ octets[1] = 48 /\ octets[2] = 120
    /\ \A i \in 3..Len(octets) : HexDigit(octets[i]) # -1
Keccak256(v) ==
    IF v.form = "text" /\ IsHexStrict(v.octets)
    THEN [octetsHash |-> [i \in 1..((Len(v.octets) - 2) \div 2) |->
                             16 * HexDigit(v.octets[2 * i + 1]) + HexDigit(v.octets[2 * i + 2])]]
    ELSE [octetsHash |-> v.octets]

RECURSIVE EncodeData(_, _, _)
Refuses(words) == \E i \in DOMAIN words : "refused" \in DOMAIN words[i]
GetStructHash(types, n, data) ==
    LET words == EncodeData(types, n, data) IN
    IF Refuses(words) THEN [refused |-> TRUE] ELSE [structHash |-> words]

\* One word for a value; [refused] when it cannot be encoded.
RECURSIVE EncodeValue(_, _, _)
EncodeList(types, field, data) ==
    LET known == Last(field.of.arrays)
        items == [i \in DOMAIN data.items |->
                     EncodeValue(types, [field EXCEPT !.of = ItemOf(field.of)], data.items[i])]
    IN IF \/ data.form # "array"
          \/ known \notin {AnySize, 0, Len(data.items)}
          \/ Refuses(items)
       THEN [refused |-> TRUE]
       ELSE [arrayHash |-> items]
EncodeValue(types, field, data) ==
    IF field.of.arrays # <<>> THEN EncodeList(types, field, data)
    ELSE IF field.struct # 0 THEN GetStructHash(types, field.struct, data)
    ELSE IF IsDynamic(field.of) THEN Keccak256(data)
    ELSE LET word == EncodeParam(field.of, data) IN
         IF word.ok THEN [word |-> word.encoded] ELSE [refused |-> TRUE]

EncodeData(types, n, data) ==
    <<[typeHash |-> EncodeType(types, n)]>>
    \o [i \in DOMAIN types[n] |->
          IF data.form # "object" \/ types[n][i].name \notin DOMAIN data.fields THEN [refused |-> TRUE]
          ELSE EncodeValue(types, types[n][i], data.fields[types[n][i].name])]

GetMessage(types, domainType, domain, primaryType, message) ==
    [domain |-> GetStructHash(types, domainType, domain),
     message |-> GetStructHash(types, primaryType, message)]
==============================================================================
