------------------------------ MODULE Validation ------------------------------
(***************************************************************************)
(* Which arguments the validator lets through (web3-validator/src).        *)
(*                                                                         *)
(* A type is [base, size, arrays, components]: arrays are the sizes behind *)
(* the base type, AnySize for [].  A value is [form, ...]: "number", "bigint", *)
(* "decimal" and "hex" are ways to write the number n, `digits` how many   *)
(* digits the hex has; "address" is a hex address, whose `case` says       *)
(* whether its letters are the checksum; "array" has items and "object"    *)
(* fields.                                                                 *)
(***************************************************************************)
EXTENDS Integers, SequencesExt

AnySize == -1       \* no size: "[]", or a type without one ("uint")

Numerals == {"number", "bigint", "decimal", "hex"}
Texts    == {"decimal", "hex", "address", "word", "empty"}

Width(size) == IF size = AnySize THEN 256 ELSE size
\* The integers of the model have 32 bits: a wider type holds all of them.
Power(w) == IF w > 30 THEN 2147483647 ELSE 2 ^ w

HasValue(v) == v.form \in Numerals /\ (v.form = "hex" => v.digits > 0)

IsUInt(v, size) ==
    \/ HasValue(v) /\ v.n >= 0 /\ (v.n <= Power(Width(size)) - 1 \/ Width(size) > 30)
    \/ v.form = "unsafe" /\ Width(size) > 53
    \/ v.form = "address" /\ Width(size) >= 160

\* The largest value let through is one too large, and no text is zero.
IsInt(v, size) ==
    LET half == Power(Width(size) - 1) IN
    \/ HasValue(v) /\ v.n >= - half /\ v.n <= half
    \/ v.form = "address" /\ Width(size) > 160
    \/ v.form = "empty"

IsNumber(v) == IsInt(v, AnySize) \/ v.form \in {"number", "unsafe", "fraction"}

IsBoolean(v) ==
    \/ v.form = "boolean"
    \/ v.form \in {"number", "decimal"} /\ v.n \in {0, 1}
    \/ v.form = "hex" /\ v.digits = 1 /\ v.n \in {0, 1}

IsString(v) == v.form \in Texts

IsOctet(v) == v.form = "number" /\ v.n \in 0..255
IsBytes(v, size) ==
    LET length == IF v.form = "hex" THEN v.digits \div 2
                  ELSE IF v.form = "address" THEN 20
                  ELSE IF v.form = "array" THEN Len(v.items) ELSE 0 IN
    /\ \/ v.form = "hex" /\ v.n >= 0 /\ v.digits % 2 = 0
       \/ v.form = "address"
       \/ v.form = "array" /\ \A i \in DOMAIN v.items : IsOctet(v.items[i])
    /\ size # AnySize => length = size

CheckAddressCheckSum(v) == v.case = "checksum"
IsAddress(v) == v.form = "address" /\ (v.case \in {"lower", "upper"} \/ CheckAddressCheckSum(v))

FormatHolds(format, v) ==
    CASE format.base = "uint"    -> IsUInt(v, format.size)
      [] format.base = "int"     -> IsInt(v, format.size)
      [] format.base = "bytes"   -> IsBytes(v, format.size)
      [] format.base = "bool"    -> IsBoolean(v)
      [] format.base = "string"  -> IsString(v)
      [] format.base = "address" -> IsAddress(v)
      [] format.base = "number"  -> IsNumber(v)

---------------------------------------------------------------------------
(* A schema: "format", "list" (one schema for each item) or "each" (one    *)
(* schema for all items).  The minItems and maxItems of the code are left  *)
(* out: nothing reads them.                                                *)

Unmakable == [kind |-> "throws"]
List(items)  == [kind |-> "list", items |-> items]
Each(item)   == [kind |-> "each", item |-> item]

ConvertEthType(base, size) == [kind |-> "format", base |-> base, size |-> size]

\* The schemas around that of an array of several dimensions: each but the
\* last is put in place of a list.
RECURSIVE Nest(_, _)
Nest(schema, depth) ==
    IF depth = 0 THEN schema
    ELSE IF depth = 1 THEN List(<<schema>>)
    ELSE Each(Nest(schema, depth - 1))

FaultPush(schema, item, depth, scalar) ==
    IF schema.kind = "throws" \/ item.kind = "throws" THEN Unmakable
    ELSE IF schema.kind = "list" THEN List(<<item>> \o schema.items)
    ELSE Unmakable

Push(schema, item, depth, scalar) ==
    IF schema.kind = "throws" \/ item.kind = "throws" THEN Unmakable
    ELSE IF depth > 0 THEN
        IF schema = List(<<>>) THEN Each(Nest(item, depth))
        ELSE IF schema.kind = "list" THEN List(Append(schema.items, Nest(item, depth)))
        ELSE List(<<schema.item, Nest(item, depth)>>)
    ELSE IF schema.kind = "list" THEN List(Append(schema.items, item))
    ELSE IF scalar /\ schema.item.kind = "list"
         THEN Each(List(Append(schema.item.items, item)))
    ELSE Unmakable

RECURSIVE AbiSchemaToJsonSchema(_)
AbiSchemaToJsonSchema(types) ==
    LET itemOf(t) ==
            LET one == IF t.base = "tuple" THEN AbiSchemaToJsonSchema(t.components)
                       ELSE ConvertEthType(t.base, IF t.arrays = <<>> THEN t.size ELSE AnySize)
            IN IF t.arrays = <<>> \/ one.kind = "throws" THEN one ELSE Each(one)
        add(schema, t) ==
            Push(schema, itemOf(t), Len(t.arrays) - 1, t.arrays = <<>> /\ t.base # "tuple")
    IN FoldLeft(add, List(<<>>), types)

\* What zod makes of a schema: a list needs as many items as it has schemas,
\* one for all items any number.
RECURSIVE Holds(_, _)
Holds(schema, v) ==
    CASE schema.kind = "format" -> FormatHolds(schema, v)
      [] schema.kind = "list" ->
            /\ v.form = "array"
            /\ Len(v.items) = Len(schema.items)
            /\ \A i \in DOMAIN v.items : Holds(schema.items[i], v.items[i])
      [] schema.kind = "each" ->
            v.form = "array" /\ \A i \in DOMAIN v.items : Holds(schema.item, v.items[i])

Validate(types, data) ==
    LET schema == AbiSchemaToJsonSchema(types) IN
    IF schema = List(<<>>) THEN data = <<>>
    ELSE schema.kind # "throws" /\ Holds(schema, [form |-> "array", items |-> data])

---------------------------------------------------------------------------
(* Arguments by name, put in the order of the types *)

Missing == [form |-> "nothing"]

Item(data, i, t) ==
    IF data.form = "array" THEN IF i \in DOMAIN data.items THEN data.items[i] ELSE Missing
    ELSE IF t.name \in DOMAIN data.fields THEN data.fields[t.name] ELSE Missing

RECURSIVE FetchArrayElement(_, _)
FetchArrayElement(data, level) ==
    IF level = 1 THEN data ELSE FetchArrayElement(data.items[1], level - 1)

RECURSIVE TransformJsonDataToAbiFormat(_, _)
TransformJsonDataToAbiFormat(types, data) ==
    LET tuple(t, v) ==
            [form |-> "array", items |-> TransformJsonDataToAbiFormat(t.components, v)]
        each(v, F(_)) == [form |-> "array", items |-> [i \in DOMAIN v.items |-> F(v.items[i])]]
        one(i) ==
            LET t == types[i]  v == Item(data, i, t) IN
            IF t.base # "tuple" THEN v
            ELSE IF t.arrays = <<>> THEN tuple(t, v)
            ELSE each(v, LAMBDA w :
                    IF Len(t.arrays) = 1 THEN tuple(t, w)
                    ELSE each(FetchArrayElement(w, Len(t.arrays) - 1), LAMBDA x : tuple(t, x)))
    IN [i \in DOMAIN types |-> one(i)]

---------------------------------------------------------------------------
(* Bloom filters: `bloom` is its hex digits as code points, `positions`    *)
(* the three bits that the hash of a value says, below 4 * Len(bloom).     *)

CodePointToInt(c) ==
    IF c \in 48..57 THEN c - 48 ELSE IF c \in 65..70 THEN c - 55 ELSE c - 87

Bit(n, i) == (n \div 2 ^ i) % 2

IsInBloom(bloom, positions) ==
    \A p \in positions : Bit(CodePointToInt(bloom[Len(bloom) - (p \div 4)]), p % 4) = 1
==============================================================================
