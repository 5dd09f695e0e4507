------------------------------- MODULE Formatter -------------------------------
(***************************************************************************)
(* format() of web3-utils/src/formatter.ts: an answer of the node is put   *)
(* in the number and byte formats the caller wants, by its schema.  The    *)
(* schema of a value is searched from the root along the path of its keys, *)
(* in which the indexes of arrays of objects do not appear.                *)
(*                                                                         *)
(* Data is an object [keys], an array [list] or a scalar [as, value].      *)
(***************************************************************************)
EXTENDS Integers, Schemas, SequencesExt

Scalar(as, value) == [as |-> as, value |-> value]
IsObject(d) == "keys" \in DOMAIN d
IsList(d) == "list" \in DOMAIN d

None == [none |-> TRUE]
Has(schema, part) == part \in DOMAIN schema
Lookup(f, key) == IF key \in DOMAIN f THEN f[key] ELSE None

NumberFormats == {"number", "hex", "string", "bigint"}
ByteFormats == {"hex", "Uint8Array"}

---------------------------------------------------------------------------
\* findSchemaByDataPath(): `chosen` maps the key of an array to the alternative
\* that convert() took for it.
FaultFindStep(chosen, found, part) ==
    LET schema == found.schema IN
    IF Has(schema, "properties")
    THEN [schema |-> Lookup(schema.properties, part), previous |-> part]
    ELSE IF Has(schema, "items") /\ Has(schema.items, "properties")
    THEN [schema |-> Lookup(schema.items.properties, part), previous |-> part]
    ELSE [schema |-> None, previous |-> part]
FindStep(chosen, found, part) ==
    LET schema == IF Has(found.schema, "oneOf") /\ found.previous \in DOMAIN chosen
                  THEN found.schema.oneOf[chosen[found.previous]] ELSE found.schema
        next   == IF Has(schema, "properties") THEN Lookup(schema.properties, part)
                  ELSE IF ~ Has(schema, "items") THEN None
                  ELSE IF Has(schema.items, "properties")
                  THEN Lookup(schema.items.properties, part)
                  ELSE schema.items
    IN [schema |-> next, previous |-> IF next = None THEN found.previous ELSE part]

FindSchema(schema, path, chosen) ==
    FoldLeft(LAMBDA found, part : FindStep(chosen, found, part),
             [schema |-> schema, previous |-> ""], path).schema

\* convertScalarValue(): what cannot be converted is left as it is.
ConvertScalar(d, schema, to) ==
    IF ~ Has(schema, "format") \/ IsList(d) \/ IsObject(d) THEN d
    ELSE IF schema.format = "uint" /\ d.as \in NumberFormats THEN Scalar(to.number, d.value)
    ELSE IF schema.format \in {"bytes", "bytes32", "bytes256"} /\ d.as \in ByteFormats
    THEN Scalar(to.bytes, d.value)
    ELSE d

\* The alternative for an array, by its first element; the last that fits.
ChosenFor(schema, list) ==
    LET fits(i) ==
            \/ list # <<>> /\ IsObject(list[1]) /\ Has(schema.oneOf[i].items, "properties")
            \/ list # <<>> /\ ~ IsObject(list[1]) /\ ~ Has(schema.oneOf[i].items, "properties")
        all     == {i \in DOMAIN schema.oneOf : Has(schema.oneOf[i], "items") /\ fits(i)}
    IN
    IF all = {} THEN 0 ELSE CHOOSE i \in all : \A j \in all : j <= i

RECURSIVE Convert(_, _, _, _, _)

\* One key of an object: its new value, or None if the key is deleted.
ConvertKey(d, root, path, chosen, to) ==
    LET schema == FindSchema(root, path, chosen)
        choice == IF Has(schema, "oneOf") THEN ChosenFor(schema, d.list) ELSE 0
        listed == IF choice > 0 THEN schema.oneOf[choice] ELSE schema
        inside == IF choice > 0 THEN (path[Len(path)] :> choice) @@ chosen ELSE chosen
    IN
    IF schema = None THEN None
    ELSE IF IsObject(d) THEN Convert(d, root, path, <<>>, to)
    ELSE IF ~ IsList(d) THEN ConvertScalar(d, schema, to)
    ELSE IF ~ Has(listed, "items") THEN None
    ELSE IF Has(listed.items, "format")
    THEN [list |-> [i \in DOMAIN d.list |-> ConvertScalar(d.list[i], listed.items, to)]]
    ELSE IF Has(listed.items, "properties")
    THEN [list |-> [i \in DOMAIN d.list |-> Convert(d.list[i], root, path, inside, to)]]
    ELSE d

\* The choices made under one key are looked up by its name only; no two keys
\* of an answer that have choices share a name.
Convert(d, root, path, chosen, to) ==
    LET converted == [k \in DOMAIN d.keys |-> ConvertKey(d.keys[k], root, Append(path, k), chosen, to)]
        kept      == {k \in DOMAIN d.keys : converted[k] # None}
    IN [keys |-> [k \in kept |-> converted[k]]]

Format(schema, d, to) ==
    IF IsObject(d) THEN Convert(d, schema, <<>>, <<>>, to) ELSE ConvertScalar(d, schema, to)

\* formatTransaction(): the data under both its names if that is asked, and the
\* limit of gas under one.
DataAndGas(t, fillInputAndData) ==
    LET bytes  == IF "data" \in DOMAIN t THEN t.data ELSE t.input
        filled == IF fillInputAndData /\ {"data", "input"} \cap DOMAIN t # {}
                  THEN [data |-> bytes, input |-> bytes] @@ t ELSE t
        named  == IF "gasLimit" \in DOMAIN t THEN [gas |-> t.gasLimit] @@ filled ELSE filled
    IN
    IF {"data", "input"} \subseteq DOMAIN t /\ t.data.value # t.input.value
    THEN None
    ELSE [keys |-> [k \in DOMAIN named \ {"gasLimit"} |-> named[k]]]
FormatTransaction(d, to, fillInputAndData) ==
    DataAndGas(Format(transactionInfoSchema, d, to).keys, fillInputAndData)

---------------------------------------------------------------------------
(* Answers of a node, and what a caller may expect of them                 *)

\* An answer that has every key of its schema, with arrays of n elements and
\* the `alternative`-th of every choice.  Only the transaction of a caller has
\* a `common`, never one of a list that a node answers: below a choice, an
\* object in an object would lose its keys.
WithoutCommon(schema) ==
    IF Has(schema, "properties")
    THEN Obj([k \in DOMAIN schema.properties \ {"common"} |-> schema.properties[k]])
    ELSE schema
RECURSIVE Sample(_, _, _)
Sample(schema, n, alternative) ==
    IF Has(schema, "properties")
    THEN [keys |-> [k \in DOMAIN schema.properties |-> Sample(schema.properties[k], n, alternative)]]
    ELSE IF Has(schema, "items")
    THEN [list |-> [i \in 1..n |-> Sample(WithoutCommon(schema.items), n, alternative)]]
    ELSE IF Has(schema, "oneOf") THEN Sample(schema.oneOf[alternative], n, alternative)
    ELSE IF Has(schema, "format") /\ schema.format \in {"uint", "bytes", "bytes32", "bytes256"}
    THEN Scalar("hex", 7)
    ELSE Scalar("text", 7)

\* The same conversion, straight down the schema, with nothing deleted.  Lists
\* of lists are left alone, as a remark at web3_eth.ts:1424 says.
RECURSIVE Expected(_, _, _, _)
Expected(d, schema, alternative, to) ==
    IF Has(schema, "oneOf") THEN Expected(d, schema.oneOf[alternative], alternative, to)
    ELSE IF IsObject(d)
    THEN [keys |-> [k \in DOMAIN d.keys |-> Expected(d.keys[k], schema.properties[k], alternative, to)]]
    ELSE IF IsList(d) /\ Has(schema.items, "items") THEN d
    ELSE IF IsList(d)
    THEN [list |-> [i \in DOMAIN d.list |-> Expected(d.list[i], schema.items, alternative, to)]]
    ELSE ConvertScalar(d, schema, to)
==============================================================================
