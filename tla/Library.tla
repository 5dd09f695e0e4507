-------------------------------- MODULE Library --------------------------------
(***************************************************************************)
(* The functions of the library that keep no state, asked one question at  *)
(* a time: each property compares the answer with what was asked, by a     *)
(* definition of its own.  Those about keys are in SignedMessages.         *)
(***************************************************************************)
EXTENDS SignedMessages, FiniteSetsExt, SequencesExt

CONSTANTS
    Unset,    \* an absent value
    Throws,     \* what comes of a call that throws
    Table,      \* a parameter that is no number
    Chars,      \* characters of base 36 that account numbers are made of
    Amounts,    \* numbers that are converted
    ArgumentLists, \* arguments and their types: [types, values]
    WORD_SIZE,  \* octets of a word of the ABI
    AbiTypes,   \* lists of parameters
    TypedTypes, \* struct types of typed data, each with struct 1 for its domain
    Forks       \* sequences of [key, value]: the forks of a genesis file

ASSUME WordSizeAssumption == WORD_SIZE \in 2..3     \* integers have 32 bits

Ch == INSTANCE Chains
Ga == INSTANCE TransactionGas
Fm == INSTANCE Formatter
Vl == INSTANCE Values
Vd == INSTANCE Validation
Td == INSTANCE TypedData

libVars == <<question, answer>>

LibInit == Unasked

---------------------------------------------------------------------------
(* Formatting an answer of the node *)

Schemas ==
    [accessList |-> Fm!accessListResultSchema, transaction |-> Fm!transactionSchema,
     transactionInfo |-> Fm!transactionInfoSchema, block |-> Fm!blockSchema,
     header |-> Fm!blockHeaderSchema, log |-> Fm!logSchema, sync |-> Fm!syncSchema,
     receipt |-> Fm!transactionReceiptSchema, signature |-> Fm!SignatureObjectSchema,
     fees |-> Fm!feeHistorySchema, proof |-> Fm!accountSchema]

Formats == [number : Fm!NumberFormats, bytes : Fm!ByteFormats]

AskFormat ==
    \E name \in DOMAIN Schemas, n \in 1..2, alternative \in {1, 2}, to \in Formats :
        Question([topic |-> "format", schema |-> name, n |-> n, alternative |-> alternative, to |-> to],
            Fm!Format(Schemas[name], Fm!Sample(Schemas[name], n, alternative), to))

AskTransaction ==
    \E input \in {"data", "input"}, gas \in {"gas", "gasLimit"}, fill \in BOOLEAN, to \in Formats :
        Question([topic |-> "transaction", input |-> input, gas |-> gas, fill |-> fill, to |-> to],
            Fm!FormatTransaction([keys |-> [k \in {"from", input, gas} |->
                IF k = "from" THEN Fm!Scalar("text", 7) ELSE Fm!Scalar("hex", 7)]], to, fill))

\* Every value of an answer of the node, at any depth, comes out in the format
\* asked for its kind, and none is lost (web3-utils/src/formatter.ts).  A
\* transaction says its gas and its data under the names that the node reads.
FormatsFaithfully ==
    /\ question.topic = "format" =>
          LET schema == Schemas[question.schema] IN
          answer = Fm!Expected(Fm!Sample(schema, question.n, question.alternative), schema,
                               question.alternative, question.to)
    /\ question.topic = "transaction" =>
          LET input == IF question.fill THEN {"data", "input"} ELSE {question.input} IN
          answer.keys = [k \in {"from", "gas"} \cup input |->
                            IF k = "from" THEN Fm!Scalar("text", 7)
                            ELSE IF k = "gas" THEN Fm!Scalar(question.to.number, 7)
                            ELSE Fm!Scalar(question.to.bytes, 7)]

---------------------------------------------------------------------------
(* Converting numbers *)

\* A unit is given by its name or by its zeros.
Zeros == {1, 2} \cup {Vl!ethUnitMap[unit] : unit \in {"wei", "kwei"}}

AskWei ==
    \/ \E n \in Amounts \ {0}, zeros \in Zeros :
          Question([topic |-> "from wei", n |-> n, zeros |-> zeros],
              Vl!ToWei(Vl!FromWei(n, zeros), zeros))
    \/ \E integer \in {n \in Amounts : n < 10000}, fraction \in {<<>>, <<0>>, <<5>>, <<0, 5>>, <<2, 5>>}, zeros \in Zeros :
          Question([topic |-> "to wei", integer |-> integer, fraction |-> fraction, zeros |-> zeros],
              Vl!ToWei([integer |-> Vl!Digits(integer, 10), fraction |-> fraction], zeros))

AskNumber ==
    \/ \E n \in Amounts \cup {- a : a \in Amounts}, strict \in BOOLEAN :
          Question([topic |-> "hex", n |-> n, strict |-> strict], Vl!NumberToHex(n, strict))
    \/ \E n \in Amounts \cup {- a : a \in Amounts}, width \in {2, 4} :
          ~ Vl!TooWide(n, width) /\
          Question([topic |-> "complement", n |-> n, width |-> width], Vl!ToTwosComplement(n, width))
    \/ \E n \in Amounts \cup {- a : a \in Amounts}, type \in {"int", "uint"}, size \in {8, 12, 16} :
          Question([topic |-> "pack", n |-> n, type |-> type, size |-> size],
              IF Vl!SolidityPackError(type, size, n) # "ok" THEN <<>>
              ELSE Vl!SolidityPack(type, size, n))

Fits(type, size, n) ==
    IF type = "uint" THEN n \in 0..(2 ^ size - 1) ELSE n \in (1 - 2 ^ (size - 1))..(2 ^ (size - 1) - 1)

AskHexText ==
    \E n \in Amounts, width \in 4..6 :
        \/ Question([topic |-> "hex text", n |-> n],
               Vl!HexToHex(Vl!LeftPad(Vl!NumberToHex(n, FALSE), width)))
        \/ Question([topic |-> "right pad", n |-> n, width |-> width],
               Vl!RightPad(Vl!NumberToHex(n, FALSE), width))

AskPacked ==
    \E n \in Amounts, m \in {0, 1, 255}, digits \in {<<>>, <<1, 2>>, <<0, 15, 1, 0>>}, size \in {1, 2, 4} :
        Question([topic |-> "packed", n |-> n, digits |-> digits, size |-> size, m |-> m],
            Vl!EncodePacked(<<Vl!SolidityPack("uint", 16, n), Vl!SolidityPackBytes(digits, size),
                              Vl!SolidityPack("uint", 8, m)>>))

AskIban ==
    \/ \E length \in {13, 16, 30, 31} : \E first, last \in Chars :
          LET bban == [i \in 1..length |-> IF length = 16 /\ i <= 3 THEN Vl!Eth[i]
                                          ELSE IF i = length THEN last ELSE first] IN
          Question([topic |-> "iban", bban |-> bban], Vl!FromBban(bban))
    \/ \E i, j, k \in Chars :
          LET institution == <<i, j, i, i>>  client == <<k, i, j, j, j, j, j, j, k>> IN
          Question([topic |-> "indirect", institution |-> institution, client |-> client],
                   Vl!CreateIndirect(institution, client))
    \/ \E length \in {1, 14, 15, 17, 30, 31} : \E first, last \in Chars :
          LET base36 == [i \in 1..length |-> IF i = length THEN last ELSE first] IN
          Question([topic |-> "address", base36 |-> base36], Vl!FromAddress(base36))

\* What a number is turned into says which number it was: in wei and in any
\* unit, for fromWei() and toWei() undo each other and toWei() of an amount
\* with no more decimals than the unit has zeros is exact (zero is left out: it
\* is written "0.", or as no digits); as hex, in the two's complement of a width that holds it, packed for a hash, and in the check
\* digits of an account number, which is valid exactly when its length is one
\* that IBAN knows (converters.ts, hash.ts, web3-eth-iban/src/iban.ts).
NumbersExact ==
    /\ question.topic = "from wei" => answer = Vl!Digits(question.n, 10)
    /\ question.topic = "to wei" =>
          LET n == Len(question.fraction) IN
          (n <= question.zeros /\ (question.integer > 0 \/ n = 0)) =>
              answer = Vl!Digits((question.integer * 10 ^ n + Vl!Number(question.fraction, 10))
                                 * 10 ^ (question.zeros - n), 10)
    /\ question.topic = "hex" =>
          /\ Vl!HexToNumber(answer) = question.n
          /\ question.strict => Len(answer.digits) % 2 = 0
    /\ question.topic = "complement" =>
          LET n == question.n  w == question.width IN
          (n > - 2 ^ (4 * w - 1) /\ n < 2 ^ (4 * w - 1)) =>
              /\ Len(answer.digits) = w
              /\ Vl!FromTwosComplement(Vl!HexToNumber(answer), w) = n
    /\ question.topic = "pack" =>
          /\ question.size % 8 = 0 /\ Fits(question.type, question.size, question.n) =>
                Vl!Number(answer, 16) = question.n % (2 ^ question.size)
          /\ question.size % 8 # 0 => answer = <<>>
          /\ answer # <<>> => Len(answer) = question.size \div 4
    /\ question.topic = "hex text" =>
          /\ Vl!HexToNumber(answer) = question.n
          /\ Vl!IsHexText(answer) <=> question.n # 0
    /\ question.topic = "right pad" =>
          Vl!HexToNumber(answer)
              = question.n * 16 ^ (question.width - Len(Vl!NumberToHex(question.n, FALSE).digits))
    /\ question.topic = "packed" =>
          LET size == 2 * question.size  digits == question.digits IN
          IF Len(digits) > size THEN Vl!InvalidBytes \in ToSet(answer)
          ELSE /\ Len(answer) = 6 + size
               /\ Vl!Number(SubSeq(answer, 1, 4), 16) = question.n
               /\ IsPrefix(digits, SubSeq(answer, 5, 4 + size))
               /\ Vl!Number(SubSeq(answer, 5 + size, 6 + size), 16) = question.m
    /\ question.topic = "iban" =>
          /\ Vl!IsValidIban(answer) <=> Vl!IsIban(answer)
          /\ Vl!ToAddress(answer) = Vl!TrimStart(question.bban)
    /\ question.topic = "indirect" =>
          /\ Vl!IsValidIban(answer) /\ Vl!IsIndirect(answer)
          /\ Vl!Institution(answer) = question.institution /\ Vl!Client(answer) = question.client
    /\ question.topic = "address" =>
          /\ Vl!ToAddress(answer) = question.base36
          /\ Vl!IsValidIban(answer) <=> Len(question.base36) >= 30

---------------------------------------------------------------------------
(* Validating arguments *)

AskArguments ==
    \E list \in ArgumentLists :
        Question([topic |-> "arguments", types |-> list.types, values |-> list.values],
                 Vd!Validate(list.types, list.values))

\* The digits of a bloom filter with these bits, as code points; upper or
\* lower case.
Digits(bits, n, upper) ==
    [i \in 1..n |->
        LET digit == SumSet({2 ^ (b % 4) : b \in {b \in bits : b \div 4 = n - i}}) IN
        IF digit < 10 THEN 48 + digit ELSE (IF upper THEN 55 ELSE 87) + digit]
AskBloom ==
    \E bits, positions \in SUBSET (0..5), upper \in BOOLEAN :
        Question([topic |-> "bloom", bits |-> bits, positions |-> positions],
                 Vd!IsInBloom(Digits(bits, 2, upper), positions))

\* What the type means: integers of its range, written in any way, and arrays
\* of the size of each dimension, the outermost last.
Numeral(v) == v.form \in Vd!Numerals /\ (v.form = "hex" => v.digits > 0)
RECURSIVE IsOf(_, _)
IsOf(t, v) ==
    IF t.arrays # <<>>
    THEN /\ v.form = "array"
         /\ Last(t.arrays) \in {Vd!AnySize, Len(v.items)}
         /\ \A i \in DOMAIN v.items : IsOf([t EXCEPT !.arrays = Front(t.arrays)], v.items[i])
    ELSE CASE t.base = "tuple" ->
                /\ v.form = "array" /\ Len(v.items) = Len(t.components)
                /\ \A i \in DOMAIN t.components : IsOf(t.components[i], v.items[i])
           [] t.base = "uint" ->
                IF t.size = Vd!AnySize
                THEN v.form \in {"unsafe", "address"} \/ (Numeral(v) /\ v.n >= 0)
                ELSE Numeral(v) /\ v.n \in 0..(2 ^ t.size - 1)
           [] t.base = "int" ->
                /\ Numeral(v)
                /\ t.size # Vd!AnySize => v.n \in - 2 ^ (t.size - 1)..(2 ^ (t.size - 1) - 1)
           [] t.base = "bool" ->
                \/ v.form = "boolean"
                \/ Numeral(v) /\ v.form # "bigint" /\ v.n \in {0, 1}
                   /\ (v.form = "hex" => v.digits = 1)
           [] t.base = "string" -> v.form \in Vd!Texts
           [] t.base = "bytes" ->
                \/ /\ v.form = "hex" /\ v.n >= 0
                   /\ v.digits \in (IF t.size = Vd!AnySize THEN {0, 2, 4, 6}
                                    ELSE {2 * t.size})
                \/ v.form = "address" /\ t.size = Vd!AnySize
                \/ /\ v.form = "array" /\ t.size \in {Vd!AnySize, Len(v.items)}
                   /\ \A i \in DOMAIN v.items : Vd!IsOctet(v.items[i])
           [] t.base = "address" -> v.form = "address" /\ v.case # "wrong"

AllAre(types, values) ==
    Len(types) = Len(values) /\ \A i \in DOMAIN types : IsOf(types[i], values[i])
Dimensions(types) == Max({0} \cup {Len(types[i].arrays) : i \in DOMAIN types})

\* Arguments of their types are let through, whatever stands before and behind
\* them in the list, and others are not: but for types with an array of
\* several dimensions, for arrays of a size or of a narrow type, which are let
\* through in any size and width, and for integers, of which one above the
\* largest and the empty text are (web3-validator/src).  A value of a bloom
\* filter is found in it.
Validated ==
    /\ question.topic = "arguments" /\ Dimensions(question.types) <= 1 =>
          /\ AllAre(question.types, question.values) => answer
          /\ (answer /\ \A i \in DOMAIN question.types :
                 question.types[i].arrays = <<>> /\ question.types[i].base # "int") =>
                    AllAre(question.types, question.values)
    /\ question.topic = "bloom" => (answer <=> question.positions \subseteq question.bits)

---------------------------------------------------------------------------
(* Coding parameters *)

\* Values of a type, at the edges of what it holds, and some that are not.
OfForm(form, n)   == [form |-> form, octets |-> [i \in 1..n |-> 48 + i]]
RECURSIVE Samples(_)
GoodSample(t) == CHOOSE v \in Samples(t) : Td!EncodeParam(t, v).ok /\ v \notin {OfForm("text", 0), OfForm("hex", 0)}
Samples(t) ==
    IF t.arrays # <<>>
    THEN LET item  == Td!ItemOf(t)
             items == {GoodSample(item), CHOOSE v \in Samples(item) : v # GoodSample(item)}
             size  == Last(t.arrays)
         IN {[form |-> "array", items |-> s] :
                s \in UNION {[1..n -> items] : n \in IF size = Td!AnySize THEN {0, 2} ELSE {1, size}}}
    ELSE CASE t.base \in {"uint", "int"} ->
                {[form |-> "number", n |-> n] : n \in {-129, -128, 0, 127, 128, 255, 256, 65536}}
           [] t.base = "bool"    -> {[form |-> "boolean", b |-> TRUE], [form |-> "number", n |-> 1],
                                     [form |-> "number", n |-> 2]}
           [] t.base = "address" -> {OfForm("hex", WORD_SIZE - 1), OfForm("hex", WORD_SIZE)}
           [] t.base = "string"  -> {OfForm("text", n) : n \in {0, WORD_SIZE, WORD_SIZE + 1}}
           [] t.base = "bytes"   -> {OfForm("hex", n) : n \in {0, 1, 2, 2 * WORD_SIZE}}
           [] t.base = "tuple"   ->
                LET last  == [i \in DOMAIN t.components |-> GoodSample(t.components[i])]
                    names == {t.components[i].name : i \in DOMAIN t.components}
                IN {[form |-> "array", items |-> last], [form |-> "array", items |-> Front(last)],
                    [form |-> "object", fields |-> [name \in names |->
                        last[CHOOSE i \in DOMAIN last : t.components[i].name = name]]]}

Together(types, of(_)) ==
    FoldLeft(LAMBDA lists, t : {Append(list, v) : list \in lists, v \in of(t)}, {<<>>}, types)

DecodeBack(types, values, coded) ==
    \/ Question([topic |-> "abi", types |-> types, values |-> values],
           [coded |-> coded.ok, decoded |-> Td!DecodeParameters(types, coded.encoded)])
    \/ \E cut \in {1, WORD_SIZE, WORD_SIZE + 1} :
          /\ coded.ok /\ cut < Len(coded.encoded)
          /\ Question([topic |-> "cut", types |-> types, values |-> values],
                 Td!DecodeParameters(types, Td!Take(coded.encoded, Len(coded.encoded) - cut)))

AskAbi ==
    \E types \in AbiTypes : \E values \in Together(types, Samples) :
        DecodeBack(types, values, Td!EncodeParameters(types, values))

\* The log of an event whose parameters from `from` on are indexed: the topic
\* of a value that has one word is that word, of another a hash.
Hashed == [i \in 1..WORD_SIZE |-> 200]
Encodable(t) == {v \in Samples(t) : Td!EncodeParam(t, v).ok}
IsWord(t) == t.arrays = <<>> /\ t.base # "tuple" /\ ~ Td!IsDynamic(t)
AskLog ==
    \E types \in AbiTypes : \E first \in 1..Len(types), values \in Together(types, Encodable) :
        LET inputs == [i \in DOMAIN types |-> [types[i] EXCEPT !.indexed = i >= first]]
            data   == Td!EncodeParameters(SubSeq(types, 1, first - 1), SubSeq(values, 1, first - 1))
            topics == [i \in 1..(1 + Len(types) - first) |->
                          LET j == first + i - 1 IN
                          IF IsWord(types[j]) THEN Td!EncodeParam(types[j], values[j]).encoded ELSE Hashed]
        IN Question([topic |-> "log", inputs |-> inputs, values |-> values],
                    Td!DecodeLog(inputs, data.encoded, <<Hashed>> \o topics))

\* The reason of a contract, whose ABI has two errors.
AskError ==
    \E types \in AbiTypes : \E values \in Together(types, Encodable), signature \in 1..3 :
        Question([topic |-> "error", types |-> types, values |-> values, signature |-> signature],
            Td!DecodeContractErrorData(
                <<[name |-> "first", inputs |-> <<>>, signature |-> 1],
                  [name |-> "second", inputs |-> types, signature |-> 2]>>,
                signature, Td!EncodeParameters(types, values).encoded))

\* What an integer of so many bits, and so on, is; a list of components may be
\* too long.
RECURSIVE HasType(_, _)
HasType(t, v) ==
    IF t.arrays # <<>>
    THEN /\ v.form = "array" /\ Last(t.arrays) \in {Td!AnySize, Len(v.items)}
         /\ \A i \in DOMAIN v.items : HasType(Td!ItemOf(t), v.items[i])
    ELSE CASE t.base = "tuple" ->
                \A i \in DOMAIN t.components :
                    \/ /\ v.form = "array" /\ i \in DOMAIN v.items
                       /\ HasType(t.components[i], v.items[i])
                    \/ /\ v.form = "object" /\ t.components[i].name \in DOMAIN v.fields
                       /\ HasType(t.components[i], v.fields[t.components[i].name])
           [] t.base = "uint" -> v.n >= 0 /\ (t.size # Td!AnySize => v.n < 2 ^ t.size)
           [] t.base = "int"  ->
                t.size # Td!AnySize => v.n >= - 2 ^ (t.size - 1) /\ v.n < 2 ^ (t.size - 1)
           [] t.base = "bool" -> v.form = "boolean" \/ v.n \in {0, 1}
           [] t.base = "address" -> Len(v.octets) = WORD_SIZE - 1
           [] t.base = "bytes" -> t.size # Td!AnySize => Len(v.octets) <= t.size
           [] t.base = "string" -> TRUE

\* The value as it comes back: a truth value is one, fixed bytes are filled up,
\* and a tuple has its components by place and by name.
RECURSIVE ComesBack(_, _)
ComesBack(t, v) ==
    IF t.arrays # <<>>
    THEN [form |-> "array", items |-> [i \in DOMAIN v.items |-> ComesBack(Td!ItemOf(t), v.items[i])]]
    ELSE CASE t.base = "tuple" ->
                LET part(i) == IF v.form = "array" THEN v.items[i] ELSE v.fields[t.components[i].name] IN
                Td!Struct(t.components,
                          [i \in DOMAIN t.components |-> ComesBack(t.components[i], part(i))])
           [] t.base = "bool"  -> [form |-> "boolean", b |-> v.form = "boolean" \/ v.n = 1]
           [] t.base = "bytes" -> [v EXCEPT !.octets = v.octets \o
                                      [i \in 1..(IF t.size = Td!AnySize THEN 0 ELSE t.size - Len(v.octets)) |-> 0]]
           [] OTHER -> v
AllComeBack(types, values) == [i \in DOMAIN types |-> ComesBack(types[i], values[i])]

\* The same, but for a text or bytes that break off.
RECURSIVE BrokenOff(_, _)
BrokenOff(v, w) ==
    \/ v = w
    \/ v.form \in {"text", "hex"} /\ IsPrefix(v.octets, w.octets)
    \/ /\ v.form \in {"array", "struct"} /\ Len(v.items) = Len(w.items)
       /\ \A i \in DOMAIN v.items : BrokenOff(v.items[i], w.items[i])

\* Parameters of their types are encoded, others are refused, and what was
\* encoded is decoded to the same values, however lists and tuples of fixed and
\* unknown length are nested.  Data that break off are refused, but that a text
\* or bytes may end early; and the values of a log are those of the event, or
\* the hash of one that has no single word.  Lists are left out where they are
\* indexed: the decoder takes the hash for the list.
DecodesWhatWasEncoded ==
    /\ question.topic = "abi" =>
          /\ answer.coded <=> \A i \in DOMAIN question.types : HasType(question.types[i], question.values[i])
          /\ answer.coded => /\ answer.decoded.ok
                             /\ answer.decoded.result.items = AllComeBack(question.types, question.values)
    /\ (question.topic = "cut" /\ answer.ok) =>
          \A i \in DOMAIN question.types :
              BrokenOff(answer.result.items[i], AllComeBack(question.types, question.values)[i])
    /\ (question.topic = "log"
        /\ \A i \in DOMAIN question.inputs : question.inputs[i].indexed => question.inputs[i].arrays = <<>>) =>
          LET expected == AllComeBack(question.inputs, question.values)
              found    == answer.result.items
          IN /\ answer.ok
             /\ \A i \in DOMAIN question.inputs :
                   LET t == question.inputs[i] IN
                   IF ~ t.indexed THEN found[i] = expected[i]
                   ELSE IF ~ IsWord(t) THEN found[i].octets = Hashed
                   ELSE IF t.base = "bytes" THEN IsPrefix(expected[i].octets, found[i].octets)
                   ELSE found[i] = expected[i]
    /\ question.topic = "error" =>
          /\ answer.name = <<"first", "second", "">>[question.signature]
          /\ question.signature = 2 =>
                answer.decoded /\ answer.arguments.items = AllComeBack(question.types, question.values)

---------------------------------------------------------------------------
(* Hashing typed data *)

TextOf(octets) == [form |-> "text", octets |-> octets]
\* "", "a", and "0x61", which reads as a hex string
Texts == {TextOf(<<>>), TextOf(<<97>>), TextOf(<<48, 120, 54, 49>>)}

RECURSIVE TypedMessages(_, _), FieldValues(_, _)
FieldValues(types, field) ==
    IF field.of.arrays # <<>>
    THEN LET items == FieldValues(types, [field EXCEPT !.of = Td!ItemOf(field.of)])
             v == CHOOSE v \in items : TRUE
             w == CHOOSE w \in items : w # v
         IN {[form |-> "array", items |-> s] : s \in {<<>>, <<v>>, <<w, v>>, <<v, w>>}}
    ELSE IF field.struct # 0 THEN TypedMessages(types, field.struct)
    ELSE IF field.of.base = "string" THEN Texts
    ELSE IF field.of.base = "bytes" THEN {[form |-> "hex", octets |-> <<97>>]}
    ELSE {[form |-> "number", n |-> n] : n \in {0, 1}}
TypedMessages(types, n) ==
    LET fields == FoldLeft(LAMBDA made, field :
                      {[name \in {field.name} |-> v] @@ m : m \in made, v \in FieldValues(types, field)},
                      {[name \in {} |-> 0]}, types[n])
    IN {[form |-> "object", fields |-> f] : f \in fields}

Domain == [form |-> "object", fields |-> [name |-> TextOf(<<97>>)]]
AskTypedData ==
    \E one, other \in TypedTypes : \E m \in TypedMessages(one, 2), n \in TypedMessages(other, 2) :
        Question([topic |-> "typed data", types |-> <<one, other>>, messages |-> <<m, n>>],
            <<Td!GetMessage(one, 1, Domain, 2, m), Td!GetMessage(other, 1, Domain, 2, n)>>)

Reached(types, n) ==
    LET further(set) == set \cup ({field.struct : field \in UNION {ToSet(types[s]) : s \in set}} \ {0})
    IN FoldLeft(LAMBDA set, i : further(set), {n}, [i \in 1..Cardinality(DOMAIN types) |-> i])

RECURSIVE ReadsAsHex(_)
ReadsAsHex(v) ==
    CASE v.form = "text"   -> Td!IsHexStrict(v.octets)
      [] v.form = "array"  -> \E i \in DOMAIN v.items : ReadsAsHex(v.items[i])
      [] v.form = "object" -> \E name \in DOMAIN v.fields : ReadsAsHex(v.fields[name])
      [] OTHER -> FALSE

RECURSIVE InSize(_, _, _)
InSize(types, field, v) ==
    IF field.of.arrays # <<>>
    THEN /\ Last(field.of.arrays) \in {Td!AnySize, Len(v.items)}
         /\ \A i \in DOMAIN v.items : InSize(types, [field EXCEPT !.of = Td!ItemOf(field.of)], v.items[i])
    ELSE field.struct # 0 =>
            \A i \in DOMAIN types[field.struct] :
                InSize(types, types[field.struct][i], v.fields[types[field.struct][i].name])

\* Two messages have one hash only if they and their types are the same, so
\* that nobody signs one and is held to another; and a type names each struct
\* it is made of once (eip_712.ts).  A text that reads as a hex string is
\* hashed as what it stands for, and left out.
TypedDataToldApart ==
    question.topic = "typed data" =>
        /\ \A k \in 1..2 :
              LET type == Td!EncodeType(question.types[k], 2) IN
              /\ {type[i].struct : i \in DOMAIN type} = Reached(question.types[k], 2)
              /\ Len(type) = Cardinality(Reached(question.types[k], 2))
              /\ (answer[k].message = [refused |-> TRUE])
                    <=> ~ InSize(question.types[k], Td!StructOf(2), question.messages[k])
        /\ (/\ \A k \in 1..2 : /\ ~ ReadsAsHex(question.messages[k])
                               /\ answer[k].message # [refused |-> TRUE]
            /\ answer[1] = answer[2]) =>
                /\ question.messages[1] = question.messages[2]
                /\ \A s \in Reached(question.types[1], 2) : question.types[1][s] = question.types[2][s]

---------------------------------------------------------------------------
(* Chains *)

Edges(forks) ==
    UNION {{forks[i].block + d : d \in {-1, 0, 1}} : i \in {j \in DOMAIN forks : forks[j].block # Unset}}

AskFork ==
    \E name \in DOMAIN Ch!Chains : \E block \in Edges(Ch!Chains[name]) \ {-1}, td \in {Unset, 0, 1},
       time \in {Unset} \cup (1677557087..1677557089) :
        Question([topic |-> "fork", chain |-> name, block |-> block, td |-> td, time |-> time],
            Ch!HardforkByBlock(Ch!Chains[name], block, td, time))

AskNextFork ==
    \E name \in DOMAIN Ch!Chains : \E i \in DOMAIN Ch!Chains[name] :
        LET forks == Ch!Chains[name] IN
        Question([topic |-> "next fork", chain |-> name, at |-> i],
            [block |-> Ch!NextHardforkBlock(forks, forks[i].name),
             blockOrTime |-> Ch!NextHardforkBlockOrTimestamp(forks, forks[i].name),
             hash |-> Ch!CalcForkHash(forks, forks[i].name),
             named |-> Ch!HardforkForForkHash(forks, forks[i].forkHash)])

AskActive ==
    \E name \in DOMAIN Ch!Chains : \E i \in DOMAIN Ch!Chains[name] :
        \E block \in Edges(Ch!Chains[name]) \ {-1} :
            LET forks == Ch!Chains[name]  hf == forks[i].name IN
            Question([topic |-> "active", chain |-> name, at |-> i, block |-> block],
                [active |-> Ch!HardforkIsActiveOnBlock(forks, hf, block),
                 begins |-> Ch!IsHardforkBlock(forks, block, hf),
                 isNext |-> Ch!IsNextHardforkBlock(forks, block, hf),
                 under  |-> Ch!HardforkByBlock(forks, block, Unset, Unset)])

AskGenesis ==
    \E config \in Forks, hasTtd \in BOOLEAN, genesis \in {0, 50} :
        Question([topic |-> "genesis", config |-> config, hasTtd |-> hasTtd, genesis |-> genesis],
            Ch!SetForkHashes(Ch!GethHardforks(config, genesis, hasTtd)))

\* The fork a block is under is the last that began by then; a total difficulty
\* that contradicts the block is refused, and so is a time, but for the very
\* second at which a fork begins.
ForkOfBlock ==
    question.topic = "fork" =>
        LET forks    == Ch!Chains[question.chain]
            byBlock  == {i \in DOMAIN forks : forks[i].block # Unset
                                               /\ forks[i].block <= question.block}
            byTime   == {i \in DOMAIN forks : /\ forks[i].timestamp # Unset
                                              /\ question.time # Unset
                                              /\ forks[i].timestamp <= question.time}
            \* forks that should have begun before one that has
            missing  == {i \in DOMAIN forks : /\ forks[i].block # Unset /\ i \notin byBlock
                                              /\ \E k \in byTime : i < k}
            early    == \E k \in byTime : forks[k].timestamp < question.time
            merged   == forks[Ch!Position(forks, "merge")].block <= question.block
        IN
        IF \/ missing # {} /\ early
           \/ question.td # Unset /\ (question.td = 1) # merged
        THEN answer = Throws
        ELSE answer = forks[Max(IF missing = {} THEN byBlock \cup byTime ELSE byBlock)].name

\* Forks follow each other by block and then by time, peers can tell by the
\* hash which forks a node knows, and the forks of a genesis file are in the
\* order in which they begin, the merge before those that need it.
ForksInOrder ==
    /\ ForkOfBlock
    /\ question.topic = "next fork" =>
          LET forks == Ch!Chains[question.chain]
              own   == forks[question.at]
              later == {forks[i].block : i \in {j \in DOMAIN forks :
                            /\ forks[j].block # Unset /\ forks[j].name # "merge"
                            /\ own.block # Unset /\ forks[j].block > own.block}}
          IN
          /\ answer.block = (IF later = {} THEN Unset ELSE Min(later))
          /\ (answer.block # Unset /\ own.name # "merge") => answer.blockOrTime = answer.block
          /\ \A i \in DOMAIN forks : (own.forkHash # Unset /\ forks[i].forkHash # Unset) =>
                ((own.forkHash = forks[i].forkHash)
                    <=> answer.hash = Ch!CalcForkHash(forks, forks[i].name))
          /\ own.forkHash # Unset => Ch!CalcForkHash(forks, answer.named) = answer.hash
    /\ question.topic = "active" =>
          LET forks == Ch!Chains[question.chain]
              own   == forks[question.at]
              under == Ch!Position(forks, answer.under)
          IN
          /\ own.block # 0 => (answer.active <=> own.block # Unset /\ question.at <= under)
          /\ answer.begins <=> own.block # 0 /\ own.block = question.block
          /\ (answer.isNext /\ own.block # Unset) =>
                /\ question.block > own.block
                /\ \A i \in DOMAIN forks : (forks[i].block # Unset /\ forks[i].block > own.block) =>
                      forks[i].block >= question.block \/ forks[i].name = "merge"
    /\ (question.topic = "genesis"
        /\ \A i \in DOMAIN question.config :
              question.config[i].key \in Ch!Timed => question.config[i].value >= question.genesis) =>
          /\ answer[1].name = "chainstart"
          /\ Len(answer) = Len(question.config) + (IF question.hasTtd THEN 2 ELSE 1)
          /\ Ch!Scheduled(answer)
          /\ \A i, j \in DOMAIN answer : (i < j /\ answer[j].name = "merge") =>
                answer[i].name \notin Ch!PostMerge
          /\ \A i \in DOMAIN answer : answer[i].forkHash # Unset

---------------------------------------------------------------------------
(* Parameters of a chain *)

Topics == {"gasConfig", "gasPrices", "vm", "pow"}
Named(topic) ==
    UNION ({DOMAIN Ch!EIPs[e].params[topic] : e \in DOMAIN Ch!EIPs}
           \cup {DOMAIN Ch!HARDFORK_SPECS[h].params[topic] :
                    h \in {f \in DOMAIN Ch!HARDFORK_SPECS : "params" \in DOMAIN Ch!HARDFORK_SPECS[f]}})

CommonOf(name, hf) ==
    LET forks == Ch!Chains[name] IN
    [forks |-> forks, changes |-> [i \in DOMAIN forks |-> forks[i].name], hardfork |-> hf, eips |-> <<>>]

AskParam ==
    \E name \in DOMAIN Ch!Chains, topic \in Topics : \E hf \in {f.name : f \in ToSet(Ch!Chains[name])} :
        \E param \in Named(topic) :
            Question([topic |-> "param", chain |-> name, hf |-> hf, of |-> topic, name |-> param],
                Ch!ParamByHardfork(CommonOf(name, hf), topic, param, hf))

\* The parameter at the first block of a fork, and under a fork that an EIP is
\* added to.
AskParamOf ==
    \E name \in DOMAIN Ch!Chains, topic \in Topics : \E param \in Named(topic) :
        LET forks == Ch!Chains[name] IN
        \/ \E i \in {j \in DOMAIN forks : forks[j].block # Unset} :
              Question([topic |-> "param at", chain |-> name, of |-> topic, name |-> param,
                        block |-> forks[i].block],
                  Ch!ParamByBlock(CommonOf(name, "chainstart"), topic, param, forks[i].block,
                                  Unset, Unset))
        \/ \E eip \in DOMAIN Ch!EIPs :
              Question([topic |-> "param by", chain |-> name, of |-> topic, name |-> param, eip |-> eip],
                  Ch!Param([CommonOf(name, "istanbul") EXCEPT !.eips = <<eip>>], topic, param))

AskConsensus ==
    \E name \in DOMAIN Ch!Chains : \E hf \in {f.name : f \in ToSet(Ch!Chains[name])} :
        Question([topic |-> "consensus", chain |-> name, hf |-> hf],
                 Ch!ConsensusType(CommonOf(name, hf), "own"))

\* Every value that a fork up to this one gives a parameter, the latest last.
Given(names, topic, param) ==
    LET given(hf) ==
            LET spec == Ch!HARDFORK_SPECS[hf] IN
            IF "params" \in DOMAIN spec
            THEN IF param \in DOMAIN spec.params[topic] THEN <<spec.params[topic][param]>> ELSE <<>>
            ELSE LET sets == {e \in ToSet(spec.eips) \cap DOMAIN Ch!EIPs :
                                 param \in DOMAIN Ch!EIPs[e].params[topic]} IN
                 IF sets = {} THEN <<>> ELSE <<Ch!EIPs[CHOOSE e \in sets : TRUE].params[topic][param]>>
    IN FlattenSeq([i \in DOMAIN names |-> given(names[i])])

\* What a parameter is by that, and what reading it gives.
InForce(c, hf, topic, param) ==
    LET names == SubSeq(c.changes, 1, Ch!Position(c.forks, hf))
        given == Given(names, topic, param)
    IN IF given = <<>> THEN 0 ELSE given[Len(given)]
Read(value) == IF value = Unset THEN 0 ELSE IF value = Table THEN Throws ELSE value

\* A parameter is what the latest fork that sets it says, whether the fork does
\* so itself or by one of its EIPs; and the EIPs of a fork have what they
\* require by then (common/hardforks, common/eips).  Shanghai is left out: none
\* of its parameters can be read.  An EIP that is set comes before all of them.
ParamsInForce ==
    /\ (question.topic = "param" /\ question.hf # "shanghai") =>
          LET c == CommonOf(question.chain, question.hf) IN
          /\ answer = Read(InForce(c, question.hf, question.of, question.name))
          /\ \A e \in ToSet(Ch!SpecEips(question.hf)) \cap DOMAIN Ch!EIPs :
                /\ \A r \in Ch!EIPs[e].requiredEIPs : Ch!IsActivatedEIP(c, r)
                /\ Ch!HardforkGteHardfork(c.forks, question.hf, Ch!EIPs[e].minimumHardfork)
    /\ question.topic = "param at" =>
          LET c  == CommonOf(question.chain, "chainstart")
              hf == c.forks[Max({i \in DOMAIN c.forks : /\ c.forks[i].block # Unset
                                                        /\ c.forks[i].block <= question.block})].name
          IN answer = Read(InForce(c, hf, question.of, question.name))
    /\ question.topic = "param by" =>
          LET c    == CommonOf(question.chain, "istanbul")
              sets == Ch!EIPs[question.eip].params[question.of]
          IN answer = Read(IF question.name \in DOMAIN sets THEN sets[question.name]
                           ELSE InForce(c, "istanbul", question.of, question.name))
    /\ question.topic = "consensus" =>
          LET c == CommonOf(question.chain, question.hf) IN
          answer = IF Ch!HardforkGteHardfork(c.forks, question.hf, "merge") THEN "pos" ELSE "own"

---------------------------------------------------------------------------
(* The gas of a transaction *)

GasForks == {"chainstart", "homestead", "byzantium", "istanbul", "merge", "shanghai"}
GasTransactions ==
    [type : {0, 1, 64}, creates : BOOLEAN, zeros : {30, 49151, 49152}, others : {1},
     accessList : {<<>>, <<0, 2>>}, frozen : BOOLEAN, cache : {Unset}]

GasCommons ==
    {Ga!Asked([CommonOf("mainnet", hf) EXCEPT !.eips = eips]) :
        hf \in GasForks, eips \in {<<>>, <<3860>>}}

\* A transaction is constructed under one hardfork with its EIPs and asked for
\* its gas, then its Common is given another hardfork, or no EIPs, and it is
\* asked again.
AskGas ==
    \E tx \in GasTransactions, common \in GasCommons :
        LET asked == [tx |-> tx, hf |-> common.hardfork, eips |-> common.eips] IN
        /\ tx.type = 0 <=> tx.accessList = <<>>
        /\ \A e \in ToSet(asked.eips) : ~ Ch!EipRefused(CommonOf("mainnet", asked.hf), asked.eips, e)
        /\ IF Ga!ConstructorRefuses(common, tx, FALSE)
           THEN Question([topic |-> "no gas"] @@ asked, Throws)
           ELSE \/ Question([topic |-> "enough"] @@ asked, Ga!Validate(common, tx, 53136))
                \/ \E after \in GasCommons :
                      /\ after.eips \in {asked.eips, <<>>}
                      /\ Question([topic |-> "gas", later |-> after.hardfork, laterEips |-> after.eips] @@ asked,
                                  Ga!GetBaseFee(after, Ga!AfterDataFee(common, tx)))

AskCost ==
    \E type \in {0, 1, 2, 64}, gasLimit \in {0, 3}, base \in 0..3, max \in 0..3 : \E tip \in 0..max :
        Question([topic |-> "cost", type |-> type, gasLimit |-> gasLimit, base |-> base, max |-> max,
                  tip |-> tip],
            Ga!GetUpfrontCost(type, gasLimit, [gasPrice |-> max, maxFeePerGas |-> max,
                                               maxPriorityFeePerGas |-> tip], base, 7))

\* What a transaction costs at least by the rules of a hardfork.
Charged(tx, hf, eips) ==
    LET since(fork) == Ch!HardforkGteHardfork(Ch!Chains["mainnet"], hf, fork)
        listed      == tx.type # 0 /\ since("berlin")
        initCode    == tx.creates /\ 3860 \in ToSet(eips)
    IN  21000 + 4 * tx.zeros + (IF since("istanbul") THEN 16 ELSE 68) * tx.others
        + (IF tx.creates /\ since("homestead") THEN 32000 ELSE 0)
        + (IF listed THEN 2400 * Len(tx.accessList)
                          + 1900 * Cardinality({k \in (DOMAIN tx.accessList) \X (1..2) :
                                                   k[2] <= tx.accessList[k[1]]}) ELSE 0)
        + (IF initCode THEN 2 * Cardinality({i \in 0..Ga!DataLength(tx) - 1 : i % 32 = 0}) ELSE 0)

\* The gas a transaction must have is what the rules in force charge, also
\* after the hardfork of its Common has changed and although it remembers the
\* fee; and no more than the price it offers is asked of the account
\* (baseTransaction.ts, eip1559Transaction.ts).  Left out are Shanghai, under
\* which no price can be read, and a frozen transaction whose EIPs change while
\* its hardfork stays, which keeps the fee it remembers.
GasCharged ==
    /\ question.topic = "no gas" =>
          \/ question.hf = "shanghai" /\ question.tx.creates
          \/ 3860 \in ToSet(question.eips) /\ question.tx.creates /\ Ga!DataLength(question.tx) > 49152
          \/ ~ Ch!HardforkGteHardfork(Ch!Chains["mainnet"], question.hf,
                   CASE question.tx.type = 0 -> "chainstart" [] question.tx.type = 1 -> "berlin"
                     [] OTHER -> "london")
    /\ (question.topic = "enough" /\ question.hf # "shanghai") =>
          answer = (Charged(question.tx, question.hf, question.eips) <= 53136)
    /\ (/\ question.topic = "gas" /\ "shanghai" \notin {question.hf, question.later}
        /\ question.tx.frozen /\ question.later = question.hf => question.laterEips = question.eips) =>
          answer = Charged(question.tx, question.later, question.laterEips)
    /\ question.topic = "cost" =>
          answer = 7 + question.gasLimit *
                   (IF question.type \in {0, 1} THEN question.max
                    ELSE Min({question.max, question.base + question.tip}))

\* The forks of a chain, what is in force under each, and what that costs.
ChainsDescribed == ForksInOrder /\ ParamsInForce /\ GasCharged

---------------------------------------------------------------------------

LibNext ==
    /\ question.topic = "none"
    /\ \/ AskFormat \/ AskTransaction
       \/ AskWei \/ AskNumber \/ AskHexText \/ AskPacked \/ AskIban
       \/ AskMessage \/ AskKey \/ AskKeyStore
       \/ AskArguments \/ AskBloom
       \/ AskAbi \/ AskLog \/ AskError \/ AskTypedData
       \/ AskFork \/ AskNextFork \/ AskGenesis \/ AskActive
       \/ AskParam \/ AskParamOf \/ AskConsensus
       \/ AskGas \/ AskCost

LibSpec == LibInit /\ [][LibNext]_libVars
==============================================================================
