------------------------------ MODULE MCLibrary ------------------------------
(***************************************************************************)
(* One thing is done at a time: a function is asked, a request is made     *)
(* through the manager, or a transaction is signed.  The three parts share *)
(* no state: each has its own runs of the one state space.                 *)
(***************************************************************************)
EXTENDS Library, Requests, MCSigning

---------------------------------------------------------------------------
(* Functions *)

\* The boundaries of the widths 8 and 16, signed and unsigned.
MCAmounts == (0..40) \cup {99, 100, 127, 128, 200, 255, 256, 1000, 1050, 32767, 32768, 65535}

\* Some of these messages have the same bytes or only a null more.
MCMessages == [form : {"text", "hex"}, bytes : {<<>>, <<65>>, <<65, 0>>, <<0, 65>>, <<65, 66>>}]
MCKeyInputs ==
    {k \in [form : {"hex", "bytes", "text"}, nibbles : {0, 2, 63, 64, 65, 66}, key : {"k1"}] :
        k.form = "bytes" => k.nibbles % 2 = 0}
MCStoreOptions ==
    [kdf : {NotGiven, "scrypt", "pbkdf2", "other"}, dklen : {NotGiven, 15, 16, 17, 64},
     c : {NotGiven, 999, 1000}, iv : {NotGiven, 15, 16}]

ForkAt(key, value) == [key |-> key, value |-> value]
MCForks ==
    {<<ForkAt("homesteadBlock", 0), ForkAt("londonBlock", 20), ForkAt("berlinBlock", 10)>>,
     <<ForkAt("homesteadBlock", 0), ForkAt("shanghaiTime", 60), ForkAt("berlinBlock", 10)>>,
     <<ForkAt("shanghaiTime", 60), ForkAt("berlinBlock", 5), ForkAt("mergeForkBlock", 30)>>,
     <<ForkAt("shardingForkTime", 70), ForkAt("shanghaiTime", 60), ForkAt("mergeForkBlock", 30)>>,
     <<ForkAt("shanghaiTime", 0), ForkAt("berlinBlock", 10)>>}

Type(base, size, arrays) ==
    [base |-> base, size |-> size, arrays |-> arrays, components |-> <<>>]
NoSize == Vd!AnySize
Scalars == {Type("uint", 8, <<>>), Type("int", 8, <<>>), Type("uint", NoSize, <<>>),
            Type("bool", NoSize, <<>>), Type("string", NoSize, <<>>), Type("bytes", 2, <<>>),
            Type("address", NoSize, <<>>)}
Tuple(arrays) ==
    [Type("tuple", NoSize, arrays) EXCEPT !.components =
        <<Type("uint", 8, <<>>), Type("string", NoSize, <<>>)>>]
Compounds == {Type("uint", NoSize, <<NoSize>>), Type("uint", NoSize, <<2>>), Type("uint", NoSize, <<NoSize, 2>>),
              Tuple(<<>>), Tuple(<<NoSize>>)}

Written(form, n) == [form |-> form, n |-> n]
HexOf(n, digits) == [form |-> "hex", n |-> n, digits |-> digits]
Array(items)     == [form |-> "array", items |-> items]
AddressOf(case)  == [form |-> "address", case |-> case]
Only(form)       == [form |-> form]

Plain == {Written("number", -129), Written("number", -128), Written("bigint", -1),
          Written("number", 0), Written("decimal", 1), Written("number", 2),
          Written("decimal", 128), Written("number", 255), Written("bigint", 256),
          HexOf(1, 1), HexOf(1, 4), HexOf(255, 2), HexOf(0, 0), Only("unsafe"), Only("fraction"),
          Only("word"), Only("empty"), Only("boolean"),
          AddressOf("lower"), AddressOf("checksum"), AddressOf("wrong")}
Few == {Written("number", 2), Written("bigint", 256), HexOf(1, 4), Only("word"), Only("boolean"),
        AddressOf("lower")}
Pair(v, w) == Array(<<v, w>>)
Arrays == {Array(<<>>), Array(<<Written("number", 2)>>),
           Pair(Written("number", 2), Written("number", 1)),
           Pair(Written("number", 2), Only("word")), Pair(Written("bigint", 256), Only("word")),
           Array(<<Pair(Written("number", 2), Only("word"))>>),
           Pair(Pair(Written("number", 2), Only("word")), Pair(Written("number", 1), Only("empty"))),
           Pair(Array(<<Written("number", 2)>>), Array(<<Written("number", 1)>>))}

MCArgumentLists ==
    [types : {<<t>> : t \in Scalars \cup Compounds}, values : {<<v>> : v \in Plain \cup Arrays} \cup {<<>>}]
    \cup [types : {<<t, u>> : t, u \in Scalars \cup Compounds},
          values : {<<v, w>> : v, w \in Few \cup Arrays} \cup {<<v>> : v \in Few}]

---------------------------------------------------------------------------
(* Parameters of the ABI *)

Param(name, type) == [name |-> name, indexed |-> FALSE] @@ type
MCAbiScalars ==
    {Param("a", t) : t \in {Type("uint", 8, <<>>), Type("int", 8, <<>>), Type("uint", NoSize, <<>>),
                            Type("bool", NoSize, <<>>), Type("address", NoSize, <<>>),
                            Type("bytes", 2, <<>>), Type("bytes", NoSize, <<>>), Type("string", NoSize, <<>>)}}
ComponentsOf(base) == <<Param("x", Type("int", 8, <<>>)), Param("y", Type(base, NoSize, <<>>))>>
MCAbiCompounds ==
    {Param("b", t) : t \in
        {Type("uint", 8, <<NoSize>>), Type("string", NoSize, <<2>>), Type("bool", NoSize, <<2, NoSize>>),
         Type("bytes", NoSize, <<NoSize, 2>>)}
        \cup {[Type("tuple", NoSize, arrays) EXCEPT !.components = ComponentsOf(base)] :
                 arrays \in {<<>>, <<NoSize>>, <<2>>}, base \in {"bool", "string"}}}
Short(name, base) == [name |-> name, list |-> FALSE, type |-> Type(base, NoSize, <<>>), struct |-> <<>>]
MCAbiTypes ==
    {<<t>> : t \in MCAbiScalars \cup MCAbiCompounds}
    \cup {<<t, u>> : t, u \in MCAbiScalars \cup MCAbiCompounds}
    \cup {Td!MapStructToCoderFormat(<<[name |-> "s", list |-> list, type |-> Type("uint", 8, <<>>),
                                      struct |-> <<Short("x", "string"), Short("y", "bool")>>],
                                    Short("z", "address")>>) : list \in BOOLEAN}

\* A mail to one or to several, or to two boxes.
Field(name, struct, type) == [name |-> name, struct |-> struct, of |-> type]
Texted(name)   == Field(name, 0, Type("string", NoSize, <<>>))
Counted(name)  == Field(name, 0, Type("uint", 8, <<>>))
InStruct(name, n, arrays) == Field(name, n, Type("tuple", NoSize, arrays))
MCTypedTypes ==
    {<<<<Texted("name")>>, <<Texted("text"), Counted("count")>>, <<Counted("count")>>, <<Counted("other")>>>>,
     <<<<Texted("name")>>, <<Texted("text"), Field("data", 0, Type("bytes", NoSize, <<>>))>>>>,
     <<<<Texted("name")>>, <<InStruct("to", 4, <<>>), Texted("text")>>, <<Counted("count")>>,
       <<InStruct("box", 3, <<>>), InStruct("next", 3, <<>>)>>>>,
     <<<<Texted("name")>>, <<InStruct("all", 4, <<NoSize>>), InStruct("one", 3, <<>>)>>, <<Counted("count")>>,
       <<InStruct("box", 3, <<>>)>>>>,
     <<<<Texted("name")>>, <<InStruct("all", 3, <<2>>)>>, <<Counted("count")>>>>,
     <<<<Texted("name")>>, <<Field("all", 0, Type("uint", 8, <<NoSize, 2>>))>>>>}

---------------------------------------------------------------------------
(* Requests *)

\* One provider for each way in which the manager calls one.
MCProviders ==
    LET p == [web3 |-> FALSE, request |-> "none", send |-> FALSE, sendAsync |-> FALSE] IN
    {p, [p EXCEPT !.web3 = TRUE, !.request = "AsyncFunction"], [p EXCEPT !.request = "AsyncFunction"],
     [p EXCEPT !.request = "Function"], [p EXCEPT !.send = TRUE], [p EXCEPT !.sendAsync = TRUE]}
MCBlocks == {Arg("number", 0, 16), Arg("tag", 0, 0), Arg("tag", 0, 1), Arg("hex", 1, 2),
             Arg("hex", 2, 16), Arg("hex", 64, 7), Arg("bytes", 64, 7)}

---------------------------------------------------------------------------

\* The sets of records are compared with themselves once before the search
\* begins, so that the workers find them in normal form.
ASSUME NormalForm ==
    /\ MCAbiTypes = MCAbiTypes /\ MCTypedTypes = MCTypedTypes
    /\ MCForks = MCForks /\ MCArgumentLists = MCArgumentLists
    /\ MCProviders = MCProviders /\ MCBlocks = MCBlocks /\ Schemas = Schemas
    /\ Ch!Chains = Ch!Chains /\ Ch!EIPs = Ch!EIPs /\ Ch!HARDFORK_SPECS = Ch!HARDFORK_SPECS
    /\ MCRequests = MCRequests /\ MCContexts = MCContexts

VARIABLE part

allVars == <<part, libVars, reqVars, vars>>

FirstRequest == CHOOSE r \in Requests : TRUE
FirstContext == CHOOSE c \in Contexts : TRUE

LibraryInit ==
    /\ LibInit
    /\ \/ part = "requests" /\ ReqInit
       \/ part \in {"functions", "signing"} /\ current = Omitted /\ seed = 1
          /\ specification = FALSE /\ ReqInit
    /\ \/ part = "signing" /\ Init
       \/ part \in {"functions", "requests"} /\ request = FirstRequest /\ config = FirstContext /\ Init

LibraryNext ==
    /\ UNCHANGED part
    /\ \/ part = "functions" /\ LibNext /\ UNCHANGED <<reqVars, vars>>
       \/ part = "requests" /\ ReqNext /\ UNCHANGED <<libVars, vars>>
       \/ part = "signing" /\ Next /\ UNCHANGED <<libVars, reqVars>>

LibrarySpec == LibraryInit /\ [][LibraryNext]_allVars
==============================================================================
