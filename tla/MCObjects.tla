------------------------------ MODULE MCObjects ------------------------------
(***************************************************************************)
(* The objects a program holds: a wallet, contexts with their              *)
(* configurations, Ens, the chains of transactions, and a contract.  They  *)
(* share no state, and one of them acts at a time: each has its own runs   *)
(* of the one state space.                                                 *)
(***************************************************************************)
EXTENDS Wallet, Configuration, Ens, Common, Contracts

V == INSTANCE Validation

---------------------------------------------------------------------------
(* Contexts *)

Option(name, value) == [name |-> name, value |-> value]
MCAssignments ==
    {Option("handleRevert", "on"), Option("transactionPollingInterval", 5),
     Option("transactionReceiptPollingInterval", 7), Option("defaultChain", "goerli"),
     Option("defaultHardfork", "berlin"),
     Option("defaultCommon", [baseChain |-> "goerli", hardfork |-> Nothing]),
     Option("defaultCommon", [baseChain |-> Nothing, hardfork |-> "london"])}

---------------------------------------------------------------------------
(* Chains *)

MCEipLists == {<<>>, <<2718, 2929>>, <<2930>>}

---------------------------------------------------------------------------
(* Contracts *)

MCArrange(types, params) ==
    V!TransformJsonDataToAbiFormat(types, [form |-> "array", items |-> params])
MCValidates(types, data) == V!Validate(types, data)

Type(base, arrays) == [base |-> base, size |-> V!AnySize, arrays |-> arrays, components |-> <<>>, name |-> base]
Input(name, base, indexed) == [name |-> name, type |-> Type(base, <<>>), indexed |-> indexed]
Fragment(kind, name, inputs) == [kind |-> kind, name |-> name, inputs |-> inputs, anonymous |-> FALSE]

F(base) == Fragment("function", "f", <<Input("x", base, FALSE)>>)
F2 == Fragment("function", "f", <<Input("x", "uint", FALSE), Input("y", "bool", FALSE)>>)
G  == Fragment("function", "g", <<>>)
E  == Fragment("event", "e", <<Input("who", "address", TRUE), Input("what", "string", TRUE), Input("n", "uint", FALSE)>>)
E1 == Fragment("event", "h", <<Input("n", "uint", TRUE)>>)
E2 == Fragment("event", "f", <<Input("n", "uint", TRUE)>>)
B  == Fragment("event", "b", <<Input("data", "bytes", TRUE), Input("n", "uint", FALSE)>>)
T  == Fragment("event", "t", <<[Input("tag", "bytes", TRUE) EXCEPT !.type.size = 4], Input("n", "uint", FALSE)>>)
L  == Fragment("event", "l", <<[Input("list", "uint", TRUE) EXCEPT !.type = Type("uint", <<V!AnySize>>)]>>)
An == [Fragment("event", "k", <<Input("n", "uint", TRUE)>>) EXCEPT !.anonymous = TRUE]
Co == Fragment("constructor", Omitted, <<Input("x", "uint", FALSE)>>)
Er == Fragment("error", "f", <<Input("x", "uint", FALSE)>>)

Uint(n) == [form |-> "number", n |-> n]
Decimal == [form |-> "decimal", n |-> 5]
\* A value of a filter, as it may be written, and as it is decoded.
Hex(n)  == [form |-> "hex", n |-> n]
Word    == [form |-> "word", text |-> "w", case |-> "lower"]
Upper    == [Word EXCEPT !.case = "upper"]
Octets  == [form |-> "bytes", content |-> "c"]
Addr(who) == [form |-> "address", who |-> who, case |-> "upper"]
Lower(who) == [form |-> "address", who |-> who, case |-> "lower"]
Items(s) == [form |-> "array", items |-> s]

MCInterfaces == {<<F("uint"), F("string"), F2, G, Er>>, <<F("bool"), F("uint"), E, E1, Co>>,
                 <<F("string"), E2, An, E, B, T, L>>}
Start(abis, address, data, input, from, fill, filled, account) ==
    [abis |-> abis, address |-> address, config |-> [contractDataInputFill |-> filled, defaultAccount |-> account],
     options |-> [data |-> data, input |-> input, from |-> from, gas |-> Omitted, dataInputFill |-> fill]]
MCBeginnings ==
    {Start(i, a, d, n, f, "data", c, "me") :
        i \in MCInterfaces, a \in {Omitted, "a1"}, d \in {Omitted}, n \in {"code"}, f \in {"owner"}, c \in {"input", "both"}}
    \cup {Start(i, "a1", d, n, Omitted, Omitted, c, a) :
        i \in {<<F("bool"), F("uint"), E, E1, Co>>}, d \in {Omitted, "code"}, n \in {Omitted, "other"},
        a \in {Omitted, "me"}, c \in {"data", "both"}}

MCCallOptions == {[to |-> t, from |-> f, gas |-> Omitted, data |-> Omitted, input |-> Omitted] :
                  t \in {Omitted}, f \in {Omitted, "caller"}}
                 \cup {[to |-> "a9", from |-> Omitted, gas |-> Omitted, data |-> Omitted, input |-> Omitted]}
MCArguments == {<<>>, <<Uint(1)>>, <<Decimal>>, <<Word>>, <<Uint(1), Uint(1)>>, <<Uint(1), Word>>}
MCDeployOptions == {[data |-> d, input |-> i, arguments |-> a] :
                    d \in {Omitted, "code", "0x"}, i \in {Omitted, "code", "0x"}, a \in {<<>>, <<Uint(1)>>}}

Filter(from, values) == [fromBlock |-> from, topics |-> Omitted, filter |-> values]
None == [n \in {} |-> Omitted]
MCFilters ==
    {Filter(from, values) : from \in {Omitted, 0}, values \in {None,
        [n |-> Uint(0)], [n |-> Uint(1)], [n |-> Hex(1)], [n |-> [form |-> "decimal", n |-> 1]],
        [n |-> Items(<<Uint(0), Uint(1)>>)], [n |-> Items(<<>>)],
        [who |-> Addr("a")], [who |-> Lower("a")], [who |-> Items(<<Lower("a"), Addr("b")>>)],
        [who |-> Lower("a"), n |-> Uint(1)],
        [what |-> Word], [what |-> Upper], [what |-> Items(<<Word>>)], [what |-> Hex(1)],
        [data |-> Octets], [tag |-> Octets], [list |-> Items(<<Uint(1)>>)]}}
MCLogs == {[address |-> a, fragment |-> E, values |-> [who |-> w, what |-> Word, n |-> n]] :
              a \in {"a1", "a2"}, w \in {Addr("a"), Addr("b")}, n \in {Uint(0), Uint(1)}}
          \cup {[address |-> "a1", fragment |-> f, values |-> [n |-> n]] :
              f \in {E1, E2, An}, n \in {Uint(0), Uint(1), Uint(2)}}
          \cup {[address |-> "a1", fragment |-> B, values |-> [data |-> Octets, n |-> Uint(1)]],
                [address |-> "a1", fragment |-> T, values |-> [tag |-> Octets, n |-> Uint(1)]],
                [address |-> "a1", fragment |-> L, values |-> [list |-> Items(<<Uint(1)>>)]]}

---------------------------------------------------------------------------

\* The sets of records are compared with themselves once before the search
\* begins, so that the workers find them in normal form.
ASSUME NormalForm ==
    /\ MCAssignments = MCAssignments /\ MCInterfaces = MCInterfaces
    /\ MCBeginnings = MCBeginnings /\ MCCallOptions = MCCallOptions
    /\ MCArguments = MCArguments /\ MCDeployOptions = MCDeployOptions
    /\ MCFilters = MCFilters /\ MCLogs = MCLogs
    /\ Chains = Chains /\ EIPs = EIPs /\ HARDFORK_SPECS = HARDFORK_SPECS

VARIABLE part

allVars == <<part, walletVars, configVars, ensVars, commonVars, contractVars>>

FirstBeginning == CHOOSE b \in Beginnings : b.address # Omitted
FirstNetwork   == CHOOSE n \in Networks : TRUE
FirstValue     == CHOOSE v \in Values : TRUE

ObjectsInit ==
    /\ part \in {"wallet", "contexts", "ens", "chains", "contract"}
    /\ WalletInit /\ ConfigInit /\ CommonInit
    /\ \/ part = "ens" /\ EnsInit
       \/ part # "ens" /\ network = FirstNetwork /\ syncing = {}
          /\ resolverOf = [n \in Networks |-> NoAnswer]
          /\ interfaces = [r \in Resolvers |-> {}]
          /\ record = [n \in Networks |-> [r \in Resolvers |-> FirstValue]]
          /\ EnsInit
    /\ \/ part = "contract" /\ ConInit
       \/ part # "contract" /\ ConStart(FirstBeginning)

ObjectsNext ==
    /\ UNCHANGED part
    /\ \/ part = "wallet" /\ WalletNext
          /\ UNCHANGED <<configVars, ensVars, commonVars, contractVars>>
       \/ part = "contexts" /\ ConfigNext
          /\ UNCHANGED <<walletVars, ensVars, commonVars, contractVars>>
       \/ part = "ens" /\ EnsNext
          /\ UNCHANGED <<walletVars, configVars, commonVars, contractVars>>
       \/ part = "chains" /\ CommonNext
          /\ UNCHANGED <<walletVars, configVars, ensVars, contractVars>>
       \/ part = "contract" /\ ConNext
          /\ UNCHANGED <<walletVars, configVars, ensVars, commonVars>>

ObjectsSpec == ObjectsInit /\ [][ObjectsNext]_allVars
==============================================================================
