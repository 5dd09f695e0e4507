------------------------------- MODULE Contracts -------------------------------
(***************************************************************************)
(* A contract object (web3-eth-contract/src/contract.ts, utils.ts,         *)
(* encoding.ts): its interface, its options, and what its methods, its     *)
(* deployment and its events send.                                         *)
(*                                                                         *)
(* A fragment of the interface is [kind, name, inputs, anonymous]; its     *)
(* signature is the name with the types of its inputs, for the hash of the *)
(* code tells apart the same.  A method or an event is looked up by        *)
(* [name] or by signature.  A question is one call of the program, its     *)
(* answer what is sent for it.                                             *)
(*                                                                         *)
(* The validator is a parameter: Arrange puts arguments in the order of    *)
(* the types, and Validates says whether they are of them (Validation).    *)
(***************************************************************************)
EXTENDS Integers, SequencesExt

CONSTANTS
    Arrange(_, _),  \* the arguments of a call for types, as a sequence
    Validates(_, _),\* whether arguments are of their types
    Omitted,
    Interfaces,     \* sequences of fragments
    Beginnings,     \* what contracts are made of: [abis, address, options, config]
    CallOptions,    \* the options of one call
    Arguments,      \* what methods are called with
    DeployOptions,  \* [data, input, arguments]
    Filters,        \* [fromBlock, topics, filter]: what events are asked for
    Logs,           \* the logs of the node: [address, fragment, values]
    MaxChanges      \* how often a contract or its context is changed

VARIABLES
    contract,   \* the contract object
    settings,   \* [contractDataInputFill, defaultAccount] of its context
    had,        \* the functions of all interfaces the object was given
    changes,
    asked, sent \* the question and its answer

contractVars == <<contract, settings, had, changes, asked, sent>>

Error == [error |-> "throws"]
Empty == "0x"

\* The elements of a sequence that are in a set, in their order.
Those(s, S) ==
    LET kept[n \in 0 .. Len(s)] ==
            IF n = 0 THEN <<>>
            ELSE IF s[n] \in S THEN Append(kept[n - 1], s[n]) ELSE kept[n - 1]
    IN kept[Len(s)]

Given(value, otherwise) == IF value = Omitted THEN otherwise ELSE value
Signature(fragment) ==
    [name |-> fragment.name, types |-> [i \in DOMAIN fragment.inputs |-> fragment.inputs[i].type]]
\* The first topic of the logs of an event; the selector of a function is none.
Id(fragment) == [kind |-> fragment.kind, signature |-> Signature(fragment)]
Types(inputs) == [i \in DOMAIN inputs |-> inputs[i].type]

\* The one event that stands for all.
ALL_EVENTS_ABI == [kind |-> "event", name |-> "ALLEVENTS", inputs |-> <<>>, anonymous |-> FALSE]

Unnamed == [ALL_EVENTS_ABI EXCEPT !.name = Omitted, !.anonymous = TRUE]

---------------------------------------------------------------------------
(* The object *)

OfKinds(fragments, kinds) == Those(fragments, {f \in ToSet(fragments) : f.kind \in kinds})
FunctionsOf(interface) == OfKinds(interface, {"function"})
Named(fragments, name) == Those(fragments, {f \in ToSet(fragments) : f.name = name})
Names(interface) == {interface[i].name : i \in DOMAIN interface}

\* The overloads known so far stay when the interface is replaced.
ParseAndSetJsonInterface(overloads, abis) ==
    LET known     == Those(abis, {f \in ToSet(abis) : f.kind # "error"})
        functions == FunctionsOf(known)
        events    == OfKinds(known, {"event"})
    IN [interface |-> known,
        errors    |-> OfKinds(abis, {"error"}),
        overloads |-> [n \in DOMAIN overloads \cup Names(functions) |->
                          (IF n \in DOMAIN overloads THEN overloads[n] ELSE <<>>) \o Named(functions, n)],
        \* by name the last of the name, by signature the only one
        methods   |-> [n \in Names(functions) |-> Last(Named(functions, n))],
        events    |-> [n \in Names(events) |-> Last(Named(events, n))]]

NoOverloads == [n \in {} |-> <<>>]

\* The constructor of Contract.
Make(abis, address, options, config) ==
    LET o == options IN
    IF o.data # Omitted /\ o.input # Omitted /\ config.contractDataInputFill # "both"
    THEN Error
    ELSE [abi     |-> ParseAndSetJsonInterface(NoOverloads, abis),
          address |-> address,
          options |-> o,
          fill    |-> IF config.contractDataInputFill = "both" THEN "both"
                      ELSE Given(o.dataInputFill, config.contractDataInputFill)]

FaultClone(c, config) ==
    Make(c.abi.interface, Omitted, [c.options EXCEPT !.dataInputFill = c.fill], config)

Clone(c, config) ==
    Make(c.abi.interface \o c.abi.errors, c.address, [c.options EXCEPT !.dataInputFill = c.fill], config)

---------------------------------------------------------------------------
(* Calling a method *)

\* The fragment whose method is reached, by name or by signature.
MethodAt(c, key) ==
    IF key.types = Omitted
    THEN IF key.name \in DOMAIN c.abi.methods THEN c.abi.methods[key.name] ELSE Omitted
    ELSE LET functions == FunctionsOf(c.abi.interface)
             fitting   == Those(functions, {f \in ToSet(functions) : Signature(f) = key}) IN
         IF fitting = <<>> THEN Omitted ELSE Last(fitting)

Arranged(fragment, params) == Arrange(Types(fragment.inputs), params)
Fitting(fragment, params) == Validates(Types(fragment.inputs), Arranged(fragment, params))

\* The overload a call is for, [fragment, params]: which one the method was
\* reached by does not matter.
CreateContractMethod(c, abi, params) ==
    LET abis     == c.abi.overloads[abi.name]
        sameSize == Those(abis, {f \in ToSet(abis) : Len(f.inputs) = Len(params)})
        matching == Those(sameSize, {f \in ToSet(sameSize) : Fitting(f, params)})
    IN
    IF Len(abis) = 1 \/ sameSize = <<>>
    THEN LET arranged == Arranged(abis[1], params) IN
         IF Validates(Types(abi.inputs), arranged) THEN [fragment |-> abis[1], params |-> arranged]
         ELSE Error
    ELSE IF matching = <<>> THEN Error
    ELSE [fragment |-> matching[1], params |-> Arranged(matching[1], params)]

EncodeMethodABI(fragment, args, deployData) ==
    IF Len(fragment.inputs) # Len(args) THEN Error
    ELSE IF fragment.kind = "constructor"
         THEN IF deployData = Omitted THEN Error ELSE [code |-> deployData, args |-> args]
    ELSE [selector |-> Signature(fragment), args |-> args]

DataInputEncodeMethodHelper(tx, fragment, params, fill) ==
    LET data  == IF tx.data # Omitted \/ fill = "both"
                 THEN EncodeMethodABI(fragment, params, Given(tx.data, tx.input)) ELSE Omitted
        input == IF tx.input # Omitted \/ fill = "both"
                 THEN EncodeMethodABI(fragment, params, Given(tx.input, tx.data)) ELSE Omitted
        alone == EncodeMethodABI(fragment, params, Omitted)
    IN IF data = Omitted /\ input = Omitted
       THEN [data |-> IF fill = "data" THEN alone ELSE Omitted,
             input |-> IF fill = "data" THEN Omitted ELSE alone]
       ELSE [data |-> data, input |-> input]

\* Options of the call over those of the contract; what is missing is thrown.
TxParams(fragment, params, options, base, fill, needsTo, needsFrom) ==
    LET tx   == [k \in DOMAIN base |-> IF k \in DOMAIN options THEN Given(options[k], base[k]) ELSE base[k]]
        both == DataInputEncodeMethodHelper(tx, fragment, params, fill)
    IN IF \/ needsTo /\ tx.to = Omitted
          \/ needsFrom /\ tx.from = Omitted
          \/ Error \in {both.data, both.input}
       THEN Error ELSE [tx EXCEPT !.data = both.data, !.input = both.input]

Base(c, from) ==
    [to |-> c.address, from |-> Given(c.options.from, from), gas |-> c.options.gas,
     input |-> c.options.input, data |-> c.options.data]

GetSendTxParams(fragment, params, options, base, fill) ==
    LET code == {base.input, base.data, options.input, options.data} \ {Omitted} IN
    TxParams(fragment, params, options, base, fill, code = {}, TRUE)
GetEthTxCallParams(fragment, params, options, base, fill) ==
    TxParams(fragment, params, options, base, fill, TRUE, FALSE)
GetEstimateGasParams(fragment, params, options, base, fill) ==
    TxParams(fragment, params, options, base, fill, FALSE, FALSE)
GetCreateAccessListParams(fragment, params, options, base, fill) ==
    TxParams(fragment, params, options, base, fill, TRUE, TRUE)

ContractMethodCall(c, m, options) ==
    GetEthTxCallParams(m.fragment, m.params, options, Base(c, settings.defaultAccount), c.fill)
ContractMethodCreateAccessList(c, m, options) ==
    GetCreateAccessListParams(m.fragment, m.params, options, Base(c, settings.defaultAccount),
                              settings.contractDataInputFill)
ContractMethodSend(c, m, options) ==
    GetSendTxParams(m.fragment, m.params, options,
                    [Base(c, settings.defaultAccount) EXCEPT !.input = Omitted],
                    settings.contractDataInputFill)
ContractMethodEstimateGas(c, m, options) ==
    GetEstimateGasParams(m.fragment, m.params, options, Base(c, Omitted), settings.contractDataInputFill)

Purposes == {"call", "send", "estimateGas", "createAccessList", "encodeABI"}

Method(c, purpose, key, params, options) ==
    LET abi == MethodAt(c, key)
        m   == IF abi = Omitted THEN Error ELSE CreateContractMethod(c, abi, params)
    IN IF m = Error THEN Error
       ELSE CASE purpose = "call"             -> ContractMethodCall(c, m, options)
              [] purpose = "send"             -> ContractMethodSend(c, m, options)
              [] purpose = "estimateGas"      -> ContractMethodEstimateGas(c, m, options)
              [] purpose = "createAccessList" -> ContractMethodCreateAccessList(c, m, options)
              [] purpose = "encodeABI"        -> EncodeMethodABI(m.fragment, m.params, Omitted)

---------------------------------------------------------------------------
(* Deploying *)

Constructor(c) ==
    LET all == OfKinds(c.abi.interface, {"constructor"}) IN
    IF all = <<>> THEN [kind |-> "constructor", name |-> Omitted, inputs |-> <<>>, anonymous |-> FALSE]
    ELSE all[1]

ContractMethodDeploySend(c, params, options, base) ==
    GetSendTxParams(Constructor(c), params, options, base, settings.contractDataInputFill)

Deploy(c, purpose, given, options) ==
    LET input == Given(given.input, c.options.input)
        data  == Given(given.data, c.options.data)
        from  == IF purpose = "send" THEN settings.defaultAccount ELSE Omitted
        base  == [Base(c, from) EXCEPT !.input = input, !.data = data]
        args  == given.arguments
    IN
    IF {input, data} \subseteq {Omitted, Empty} THEN Error
    ELSE CASE purpose = "send" -> ContractMethodDeploySend(c, args, options, base)
           [] purpose = "estimateGas" ->
                GetEstimateGasParams(Constructor(c), args, options, base, settings.contractDataInputFill)
           [] purpose = "encodeABI" -> EncodeMethodABI(Constructor(c), args, Given(input, data))

\* The contract that comes of a receipt: a clone at the new address.
Deployed(c, status, address) ==
    IF status = 0 THEN Error
    ELSE LET clone == Clone(c, settings) IN
         IF clone = Error THEN Error ELSE [clone EXCEPT !.address = address]

---------------------------------------------------------------------------
(* Events *)

Indexed(fragment) == Those(fragment.inputs, {p \in ToSet(fragment.inputs) : p.indexed})
IsAll(fragment) == fragment.name \in {"ALLEVENTS", "allEvents"}

Hash(v) == [hash |-> v]
Topic(v) == [topic |-> v]

\* The values of which a log has only the hash: strings, bytes, lists and
\* tuples.  That is the rule of the nodes; the code knows of strings alone.
NoSize == -1
Hashed(type) ==
    \/ type.arrays # <<>>
    \/ type.base \in {"string", "tuple"}
    \/ type.base = "bytes" /\ type.size = NoSize
IsString(type) == type.base = "string" /\ type.arrays = <<>>
Stored(p, v) == IF Hashed(p.type) THEN Hash(v) ELSE Topic(v)

\* The value that is meant by what is written, as it is decoded; and
\* String(v).toUpperCase().
Means(v) ==
    IF v.form \in {"decimal", "bigint", "hex"} THEN [form |-> "number", n |-> v.n]
    ELSE IF v.form = "address" THEN [v EXCEPT !.case = "upper"] ELSE v
Text(v) ==
    IF "form" \notin DOMAIN v THEN v
    ELSE IF v.form \in {"decimal", "bigint"} THEN [form |-> "number", n |-> v.n]
    ELSE IF v.form \in {"address", "word"} THEN [v EXCEPT !.case = "upper"] ELSE v

\* What looks like hex is hashed as bytes, not as text.
Keccak256(v) == IF v.form \in {"hex", "address"} THEN Hash([octets |-> v]) ELSE Hash(v)

\* One word, or for what a log has the hash of a longer encoding, no topic.
EncodeParameter(type, v) ==
    IF type.base = "tuple" \/ (v.form = "array") # (type.arrays # <<>>) THEN Error
    ELSE IF Hashed(type) THEN [parameter |-> v] ELSE Topic(Means(v))

\* A value that the code takes for none.
Falsy == {[form |-> "number", n |-> 0], [form |-> "boolean", is |-> FALSE], [form |-> "empty"]}

\* The topics asked for, each a set of values, an empty one for any.
EncodeEventABI(event, options) ==
    LET one(p) ==
            IF p.name \notin DOMAIN options.filter THEN {}
            ELSE LET v == options.filter[p.name] IN
                 IF v \in Falsy THEN {}
                 ELSE IF v.form = "array" THEN {EncodeParameter(p.type, w) : w \in ToSet(v.items)}
                 ELSE IF IsString(p.type) THEN {Keccak256(v)}
                 ELSE {EncodeParameter(p.type, v)}
        indexed == Indexed(event)
    IN IF options.topics # Omitted THEN options.topics
       ELSE IF IsAll(event) THEN <<>>
       ELSE (IF event.anonymous THEN <<>> ELSE << {Id(event)} >>)
            \o [i \in DOMAIN indexed |-> one(indexed[i])]

Unencodable(topics) == \E i \in DOMAIN topics : Error \in topics[i]
\* isTopic(): 32 bytes.
IsTopic(t) == "parameter" \notin DOMAIN t /\ ("kind" \in DOMAIN t => t.kind = "event")
ValidTopics(topics) == \A i \in DOMAIN topics : \A t \in topics[i] : IsTopic(t)

\* The topics of a log, and what eth_getLogs and eth_subscribe answer.
TopicsOf(log) ==
    LET indexed == Indexed(log.fragment) IN
    (IF log.fragment.anonymous THEN <<>> ELSE << Id(log.fragment) >>)
    \o [i \in DOMAIN indexed |-> Stored(indexed[i], log.values[indexed[i].name])]

NodeLogs(address, topics) ==
    {log \in Logs :
        /\ address \in {Omitted, log.address}
        /\ Len(topics) <= Len(TopicsOf(log))
        /\ \A i \in DOMAIN topics : topics[i] = {} \/ TopicsOf(log)[i] \in topics[i]}

\* decodeLog(): lists of plain types are decoded from their hash, and fail;
\* other hashes and the word of a bytes type stay what they are.
Readable(p) == p.indexed /\ p.type.arrays # <<>> => p.type.base \in {"bytes", "tuple"}
Read(p, v) ==
    IF p.indexed /\ Hashed(p.type) THEN Hash(v)
    ELSE IF p.indexed /\ p.type.base = "bytes" /\ p.type.size # 32 THEN [word |-> v] ELSE v

\* The values a log is decoded to: [name, values], by the event asked for or,
\* if that is all events, by the first fragment of its signature.  The types
\* are those of the fragment that decodes.
DecodeEventABI(c, event, log) ==
    LET known  == c.abi.interface
        same   == Those(known, {f \in ToSet(known) : Id(f) = TopicsOf(log)[1]})
        by     == IF ~ IsAll(event) THEN event ELSE IF same = <<>> THEN Unnamed ELSE same[1]
        right  == by.anonymous \/ Indexed(by) = <<>> \/ Len(TopicsOf(log)) = Len(Indexed(by)) + 1
        inputs == IF right THEN by.inputs ELSE <<>>
        value(p) == IF p.name \notin DOMAIN log.values THEN Omitted ELSE Read(p, log.values[p.name])
    IN IF \E i \in DOMAIN inputs : ~ Readable(inputs[i]) THEN Error
       ELSE [name   |-> by.name, log |-> log,
             values |-> [n \in {inputs[i].name : i \in DOMAIN inputs} |->
                            value(inputs[CHOOSE i \in DOMAIN inputs : inputs[i].name = n])]]

FaultKept(event, filter, decoded) ==
    \E n \in DOMAIN filter \cap DOMAIN decoded.values : decoded.values[n] = filter[n]

\* Whether a decoded log is kept: values are compared as text.
Kept(event, filter, decoded) ==
    \A n \in DOMAIN filter :
        LET v  == filter[n]
            is == IF n \in DOMAIN decoded.values THEN decoded.values[n] ELSE Omitted
            strings == {p \in ToSet(event.inputs) : p.name = n /\ p.indexed /\ IsString(p.type)}
        IN /\ is # Omitted
           /\ IF v.form = "array" THEN \E w \in ToSet(v.items) : Text(is) = Text(w)
              ELSE Text(is) = Text(v) \/ (strings # {} /\ is = Keccak256(v))

GetPastEvents(c, name, options) ==
    LET found  == Named(c.abi.interface, name)
        event  == IF name \in {"ALLEVENTS", "allEvents"} THEN ALL_EVENTS_ABI ELSE found[1]
        topics == EncodeEventABI(event, options)
        all    == {DecodeEventABI(c, event, log) : log \in NodeLogs(c.address, topics)}
    IN IF \/ event # ALL_EVENTS_ABI /\ found = <<>>
          \/ Unencodable(topics) \/ ~ ValidTopics(topics)
          \/ Error \in all
       THEN Error ELSE [logs |-> {d \in all : Kept(event, options.filter, d)}]

\* The subscription of events.name(): its topics are all that filters, and
\* what cannot be decoded is not told.  From a block on, past events are
\* asked for by the same topics.
ContractEvent(c, name, options) ==
    LET event  == IF name = "allEvents" THEN ALL_EVENTS_ABI ELSE c.abi.events[name]
        topics == EncodeEventABI(event, options)
        none   == [n \in {} |-> Omitted]
    IN IF Unencodable(topics) THEN Error ELSE
       [address |-> c.address, topics |-> topics,
        logs |-> {DecodeEventABI(c, event, log) : log \in NodeLogs(c.address, topics)} \ {Error},
        past |-> IF options.fromBlock = Omitted THEN {}
                 ELSE LET p == GetPastEvents(c, event.name, [options EXCEPT !.topics = topics, !.filter = none]) IN
                      IF p = Error THEN {} ELSE p.logs]

---------------------------------------------------------------------------

(* What is given *)

Fragments == UNION {ToSet(abis) : abis \in Interfaces \cup {b.abis : b \in Beginnings}}

\* Interfaces and inputs are sequences, inputs by different names, and no
\* event has the name of all.
ASSUME InterfaceAssumption ==
    /\ Interfaces \cup {b.abis : b \in Beginnings} \subseteq Seq(Fragments)
    /\ \A f \in Fragments \cup {log.fragment : log \in Logs} :
          /\ f.inputs \in Seq(ToSet(f.inputs))
          /\ \A p, q \in ToSet(f.inputs) : p.name = q.name => p = q
    /\ \A f \in Fragments : f.kind = "event" => ~ IsAll(f)

\* The fields of the options, given or not.
ASSUME OptionsAssumption ==
    /\ \A b \in Beginnings : LET o == b.options IN
          o = [data |-> o.data, input |-> o.input, from |-> o.from, gas |-> o.gas,
               dataInputFill |-> o.dataInputFill]
    /\ \A o \in CallOptions :
          o = [to |-> o.to, from |-> o.from, gas |-> o.gas, data |-> o.data, input |-> o.input]
    /\ \A o \in Filters : o = [fromBlock |-> o.fromBlock, topics |-> o.topics, filter |-> o.filter]

\* Values have a form, lists one of their items; a log has its values, as
\* they are decoded, and text where the type is that of strings.
ASSUME ValuesAssumption ==
    /\ \A o \in Filters : \A n \in DOMAIN o.filter :
          LET v == o.filter[n] IN
          /\ "form" \in DOMAIN v
          /\ v.form = "array" => \A w \in ToSet(v.items) : "form" \in DOMAIN w
    /\ \A log \in Logs : \A p \in ToSet(log.fragment.inputs) :
          /\ p.name \in DOMAIN log.values /\ Read(p, log.values[p.name]) # Omitted
          /\ "form" \in DOMAIN log.values[p.name]
          /\ Means(log.values[p.name]) = log.values[p.name]
          /\ log.values[p.name].form = "word" => Hashed(p.type)

\* What is not given is none of what can be: code, and topics.
Codes == UNION {{o.data, o.input} : o \in CallOptions \cup DeployOptions \cup {b.options : b \in Beginnings}}
ASSUME OmittedAssumption ==
    /\ \A f \in Fragments, args \in Arguments :
          [selector |-> Signature(f), args |-> Arranged(f, args)] # Omitted
    /\ \A code \in Codes, given \in DeployOptions : [code |-> code, args |-> given.arguments] # Omitted
    /\ \A f \in Fragments, o \in Filters : EncodeEventABI(f, o) # Omitted

---------------------------------------------------------------------------

NoQuestion == [topic |-> "none"]

ConStart(b) ==
    /\ settings = b.config
    /\ contract = Make(b.abis, b.address, b.options, b.config)
    /\ contract # Error
    /\ had = ToSet(FunctionsOf(b.abis))
    /\ changes = 0
    /\ asked = NoQuestion /\ sent = Omitted

ConInit == \E b \in Beginnings : ConStart(b)

Changed(object, config) ==
    /\ asked = NoQuestion /\ changes < MaxChanges
    /\ contract' = object /\ settings' = config
    /\ changes' = changes + 1
    /\ UNCHANGED <<asked, sent>>

\* options.jsonInterface = abis, and options.address = address.
ReplaceInterface ==
    \E abis \in Interfaces :
        /\ Changed([contract EXCEPT !.abi = ParseAndSetJsonInterface(contract.abi.overloads, abis)], settings)
        /\ had' = had \cup ToSet(FunctionsOf(abis))
ParseAndSetAddress ==
    \E address \in {Omitted, "a2"} :
        Changed([contract EXCEPT !.address = address], settings) /\ UNCHANGED had
SetContractDataInputFill ==
    \E fill \in {"data", "input", "both"} :
        Changed(contract, [settings EXCEPT !.contractDataInputFill = fill]) /\ UNCHANGED had

Ask(question, answer) ==
    /\ asked' = question /\ sent' = answer
    /\ UNCHANGED <<contract, settings, had, changes>>

\* A method of the object, of a clone, or of what was deployed from it.
Object(through) ==
    CASE through = "itself" -> contract
      [] through = "clone" -> Clone(contract, settings)
      [] through = "deployed" -> Deployed(contract, 1, "a3")

AskMethod ==
    /\ asked = NoQuestion
    /\ \E through \in {"itself", "clone", "deployed"}, purpose \in Purposes, params \in Arguments,
          options \in CallOptions :
           LET object == Object(through)
               functions == ToSet(FunctionsOf(contract.abi.interface))
           IN
           \E key \in {Signature(f) : f \in functions} \cup {[name |-> f.name, types |-> Omitted] : f \in functions} :
               Ask([topic |-> "method", through |-> through, purpose |-> purpose, key |-> key,
                    params |-> params, options |-> options],
                   IF object = Error THEN Error ELSE Method(object, purpose, key, params, options))

AskDeploy ==
    /\ asked = NoQuestion
    /\ \E purpose \in {"send", "estimateGas", "encodeABI"}, given \in DeployOptions, options \in CallOptions :
           Ask([topic |-> "deploy", purpose |-> purpose, given |-> given, options |-> options],
               Deploy(contract, purpose, given, options))

AskPastEvents ==
    /\ asked = NoQuestion
    /\ \E name \in DOMAIN contract.abi.events \cup {"allEvents"}, options \in Filters :
           Ask([topic |-> "past", name |-> name, options |-> options],
               GetPastEvents(contract, name, options))

AskEvents ==
    /\ asked = NoQuestion
    /\ \E name \in DOMAIN contract.abi.events \cup {"allEvents"}, options \in Filters :
           Ask([topic |-> "events", name |-> name, options |-> options],
               ContractEvent(contract, name, options))

ConNext ==
    \/ ReplaceInterface \/ ParseAndSetAddress \/ SetContractDataInputFill
    \/ AskMethod \/ AskDeploy \/ AskPastEvents \/ AskEvents

ConSpec == ConInit /\ [][ConNext]_contractVars

---------------------------------------------------------------------------

\* The overloads kept are those of the interface.
Current == contract.abi.overloads =
    ParseAndSetJsonInterface(NoOverloads, contract.abi.interface).overloads

\* The functions a call can be meant for.  The overloads of the interfaces
\* an object had before stay, those of a clone or a deployed contract do not.
Meant ==
    {f \in IF asked.through = "itself" THEN had ELSE ToSet(FunctionsOf(contract.abi.interface)) :
        /\ f.name = asked.key.name
        /\ Len(f.inputs) = Len(asked.params)
        /\ Fitting(f, asked.params)}

From == Given(asked.options.from, Given(contract.options.from, settings.defaultAccount))

\* Of one way to fill the data, and it is the right one.
Filled(tx, what) == {tx.data, tx.input} \ {Omitted} = {what}

\* What is sent is the call of f: its code, to whom and from whom.
SentFor(f) ==
    LET code == [selector |-> Signature(f), args |-> Arranged(f, asked.params)]
        to   == IF asked.through = "deployed" THEN "a3" ELSE contract.address
    IN IF asked.purpose = "encodeABI" THEN sent = code
       ELSE /\ Filled(sent, code)
            /\ sent.to = Given(asked.options.to, to)
            /\ asked.purpose # "estimateGas" => sent.from = From
            /\ asked.purpose \in {"send", "createAccessList"} => sent.from # Omitted
            /\ asked.purpose \in {"call", "createAccessList"} => sent.to # Omitted

\* A method called with arguments that some overload fits encodes one that
\* they fit, and these arguments, for the address of the object and from the
\* account the caller, the object or the context says; so does a clone, and
\* what was deployed.  The overloads are those of every interface the object
\* was given, the replaced ones too (contract.ts:847-850, 917), and a method
\* reached by its signature is the one sent only if no other overload fits.
\* A deployment sends the code it is given, or that of the object, with the
\* arguments of the constructor.  Its receiver is the one the call or the
\* object names: from an object that has an address the code is sent to that
\* address, and none but an object without one deploys (contract.ts:628,
\* utils.ts:73-92).
CallsWhatWasAsked ==
    /\ (/\ asked.topic = "method" /\ sent # Error /\ Meant # {}
        /\ asked.key.types = Omitted \/ \A f \in Meant : Signature(f) = asked.key)
          => \E f \in Meant : SentFor(f)
    /\ (asked.topic = "deploy" /\ sent # Error) =>
          LET codes == {asked.given.data, asked.given.input, contract.options.data,
                        contract.options.input, asked.options.data, asked.options.input} \ {Omitted}
          IN /\ \A code \in codes : codes = {code} =>
                   LET what == [code |-> code, args |-> asked.given.arguments] IN
                   IF asked.purpose = "encodeABI" THEN sent = what ELSE Filled(sent, what)
             /\ asked.purpose # "encodeABI" => sent.to = Given(asked.options.to, contract.address)
             /\ asked.purpose = "send" => sent.from = From /\ sent.from # Omitted

\* "The name with parameters: `myContract.methods['myMethod(uint256)'](123)`
\* ... This allows calling functions with same name but different parameters"
\* (contract.ts:438-442).
NamedMethodCalled ==
    (asked.topic = "method" /\ asked.purpose = "encodeABI" /\ asked.key.types # Omitted
        /\ Current /\ sent # Error) => sent.selector = asked.key

\* The event a name is for, if one fragment has it and its logs can be told.
EventOf(name) ==
    LET found == Named(contract.abi.interface, name) IN
    IF Len(found) = 1 /\ ~ found[1].anonymous THEN found[1] ELSE Omitted

Alternatives(v) == IF v.form = "array" THEN ToSet(v.items) ELSE {v}

\* Values for which there is no topic, or none that a log can have.
NoTopicFor(p, v) ==
    /\ v \notin Falsy
    /\ \E w \in Alternatives(v) :
          w.form = "array" \/ (Hashed(p.type) /\ ~ (IsString(p.type) /\ v.form # "array"))

\* Whether a filter names the value by its text, and by its topic.
SameString(v, value) == v.form \notin {"array", "hex", "address"} /\ v = value
NamedAsText(p, v, value) ==
    IF p.indexed /\ IsString(p.type) THEN SameString(v, value)
    ELSE /\ p.indexed => ~ Hashed(p.type) /\ (p.type.base = "bytes" => p.type.size = 32)
         /\ \E w \in Alternatives(v) : Text(w) = Text(value)
NamedByTopic(p, v, value) ==
    \/ ~ p.indexed \/ v \in Falsy \/ Alternatives(v) = {}
    \/ IF IsString(p.type) THEN SameString(v, value) ELSE \E w \in Alternatives(v) : Means(w) = value

\* Past events are the logs of the contract that the event wrote with the
\* values asked for, be they indexed or not, each as the text of the value it
\* is decoded to; a subscription has those with the indexed values asked for,
\* in whatever form they are written (contract.ts:724-806, 1163-1208).
\* Filters of indexed bytes, lists and tuples, and alternatives of strings,
\* lose all events, for a log has only their hash (encoding.ts:97-103); and so
\* does an event with an indexed list of plain values (logs_api.ts:94-98).
EventsAsFiltered ==
    (asked.topic \in {"past", "events"} /\ asked.name # "allEvents" /\ EventOf(asked.name) # Omitted) =>
        LET event  == EventOf(asked.name)
            filter == asked.options.filter
            inputs == ToSet(event.inputs)
            asks   == {p \in inputs : p.name \in DOMAIN filter}
            lost   == \/ \E p \in inputs : ~ Readable(p)
                      \/ \E p \in asks : p.indexed /\ NoTopicFor(p, filter[p.name])
            named(p, v, value) == IF asked.topic = "past" THEN NamedAsText(p, v, value)
                                  ELSE NamedByTopic(p, v, value)
            wanted == {log \in Logs : /\ contract.address \in {Omitted, log.address}
                                      /\ log.fragment = event
                                      /\ \A p \in asks : named(p, filter[p.name], log.values[p.name])}
        IN (DOMAIN filter \subseteq {p.name : p \in inputs} /\ asked.options.topics = Omitted) =>
              IF lost
              THEN sent # Error => sent.logs = {} /\ (asked.topic = "events" => sent.past = {})
              ELSE /\ sent # Error
                   /\ {d.log : d \in sent.logs} = wanted
                   /\ (asked.topic = "events" /\ asked.options.fromBlock # Omitted)
                          => sent.past = sent.logs
==============================================================================
