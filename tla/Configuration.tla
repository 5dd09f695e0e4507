----------------------------- MODULE Configuration -----------------------------
(***************************************************************************)
(* Contexts and their configurations (web3-core/src/web3_context.ts and    *)
(* web3_config.ts).  Every module of the library is a context: it has a    *)
(* configuration of its own, a request manager it may share, and followers *)
(* that copy each option a setter of it changes.  All of it is synchronous;*)
(* what can go wrong is the order in which a program makes, links and sets *)
(* its contexts.                                                           *)
(***************************************************************************)
EXTENDS Naturals

CONSTANTS
    Contexts,     \* contexts a program makes
    Root,         \* the first of them
    Providers,
    Assignments,  \* options a program sets: [name, value]
    Nothing,      \* undefined
    MaxCalls      \* bounds the calls of the program

VARIABLES
    config,       \* context that is made -> its configuration
    manager,      \* context -> its request manager, named by who made it
    provider,     \* request manager -> its provider
    follows,      \* listeners of CONFIG_CHANGE: pairs <<follower, context>>
    plugins,      \* context -> the plugin under the one name plugins use here
    calls,        \* number of calls so far
    apart         \* history: contexts whose options came by other ways than a
                  \* setter of their own or of the one context they follow

configVars == <<config, manager, provider, follows, plugins, calls, apart>>

---------------------------------------------------------------------------
(* Options *)

\* Options whose setter emits and assigns, and nothing more.
RevertAndBlock == {"handleRevert", "contractDataInputFill", "defaultAccount", "defaultBlock"}
Timeouts == {"transactionSendTimeout", "transactionBlockTimeout",
             "transactionConfirmationBlocks", "transactionPollingTimeout"}
Polling == {"transactionReceiptPollingInterval", "transactionConfirmationPollingInterval",
            "blockHeaderTimeout", "enableExperimentalFeatures",
            "maxListenersWarningThreshold", "defaultNetworkId"}
Building == {"defaultTransactionType", "defaultMaxPriorityFeePerGas", "transactionBuilder",
             "transactionTypeParser"}
PlainOptions == RevertAndBlock \cup Timeouts \cup Polling \cup Building

Options == PlainOptions \cup {"transactionPollingInterval", "defaultChain", "defaultHardfork",
                            "defaultCommon"}

Defaults == [option \in Options |->
    CASE option = "transactionPollingInterval" -> 1000
      [] option = "defaultChain" -> "mainnet"
      [] option = "defaultHardfork" -> "london"
      [] OTHER -> Nothing]

\* What a setter assigns to: the polling interval stands for two more options.
Changes(name) ==
    {name} \cup IF name = "transactionPollingInterval"
                THEN {"transactionReceiptPollingInterval", "transactionConfirmationPollingInterval"}
                ELSE {}

Assigned(names, value, cfg) == [option \in Options |-> IF option \in names THEN value ELSE cfg[option]]

\* Two values of one thing that are both given and different.
Clash(a, b) == a # Nothing /\ b # Nothing /\ a # b

\* The errors thrown before anything changes.
Refused(cfg, name, value) ==
    \/ /\ name = "defaultChain"
       /\ cfg["defaultCommon"] # Nothing
       /\ cfg["defaultCommon"].baseChain \notin {Nothing, value}
    \/ /\ name = "defaultHardfork"
       /\ cfg["defaultCommon"] # Nothing
       /\ cfg["defaultCommon"].hardfork \notin {Nothing, value}
    \/ /\ name = "defaultCommon"
       /\ value # Nothing
       /\ \/ Clash(cfg["defaultHardfork"], value.hardfork)
          \/ Clash(cfg["defaultChain"], value.baseChain)

---------------------------------------------------------------------------
(* Contexts *)

MadeContexts == DOMAIN config
Followers(c) == {d \in MadeContexts : <<d, c>> \in follows}

ConfigInit ==
    /\ config = [c \in {Root} |-> Defaults]
    /\ manager = [c \in {Root} |-> Root]
    /\ provider \in [{Root} -> Providers]
    /\ follows = {}
    /\ plugins = [c \in Contexts |-> Nothing]
    /\ calls = 0
    /\ apart = {}

Call == calls < MaxCalls /\ calls' = calls + 1

\* A context that follows and is set; followers that are followed, since no
\* event tells theirs; and all that follow a context which is apart.
SetApart(c) == {d \in {c} : \E p \in MadeContexts : <<d, p>> \in follows}
               \cup {d \in Followers(c) : c \in apart \/ Followers(d) # {}}

\* A setter: CONFIG_CHANGE is emitted to the followers, whose setConfig()
\* checks and emits nothing, and then the option is assigned.
FaultSetOption(c, name, value) ==
    /\ Call
    /\ ~ Refused(config[c], name, value)
    /\ config' = [d \in MadeContexts |->
                     IF d = c THEN Assigned(Changes(name), value, config[d])
                     ELSE IF d \in Followers(c) THEN Assigned({name}, value, config[d])
                     ELSE config[d]]
    /\ apart' = apart \cup SetApart(c)
    /\ UNCHANGED <<manager, provider, follows, plugins>>
SetOption(c, name, value) ==
    /\ Call
    /\ ~ Refused(config[c], name, value)
    /\ config' = [d \in MadeContexts |->
                     IF d \in {c} \cup Followers(c) THEN Assigned(Changes(name), value, config[d])
                     ELSE config[d]]
    /\ apart' = apart \cup SetApart(c)
    /\ UNCHANGED <<manager, provider, follows, plugins>>

\* setConfig(options)
SetConfig(c, name, value) ==
    /\ Call
    /\ config' = [config EXCEPT ![c] = Assigned({name}, value, @)]
    /\ apart' = apart \cup {c} \cup Followers(c)
    /\ UNCHANGED <<manager, provider, follows, plugins>>

\* A context that is made, or takes over another's options and manager.
Becomes(c, cfg, m) ==
    /\ config'  = [d \in MadeContexts \cup {c} |-> IF d = c THEN cfg ELSE config[d]]
    /\ manager' = [d \in MadeContexts \cup {c} |-> IF d = c THEN m ELSE manager[d]]

\* new Web3Context(provider) and new Web3Context({ provider, config })
New(c, p, names, value) ==
    /\ Call
    /\ c \notin MadeContexts
    /\ Becomes(c, Assigned(names, value, Defaults), c)
    /\ provider' = [m \in DOMAIN provider \cup {c} |-> IF m = c THEN p ELSE provider[m]]
    /\ apart' = IF names = {} THEN apart ELSE apart \cup {c}
    /\ UNCHANGED <<follows, plugins>>

\* A context made from the context object of another: a copy of its options
\* and the same manager.
MadeFrom(c, parent) ==
    /\ c \notin MadeContexts
    /\ Becomes(c, config[parent], manager[parent])
    /\ apart' = apart \cup {d \in {c} : parent \in apart}
    /\ UNCHANGED provider

\* use(): a child that follows.
Use(parent, c) ==
    /\ Call
    /\ MadeFrom(c, parent)
    /\ follows' = follows \cup {<<c, parent>>}
    /\ UNCHANGED <<plugins>>

\* new Contract(abi, address, context): it follows if it has syncWithContext
\* and is made by new web3.eth.Contract.
MakeContract(parent, c, syncWithContext) ==
    /\ Call
    /\ MadeFrom(c, parent)
    /\ follows' = IF syncWithContext THEN follows \cup {<<c, parent>>} ELSE follows
    /\ UNCHANGED <<plugins>>

\* link(): the provider set is the one the manager has.
Linked(c, parent) ==
    /\ Becomes(c, config[parent], manager[parent])
    /\ follows' = follows \cup {<<c, parent>>}
    \* Those that follow c are told neither of the options nor of the manager.
    /\ apart' = apart \cup Followers(c)
                \cup {d \in {c} : parent \in apart \/ \E p \in MadeContexts \ {parent} : <<c, p>> \in follows}
    /\ UNCHANGED provider

Link(c, parent) ==
    /\ Call
    /\ Linked(c, parent)
    /\ UNCHANGED plugins

\* registerPlugin(): a name that is taken is refused before the link.
RegisterPlugin(parent, c) ==
    /\ Call
    /\ plugins[parent] = Nothing
    /\ Linked(c, parent)
    /\ plugins' = [plugins EXCEPT ![parent] = c]

\* setProvider(), provider = p, currentProvider = p
SetProvider(c, p) ==
    /\ Call
    /\ provider' = [provider EXCEPT ![manager[c]] = p]
    /\ UNCHANGED <<config, manager, follows, plugins, apart>>

ConfigNext ==
    \/ \E c \in MadeContexts, a \in Assignments :
           SetOption(c, a.name, a.value) \/ SetConfig(c, a.name, a.value)
    \/ \E c \in Contexts, p \in Providers, a \in Assignments :
           New(c, p, {}, Nothing) \/ New(c, p, {a.name}, a.value)
    \/ \E parent \in MadeContexts, c \in Contexts, sync \in BOOLEAN :
           Use(parent, c) \/ MakeContract(parent, c, sync)
    \/ \E parent, c \in MadeContexts : parent # c /\ (Link(c, parent) \/ RegisterPlugin(parent, c))
    \/ \E c \in MadeContexts, p \in Providers : SetProvider(c, p)

ConfigSpec == ConfigInit /\ [][ConfigNext]_configVars

---------------------------------------------------------------------------
(* Properties *)

\* A context that follows another, and of which neither was changed behind the
\* other's back, has its options and sends through its manager: an option set
\* at web3 holds for web3.eth, for ENS, for plugins and for its contracts
\* (web3_context.ts `use`, `link`).  The default chain and hardfork never
\* contradict the default common, in whatever order a program sets the three
\* here or at the context that is followed (web3_config.ts).
InStep ==
    /\ \A pair \in follows :
          {pair[1], pair[2]} \cap apart = {} =>
              /\ config[pair[1]] = config[pair[2]]
              /\ manager[pair[1]] = manager[pair[2]]
    /\ \A c \in MadeContexts \ apart :
          LET common == config[c]["defaultCommon"] IN
          common # Nothing =>
              /\ ~ Clash(config[c]["defaultChain"], common.baseChain)
              /\ ~ Clash(config[c]["defaultHardfork"], common.hardfork)
==============================================================================
