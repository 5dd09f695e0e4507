---------------------------------- MODULE Ens ----------------------------------
(***************************************************************************)
(* Names (web3-eth-ens/src: ens.ts, registry.ts, resolver.ts).  A lookup   *)
(* waits for the node three times: for the resolver of the name, for the   *)
(* resolver's word on the interface, and for the record.  checkNetwork()   *)
(* remembers what it learnt.  In between, the owner of the name may change *)
(* its resolver or record, a node may fall behind or catch up, and the     *)
(* program may change the provider.                                        *)
(***************************************************************************)
EXTENDS Naturals, Sequences

CONSTANTS
    Networks,      \* chain ids of the networks the providers reach
    Resolvers,     \* contracts that resolve names; any other address has no code
    Values,        \* contents of a record
    MaxLookups,    \* bounds the lookups
    MaxChecks,     \* bounds the calls of checkNetwork()
    MaxNetworkChanges  \* bounds the changes of the network, the provider and time

NoAnswer == "none"  \* the zero address, or a call that reverts

VARIABLES
    network,       \* the network the current provider reaches
    syncing,       \* networks whose node is syncing
    resolverOf,    \* network -> the resolver of the name
    interfaces,    \* resolver -> the interfaces it supports
    record,        \* network -> resolver -> what it answers
    lookups,       \* lookups begun: [at, network, resolver, value]
    checks,        \* calls of checkNetwork(): [at, network, called, inSync]
    lastSyncCheck, \* _lastSyncCheck: "never", "recent" or "old"
    detected,      \* _detectedAddress
    networkChanges,
    reached,       \* history: the networks the provider has reached so far
    inSync         \* history: those whose node was in sync within the last hour

ensVars == <<network, syncing, resolverOf, interfaces, record, lookups, checks,
             lastSyncCheck, detected, networkChanges, reached, inSync>>

---------------------------------------------------------------------------
(* Tables of config.ts *)

interfaceIds == {"addr", "name", "abi", "pubkey", "text", "contenthash"}
methodsInInterface == [m \in {"addr", "pubkey", "contenthash"} |-> m]
\* The two networks have the registry at one address.
registryAddresses == [n \in {"main", "goerli"} |-> "registry"]
networkIds == [id \in {1, 5} |-> IF id = 1 THEN "main" ELSE "goerli"]

Lookups == {"addr", "pubkey", "contenthash"}
\* The method a lookup calls in the end: getAddress() gives the type of coin.
Called(kind) == IF kind = "addr" THEN "addr of a coin" ELSE kind

---------------------------------------------------------------------------
EnsInit ==
    /\ network \in Networks
    /\ syncing \in SUBSET Networks
    /\ resolverOf \in [Networks -> Resolvers \cup {NoAnswer}]
    /\ interfaces \in [Resolvers -> {{}, {"addr"}, {"addr of a coin"},
                                     {"addr", "addr of a coin"}, {"pubkey", "contenthash"}}]
    /\ record \in [Networks -> [Resolvers -> Values]]
    /\ lookups = <<>> /\ checks = <<>>
    /\ lastSyncCheck = "never"
    /\ detected = NoAnswer
    /\ networkChanges = 0
    /\ reached = {network} /\ inSync = {network} \ syncing

\* What a call on a resolver answers.  An address without code answers nothing.
CallResolver(n, resolver, method) ==
    IF resolver \in Resolvers /\ method \in interfaces[resolver]
    THEN record[n][resolver] ELSE NoAnswer
SupportsInterface(resolver, id) ==
    IF resolver \notin Resolvers THEN NoAnswer
    ELSE IF id \in interfaces[resolver] THEN "yes" ELSE "no"

unchangedNames == UNCHANGED <<resolverOf, interfaces, record>>
unchangedNode == UNCHANGED <<syncing, reached, inSync>> /\ unchangedNames
unchangedCheck == UNCHANGED <<checks, lastSyncCheck, detected>>

\* getAddress(), getPubkey(), getContenthash(): the first request leaves.
Lookup(kind) ==
    /\ Len(lookups) < MaxLookups
    /\ lookups' = Append(lookups, [kind |-> kind, at |-> "resolver", network |-> network,
                                   resolver |-> NoAnswer, value |-> NoAnswer])
    /\ UNCHANGED <<network, networkChanges>> /\ unchangedNode /\ unchangedCheck

\* Registry.getResolver(): the zero address is a string, hence a resolver.  The
\* question for the interface goes to the provider there is now.
ResolverAnswered(l) ==
    /\ lookups[l].at = "resolver"
    /\ lookups' = [lookups EXCEPT ![l].at = "interface", ![l].network = network,
                                  ![l].resolver = resolverOf[lookups[l].network]]
    /\ UNCHANGED <<network, networkChanges>> /\ unchangedNode /\ unchangedCheck

\* checkInterfaceSupport()
FaultInterfaceAnswered(l) ==
    /\ lookups[l].at = "interface"
    /\ lookups' = [lookups EXCEPT ![l].at = "value", ![l].network = network]
    /\ UNCHANGED <<network, networkChanges>> /\ unchangedNode /\ unchangedCheck
InterfaceAnswered(l) ==
    LET look     == lookups[l]
        id       == methodsInInterface[look.kind]
        supports == SupportsInterface(look.resolver, id)
    IN
    /\ look.at = "interface"
    /\ id \in interfaceIds
    /\ \/ /\ supports = "yes"
          /\ lookups' = [lookups EXCEPT ![l].at = "value", ![l].network = network]
       \/ /\ supports = "no"
          /\ lookups' = [lookups EXCEPT ![l].at = "ResolverMethodMissingError"]
       \/ /\ supports = NoAnswer
          /\ lookups' = [lookups EXCEPT ![l].at = "error"]
    /\ UNCHANGED <<network, networkChanges>> /\ unchangedNode /\ unchangedCheck

ValueAnswered(l) ==
    LET look  == lookups[l]
        value == CallResolver(look.network, look.resolver, Called(look.kind))
    IN
    /\ look.at = "value"
    /\ lookups' = [lookups EXCEPT ![l].at = IF value = NoAnswer THEN "error" ELSE "done",
                                  ![l].value = value]
    /\ UNCHANGED <<network, networkChanges>> /\ unchangedNode /\ unchangedCheck

---------------------------------------------------------------------------
(* checkNetwork() *)

unchangedLookups == UNCHANGED <<network, lookups, networkChanges>> /\ unchangedNode

\* Where a check goes on once it need not ask for the state of the node.
AfterSync == IF detected # NoAnswer THEN "done" ELSE "id"

FaultCheckNetwork ==
    /\ Len(checks) < MaxChecks
    /\ checks' = Append(checks, [at |-> IF lastSyncCheck # "never" THEN AfterSync ELSE "sync",
                                 network |-> network, called |-> "recent", inSync |-> inSync])
    /\ UNCHANGED <<lastSyncCheck, detected>> /\ unchangedLookups
CheckNetwork ==
    /\ Len(checks) < MaxChecks
    /\ checks' = Append(checks, [at |-> IF lastSyncCheck = "recent" THEN AfterSync ELSE "sync",
                                 network |-> network, called |-> "recent", inSync |-> inSync])
    /\ UNCHANGED <<lastSyncCheck, detected>> /\ unchangedLookups

\* The time that is stored is that of the call, also over a later one.
SyncAnswered(c) ==
    /\ checks[c].at = "sync"
    /\ IF checks[c].network \in syncing
       THEN /\ checks' = [checks EXCEPT ![c].at = "ENSNetworkNotSyncedError"]
            /\ UNCHANGED lastSyncCheck
       ELSE /\ checks' = [checks EXCEPT ![c].at = AfterSync, ![c].network = network]
            /\ lastSyncCheck' = checks[c].called
    /\ UNCHANGED detected /\ unchangedLookups

IdAnswered(c) ==
    LET id == checks[c].network IN
    /\ checks[c].at = "id"
    /\ IF id \in DOMAIN networkIds
       THEN /\ checks' = [checks EXCEPT ![c].at = "done"]
            /\ detected' = registryAddresses[networkIds[id]]
       ELSE /\ checks' = [checks EXCEPT ![c].at = "ENSUnsupportedNetworkError"]
            /\ UNCHANGED detected
    /\ UNCHANGED lastSyncCheck /\ unchangedLookups

---------------------------------------------------------------------------
(* The world around *)

Change == networkChanges < MaxNetworkChanges /\ networkChanges' = networkChanges + 1

\* An hour: what was recent is old.  Before the first check nothing is.
HourPasses ==
    /\ Change /\ checks # <<>>
    /\ lastSyncCheck' = IF lastSyncCheck = "recent" THEN "old" ELSE lastSyncCheck
    /\ checks' = [c \in DOMAIN checks |-> [checks[c] EXCEPT !.called = "old"]]
    /\ inSync' = reached \ syncing
    /\ UNCHANGED <<network, lookups, detected, syncing, reached>> /\ unchangedNames

\* History: the node of a network in use is in sync.
NoteInSync(n) ==
    /\ inSync' = inSync \cup {n}
    /\ checks' = [c \in DOMAIN checks |-> [checks[c] EXCEPT !.inSync = @ \cup {n}]]

SetNetwork(n) ==
    /\ Change /\ n # network
    /\ network' = n
    /\ reached' = reached \cup {n}
    /\ IF n \in syncing THEN UNCHANGED <<inSync, checks>> ELSE NoteInSync(n)
    /\ UNCHANGED <<lookups, syncing, lastSyncCheck, detected>> /\ unchangedNames

NodeFallsBehind(n) ==
    /\ Change /\ n \notin syncing
    /\ syncing' = syncing \cup {n}
    /\ UNCHANGED <<network, lookups, reached, inSync>> /\ unchangedNames /\ unchangedCheck

NodeCatchesUp(n) ==
    /\ Change /\ n \in syncing
    /\ syncing' = syncing \ {n}
    /\ IF n \in reached THEN NoteInSync(n) ELSE UNCHANGED <<inSync, checks>>
    /\ UNCHANGED <<network, lookups, reached, lastSyncCheck, detected>> /\ unchangedNames

OwnerChanges(n, resolver, value) ==
    /\ Change /\ <<resolver, value>> # <<resolverOf[n], record[n][resolver]>>
    /\ resolverOf' = [resolverOf EXCEPT ![n] = resolver]
    /\ record' = [record EXCEPT ![n][resolver] = value]
    /\ UNCHANGED <<network, lookups, syncing, reached, inSync, interfaces>> /\ unchangedCheck

EnsNext ==
    \/ \E kind \in Lookups : Lookup(kind)
    \/ \E l \in DOMAIN lookups :
           ResolverAnswered(l) \/ InterfaceAnswered(l) \/ ValueAnswered(l)
    \/ CheckNetwork
    \/ \E c \in DOMAIN checks : SyncAnswered(c) \/ IdAnswered(c)
    \/ HourPasses
    \/ \E n \in Networks : SetNetwork(n) \/ NodeFallsBehind(n) \/ NodeCatchesUp(n)
    \/ \E n \in Networks, r \in Resolvers, v \in Values : OwnerChanges(n, r, v)

EnsSpec == EnsInit /\ [][EnsNext]_ensVars

---------------------------------------------------------------------------
(* Properties *)

\* A name is resolved only by a resolver that said it supports the interface
\* asked for, with the record that this resolver holds when the last answer
\* comes, on the network that was asked: the one the provider reaches, or after
\* a change of the provider one it reached before (resolver.ts `getAddress`,
\* `checkInterfaceSupport`).
ResolvedByItsResolver ==
    [][\A l \in DOMAIN lookups :
           lookups'[l].at = "done" /\ lookups[l].at # "done" =>
               /\ methodsInInterface[lookups[l].kind] \in interfaces[lookups[l].resolver]
               /\ lookups[l].network \in reached
               /\ lookups'[l].value = record[lookups[l].network][lookups[l].resolver]]_ensVars

\* checkNetwork() returns only if the program has reached a network that has a
\* registry, and a node that was in sync at some moment from an hour before the
\* call on, whatever was remembered of earlier checks and however calls
\* overtake each other.  A program that keeps its provider has reached one
\* network; after a change of the provider either may have been an earlier one
\* (ens.ts `checkNetwork`).
NetworkChecked ==
    \A c \in DOMAIN checks :
        checks[c].at = "done" =>
            /\ \E n \in reached : n \in DOMAIN networkIds
            /\ checks[c].inSync # {}

==============================================================================
