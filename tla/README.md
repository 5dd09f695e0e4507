# TLA+ models of web3.js

Specifications of web3.js 4: what happens between a call of the library and its
answer when sockets break, timers fire, providers change and nodes are slow; and
whether what is sent, signed, encoded and handed back is what was asked. Each
module is translated from the TypeScript under `packages/`; `PROJECT.json` names,
for each definition, the lines it stands for.

Contents: 1 the system, 2 the modules, 3 the runs, 4 fairness and bounds,
5 the proofs, 6 where code and documentation part, 7 what a user of a module
should know, 8 not modelled, 9 the plan.

## 1. The system

web3.js is a library of some twenty packages in one JavaScript process. There are
no threads: an *event* (an application call, a message, a timer, the continuation
of an `await`) runs to its end before the next. One half of what is hard lies in
the order of events, and in what a piece of code still believes after an `await`.
The other half is in tables and conversions that know nothing of each other: a
method, its wrapper, its validator and the schema of its answer; the fork, the
EIPs and the parameters; the encoder and the decoder.

| component | state it keeps | operations | interacts with |
|---|---|---|---|
| `SocketProvider` (web3-utils), `WebSocketProvider`, `IpcProvider` | the socket, `isReconnecting`, `_reconnectAttempts`, the pending and the sent queue | `connect`, `disconnect`, `reset`, `request`, `_onMessage`, `_onConnect`, `_onCloseEvent`, `_reconnect` | the socket's events; a timer; the promise of each request |
| `Eip1193Provider` | chain id, accounts | two probes on every connection | sends them through `request` |
| `ChunkResponseParser` | the torso of a message, a timer | `parseResponse` | called by `_onMessage` |
| `HttpProvider` | none | `request` | `fetch` |
| `Web3DeferredPromise` | state, promise, timer | `resolve`, `reject` | requests, batches |
| `Web3RequestManager` | the provider | `setProvider`, `send`, `sendBatch` | the six kinds of provider; emits the two events of a provider change |
| `Web3BatchRequest` | map id -> request | `add`, `execute`, the answer, the timeout | request manager, deferred promises |
| `Web3SubscriptionManager`, `Web3Subscription` | map id -> subscription; its id | `addSubscription`, `removeSubscription`, `unsubscribe`, `clear`, `messageListener` | events of the request manager, listeners on the provider |
| `sendTransaction` with its helpers (web3-eth) | one async function, two timeouts, a receipt poll, two block watches | send, wait, confirm | request manager, subscription manager |
| confirmations (web3-eth) | a subscription, up to two polling loops, a timeout | watch by subscription, fall back to polling | chain, subscription manager |
| transaction building (web3-eth), `accounts` (web3) | the transaction as filled so far, across awaits | `sendTransaction`, `signTransaction`, `signPriorityTransaction`, `prepareTransactionForSigning` | configuration, up to six questions to the node, the transaction classes |
| transaction types (web3-eth-accounts) | none: immutable objects | `sign`, `serialize`, `fromSerializedData`, recovery | secp256k1, RLP, `Common` |
| `Common` (web3-eth-accounts) | chain, hardfork, EIPs; listeners of `hardforkChanged` | setters, `copy`, thirty questions about forks and parameters | the tables of chains, hardforks and EIPs |
| `Web3Context`, `Web3Config` | configuration, shared managers | `use`, `link`, `registerPlugin`, setters | emits `CONFIG_CHANGE` to those that follow |
| `Wallet` (web3-eth-accounts) | array of accounts, map address -> index | `create`, `add`, `get`, `remove`, `clear`, `encrypt`, `decrypt`, `save`, `load` | key stores, a browser storage |
| `Contract` (web3-eth-contract) | methods, overloads and events made from an ABI; options | calls, deployment, `getPastEvents`, `clone` | validator, ABI coder, `sendTransaction` |
| `ENS` | one cached check of the network | name lookups | registry and resolver contracts |
| methods of `web3.eth`, `personal`, `net` | none: three layers, each with its table | some sixty methods | validator, request manager, formatter |
| ABI coder, typed data, validator, formatter, IBAN, converters | none: pure | | |

What makes the stateful parts hard, and what makes them correct:

* **SocketProvider.** A loss of the connection is reported by several events, late
  ones of sockets already replaced among them, while a timer reconnects, the
  application calls `connect` or `disconnect`, and requests queue up. Correct: a
  request is in one queue and settles once, by the answer to itself; one
  reconnection at a time; one socket feeds the queues; a request settles and a
  reconnection ends.
* **Batches.** A late answer races the timeout, and requests may be added under
  way. Correct: an execution that ended has left nobody waiting.
* **Subscriptions.** The provider changes while `eth_subscribe` or
  `eth_unsubscribe` is in flight, and starts removals that nobody waits for.
  Correct: the map and the objects agree on their ids, the node left behind stops
  sending.
* **sendTransaction.** Every wait is a race of an answer, a timeout and a block
  count that needs answers of its own; timers outlive races. Correct: the promise
  settles, blames the right wait, and leaves nothing running; confirmations come
  and are real.
* **Signing.** Type, price, chain and gas come from the program, the configuration
  and the node, are read at different times, and pass two validations that do not know
  what was filled in. Correct: what is signed is what was asked, for the chain meant,
  within the price allowed; it can be recovered; and a complete description is never
  refused.
* **Wallet.** Indexes and addresses are two views of one list, and decryption ends
  in the middle of other calls. Correct: an address leads to its own key.
* **Contexts.** Options reach a context by four ways, and only one of them tells
  those that follow. Correct: who follows has the options of whom it follows.
* **Ens.** What a lookup or a check learnt may be about a network the program has
  left, or of a node that has fallen behind since. Correct: the record comes from the
  resolver that was asked, on a network the program has reached, and a check passes on
  nothing older than an hour.
* **Common and Contract.** Copies share what they should not; interface, options
  and context are merged at every call. Correct: a listener hears of its own object;
  a call encodes an overload its arguments fit, and the logs that come back are those
  the filter names.
* **Pure parts.** Correct: what went in comes out.

Every hazard is listed at its line under `hazards` in `PROJECT.json`, with the
property that would notice it, or the reason why there is none.

## 2. The modules

An action is one event; code with an `await` is split there, and what it read
before the `await` is carried in the state. Payloads, wording and logging are
left out. A definition named `Fault...` is a plausible bug that stands beside the
operation it is a bug of, so that each property can be seen to fail.

### Between a request and its answer

**`SocketProvider`** - socket_provider.ts with the handlers of
web3-providers-ws/src/index.ts. Sockets are numbered; `ready[s]` is the
readyState of socket `s` (external), `sock` is `_socketConnection`, `attached` the
sockets that have the provider's listeners, `isReconnecting`, `attempts` and the two
queues are the fields of the same name, `timers` counts the reconnect timeouts,
`outcome[i]` is the promise of request `i`, `wire[s]` the requests the server has
received on `s`. Two histories: `overlaid` has the live sockets `connect()` was called
over, which keep their listeners, and `released` tells that `disconnect()` was called while
no reconnection and no other connection was under way. Actions: `Request` (in five cases, one for each way through
`request`), `ConnectCall` (in any state of the provider, as in the code), `DisconnectCall`, `ResetCall`, `OpenEvent`, `CloseEvent`,
`ConnectFails`, `CloseBegins`, `ReconnectTimer`, `OnMessage`. `Reconnect` has the
three ways through `_reconnect`. The probes of `Eip1193Provider` are requests of
their own kind.

**`RequestLifecycle`** is the abstract specification: a request is made, may be
handed to the transport, and ends once. `SocketProviderRefinement` maps the queues
to it; `MCSocketProvider` holds the instances.

**`BatchRequest`** - web3_batch_request.ts with the deferred promises. The answer of
the node is any sequence of entries up to `MaxEntries`, of any ids and kinds.
`state` and `promise` are kept apart, as `Web3DeferredPromise` keeps them.
`NumericIds` chooses how the ids compare as numbers.

**`Subscriptions`** - web3_subscription_manager.ts, web3_subscriptions.ts and
`setProvider`. `registered` is `_subscriptions`, `subId` the `_id` of every object,
`asking` and `removing` the calls in flight with the provider that was current when
they were made, `adding` the continuations after `eth_subscribe`; `active` and `issued`
belong to the nodes. A removal says who made it: one by `unsubscribe()` or
`unsubscribeAll()` is awaited, and the program makes no other call about that object
until it is answered; one that a provider change made, or that the manager's `unsubscribe()`
left in flight when its `Promise.all` rejected, the program neither sees nor awaits. `taken` is a history of the ids an object lost to the
answer of such a removal. The message listeners on the providers are left out.

**`Confirmations`** and **`SendTransaction`** - web3-eth/src/utils and the two
functions of rpc_method_wrappers.ts. `stage` is the `await` at which the async
function stands; `sendStart` and `waitStart` are the two waits for
`getBlockNumber()` before a race. A timeout is `off`, `set` or `fired`, since one that
fires before its race exists decides the race when it begins. `watch[r]` is what
`rejectIfBlockTimeout()` made, `headsTimer[r]` its `blockHeaderTimeout`, which nobody
clears. `SendTransaction` extends `Confirmations`, which starts with the receipt and
reads the same chain (`head`, `minedAt`). `asks` are the questions of a confirmation
poll that are not answered yet: the interval does not wait for its answers, so several
are open at once and an answer is counted on top of what was counted meanwhile. When
the newHeads subscription emits an error, its removal is awaited before the polling begins
(`HeadsError`, `HeadsRemoved`, `HeadsNotRemoved`).

**`EthMethods`**, **`JsonRpc`**, **`Requests`** - one call of a method from its arguments
to the end of its promise. `EthMethods` holds the three layers as three tables
(web3_eth.ts, rpc_method_wrappers.ts, eth_rpc_methods.ts, with `personal` and `net`):
which arguments a layer adds or converts, which method it chooses by hash or by
number, what it validates. `JsonRpc` has json_rpc.ts, and the dispatch over the kinds
of provider and the treatment of answers in web3_request_manager.ts. `Requests`
composes them: `Call` is one step, since nothing is awaited before the provider is
called; until the answer (`Answered`) the program may set another default block
or another provider.

**`Schemas`**, **`Formatter`** - the schemas of answers (web3-eth/src/schemas.ts) and
`format()` of web3-utils, which finds the schema of a value by the path of its keys
from the root, choices (`oneOf`) and arrays included.

### From a transaction to its bytes

**`TransactionTypes`**, **`TypedTransaction`**, **`Signing`** - from a transaction as the
program writes it to the signed bytes. `TransactionTypes` holds the decisions of
web3-eth as operators (type, pricing, defaults, formatting, the checks in their order),
`TypedTransaction` the four classes of web3-eth-accounts, type 64 (ETNIP-1, two
signatures) among them: each is the list of its fields, from which message,
serialization and the way back follow. Numbers are written without leading zeros, so
that 0 and nothing are the same bytes. A signature is a term that binds key, message
and recovery bit. `Signing` is the asynchronous path: `at` is the question that is out,
`tx` the transaction so far, `config` the context, which may change once. `SigningCommon` is the `Common` a transaction is signed under: none is built where
the id of the chain or of the network is 0, and the class takes its default, which for a
legacy transaction is mainnet. Under Shanghai the price of gas cannot be
read, and signing throws (`GasPriceThrows`).

**`ForkParams`**, **`Chains`**, **`Common`** - the parameters of hardforks and EIPs; the
three chains with their forks and every question `Common` answers about them, as
operators on a record of its fields (`HardforkByBlock`, `NextHardforkBlock`,
`ForkHash`, `ParamByHardfork`, ...), and genesis files (`GethHardforks`); and the
object itself, whose setters leave stale what they leave stale (`SetChain` keeps the
hardfork). `emitter` says which table of listeners an object uses, since a copy has
that of the original until it is given its own.

**`TransactionGas`** - on top of `Chains`, the gas a transaction must have (`GetBaseFee`)
by the parameters of its `Common`: data, access list, creation and init code, with the
fee that a frozen transaction remembers per hardfork, the limit of init code and the cost
of the whole to the account.

### Objects a program holds

**`Accounts`**, **`Wallet`** - account.ts over symbolic cryptography (a hash, a derived
key and a cipher text are terms that show what they were made from), and the wallet:
the array and the map of wallet.ts, the storage, and the calls that await
decryption, which then add to whatever the wallet has become. **`SignedMessages`** asks
what a program does with keys but keeping them: a message signed and its signer
recovered, an account made of a key, a key put into a key store and taken out again.

**`Configuration`** - web3_config.ts and web3_context.ts: `config` of each context,
`follows` the listeners of `CONFIG_CHANGE`, `manager` the request manager it shares,
`apart` a history of contexts whose options came by another way than a setter.

**`Ens`** - ens.ts, registry.ts, resolver.ts: a lookup waits three times, a check
twice, and any number of both are under way; the owner of the name and the program
act in between, nodes fall behind and catch up, and hours pass (`HourPasses` makes the cached
check old, and whatever a check in flight will store). `reached` and `inSync` are
histories: the networks the provider has reached, and those whose node was in sync
within the last hour.

**`Contracts`** - contract.ts, utils.ts and encoding.ts: `ParseAndSetJsonInterface` builds
methods, overloads and events; `Method...`, `Deploy` and `EncodeEventABI` give what is
sent; `GetPastEvents` and the topics of a subscription are applied to logs of an
external node. The node hashes every indexed `bytes`, list and tuple (`Hashed`, `Stored`),
the code hashes strings only (`EncodeParameter`); past events are filtered once more by the
text of their values (`Text`, `Kept`). One `Ask...` is a call of the program, and in
between it replaces interface, address or options; `had` is a history of the functions of
every interface the object was given. The validator is a parameter (`Arrange`, `Validates`),
which `MCObjects` takes from `Validation`.

### Functions

**`Validation`** (web3-validator: ABI types to schemas, the predicates, bloom filters),
**`Values`** (units, hex, two's complement, packing, IBAN), **`Abi`** (heads, tails and
words, short structs, logs, contract errors), **`TypedData`** (EIP-712), each as
operators. **`Library`** extends `SignedMessages` and asks them, and the pure parts of the
modules above, one question at a time: `question` is what was asked, `answer` what the
code says, and the properties compare the two by definitions of their own.
**`MCLibrary`** runs it beside `Requests` and `Signing`, **`MCObjects`** runs the objects; the
parts share no state, and `part` says whose turn the behaviour is.

## 3. The runs

| run | question | result |
|---|---|---|
| `SP_races` | requests, automatic reconnection, `connect` in any state, `disconnect`, `reset`, losses: do queues, timer, listeners and outcomes stay consistent, does every request keep to `RequestLifecycle`, does a `disconnect()` last? | holds; a socket `connect()` was called over stays listened to, and a `disconnect()` during a reconnection does not last |
| `SP_manual` | no automatic reconnection, two requests with one id, malformed and stray messages: is a request answered by its own reply? | holds |
| `SP_live` | does every request settle and every reconnection end? | holds when the application leaves the provider alone while it is down |
| `SP_queued` | the same when a request is made while it is down | fails: the request is forgotten |
| `Batch` | two requests, two executions, all answers up to two entries: is anybody left waiting, does every execution end? | holds with numeric ids |
| `Subs_change` | two objects, three providers (one without subscriptions), two changes, also back to a provider used before: can an entry be removed, is a subscription ended where it was made? | holds; only the late answer to a removal nobody waits for makes an entry unremovable |
| `Tx` | one transaction, two questions of a polling loop open at once; the node may leave the send, the mining and the announcement of heads out | holds; a confirmation is ahead of the chain by no more than the other open question |
| `TxHang` | the node may leave `eth_blockNumber` out | fails: no timeout settles the promise |
| `Objects` | wallet, contexts, ENS, `Common`, contract: long sequences of calls, those that await interleaved | holds, for what the properties leave in (section 7) |
| `Named` | does `methods['f(string)']` call `f(string)`? | fails: the first overload that accepts the arguments is called |
| `Library` | some 1,030,000 states: questions to the functions, methods against providers, signing with every pair of request and configuration | holds, for what the properties leave in (section 7) |
| `Rpc` | is an error of a provider always thrown to the caller? | fails: in a callback that comes later it is thrown to nobody |

What the two large runs show:

* `FormatsFaithfully` - every value of an answer, at any depth, in the format asked for.
* `NumbersExact` - units, hex, two's complement, packing and check digits undo each other.
* `SignersRecovered` - messages, keys and key stores; `PasswordGuards` - the same across awaits.
* `Validated` - arguments of their types pass wherever they stand in a list, others do not.
* `DecodesWhatWasEncoded`, `TypedDataToldApart` - encoding loses nothing, a hash is of one message.
* `ChainsDescribed` - the fork of a block, the next one, the hash, and the parameters
  in force agree with a definition by the activation of forks alone; a transaction is
  charged by them, also when its `Common` changes after it remembered its fee.
* `AsksForItsBlock`, `AnsweredFaithfully` - a request is about the block meant at the
  moment of the call; an error never passes for a result.
* `SendersRecovered`, `SignsWhatWasAsked`, `NeverOverpays` - what is signed.
* `WalletAgrees`, `InStep`, `ListenersInformed` - the objects, as in section 1.
* `NetworkChecked` - a check passes only if some network the program has reached has a
  registry, and some node was in sync within the hour before the call or since. The two
  need not be of one network: `setProvider()` forgets neither of the cached answers.
  `ResolvedByItsResolver` - a lookup yields what the resolver that said it supports the
  interface holds, on the network that was asked.
* `CallsWhatWasAsked` - a method call encodes an overload its arguments fit, among those of all
  interfaces the object was given; a deployment sends the code it was given, and goes to the
  address of the object or the call where there is one. `EventsAsFiltered` - what a filter lets through, and
  for which filters everything is lost.

Each property of a passing run is paired in `PROJECT.json` with a fault under which it
fails. `CHECK_DEADLOCK FALSE` is in every configuration, because each of these
systems may rightly stop: everything is settled and the bounds are used up.

## 4. Bounds and fairness

**Bounds.** `SocketProvider`: `MaxSockets` 3 or 4 lets a connection be lost, replaced,
and lost again with a late event of the first; `MaxAttempts` 1 reaches the end of the
attempts in the second failure; two requests are one in each queue, and three where
two share an id. `MaxFailures` and `MaxCalls` cap losses and calls of the application.
`BatchRequest`: two requests give answers that are short, long, doubled, foreign and
swapped; two executions overlap. `Subscriptions`: two ids per node allow an object to
be subscribed, removed and subscribed again; two changes of the provider cross a call
in flight twice, and lead back to a provider with a call still out. `SendTransaction`: with `BlockTimeout` 2 and `MaxHead` 3 either race
may reach its limit or be over before, and a watch of the first race may reach its own
during the second; `ConfirmationBlocks` 2 needs one block after the receipt;
`MaxAsks` 2 lets two questions of a polling loop overlap, which is what makes a count run ahead.

`Objects`: three accounts and two passwords are an array with a middle and a key under
another's password; two asynchronous calls overlap. Three contexts are a chain of
followers, four calls make, link and set one. Two networks, one known to the registry
and one not; one lookup beside two checks, with two changes: of the provider, of a node that falls
behind or catches up, of the name, or an hour. Two objects `Common` are a
listened one and its copy. The interfaces have overloads that share the number of
inputs, an event that is anonymous and names used by two kinds of fragments; filters are given as number, text and hex, by values
that are hashed and that are not.

`Library`: a word has 3 octets in place of 32 and an address 2, so that TLC's integers
hold a word; `WordSizeAssumption` says why it cannot be larger. Widths 8 and 16 stand for
all of them, `MCAmounts` has their boundaries. Lists are up to two long, with and without a
size, in one and two dimensions, and tuples hold a fixed and a dynamic member: the
offsets of a head differ from those of a tail in all of these. Messages are text
and hex with a null at neither, either or one end; key stores have derived keys just below, at
and above 16 bytes. `Signing`: the requests are all
combinations of type, fees, access list and hardfork on
every entry, of chain, hardfork, chain id and common, and of sender, nonce, payload and
gas; one of these three groups varies at a time, because no decision reads fields of two
of them except the hardfork, which is in the first two; the configurations differ in default type,
hardfork, account and common; the hardforks are those at which a decision changes, Shanghai among them; the ids of chain and network
are 0 too. A
maximum fee lies below and above the default priority fee, a gas limit below and above
what a transaction needs at least.

**Fairness.** Timers fire, sockets that close report it, a continuation that is ready
runs: the event loop guarantees these. Beyond them each run says what the outside
must do. `SP_live`: a connection that is attempted opens or fails, and the server
answers what it has received (weak fairness of `Reply`). `Batch`: nothing, the timeout
suffices. `Subs_change`: a node answers or the call fails. `Tx`: `getBlockNumber()` and
the subscription that counts blocks are answered or fail, a receipt that exists is
found by some poll, and a newHeads subscription that has announced one block goes on;
it need not announce any, and `eth_subscribe` of the confirmations need never be
answered, since `blockHeaderTimeout` covers both. The constant `Hangs` names the calls
without fairness. `Objects` and `Library` are about safety and have none.

## 5. The proofs

`tlapm` checks, for all values of the constants under the named assumptions:

* **`SocketProviderProofs`** - `Typed`, `QueuesSafe`, `TimerSafe`, `ListenersSafe`, `Final`
  and `Implements`. `Safety`, the inductive invariant, joins the three invariants with
  what they rest on: sockets that are not opened yet have no state (`FreshSockets`), so
  that a new one cannot be listened to beside the current one; and the probes of a socket
  that is not open have not been made (`FreshProbes`), so that what `_onConnect` queues
  is in no queue and not settled. `ListenersSafe` excepts the sockets `connect()` was called
  over while they were live (`overlaid`): the code leaves their listeners on.
  `Final` and `Implements` follow action by action from `Safety`: what a step settles was
  in a queue and hence waiting. `OwnReplies` (`AnsweredByOwnReply`): a request is answered
  by the reply to itself if no id is used twice (`OwnIdEach`), or else if an id comes free
  only with the connection it was used on (`IdsComeFree`: no `reset()`, no `connect()`, and not automatic
  reconnection together with requests while the provider is down). `WireInv`
  is what it rests on: what the server has still to answer, on whatever
  socket that can still be heard, is in the sent queue (`WaitedFor`), whose requests have
  different ids, and a reconnection leaves no live socket behind (`NoneLeftBehind`).
  `StaysReleased` (`StaysDisconnected`), for every configuration: after `disconnect()` no socket is
  opened until the application asks for one, if no reconnection and no second
  connection was under way at the call and no close event reports a loss since. `NothingUnderWay` carries
  it: no timer is set, and no socket that is listened to can still open.
  Assumptions: `ConstantsAssumption`, `ProbesAssumption` (the id of a request is none of the probes'),
  `NoItemAssumption`.
* **`RequestsProofs`** - batches: `BatchSettles`: with numeric ids and entries that are results
  or errors, an execution that ended by an answer or the timeout left nobody waiting. The
  invariant adds that requests are never taken out of the batch, that what an execution
  sent is among them, and that a promise that is settled stays so. Without numeric ids it
  is false: every id is NaN and a foreign one is accepted, so the theorem assumes them.
  And the calls of the methods: `BlocksAreAskedFor` (`AsksForItsBlock`) and
  `AnswersAreFaithful` (`AnsweredFaithfully`), for any blocks and any providers.
  `RequestsInv` adds that the default block is never a hash, which most methods
  could not be asked about, and that an answer leaves what was asked as it was. Each row of the
  tables is shown to fit the layer underneath (`Match`: what a wrapper makes of an argument
  of its type is valid there), in one of three shapes: a method that asks directly,
  through a wrapper of one function, or through one that chooses by the form of the block;
  `MethodAsks` then says of every method and all arguments what it asks for, `AnswersEnd`
  of every provider and answer how the call ends. Assumption: `BlocksAssumption` (the forms of a block: a number,
  a tag, hex digits, the bytes of a hash).
* **`SubscriptionsProofs`** - `Typed` and `Removable` (`EntriesCanBeRemoved`), for any providers, also
  ones that are set again: an object in the map has the id of its entry, unless
  a removal nobody waited for took that id (`taken`). The invariant: an id is given out once
  (`Numbered`) and to one object, which stands under it in the map (`Single`); an object whose
  `eth_subscribe` is in flight, or whose continuation is due, has no entry but such stale ones
  (`AskingAlone`, `AddingAlone`); and a removal that is awaited is of the id the object
  has, or of one it has lost already (`AwaitedAlone`). Without the last an awaited answer could
  take the id of a newer subscription away.
* **`SendTransactionProofs`** - `ConfirmationsAreReal`: for any number `MaxAsks` of questions a
  polling loop has open, a confirmation number is ahead of the chain by at most `MaxAsks` - 1,
  hence never where answers come within the interval. `ChainInv` adds that before the
  transaction is mined nothing watches its confirmations, and how far the count of a loop can
  be beyond the question of an answer on its way: by the number of its other open questions
  (`CountedExist`), each of which adds one to the count of now for the block of then. `BlockTimeoutIsHonest`:
  a rejection for the block timeout comes that many blocks after the start of the last race.
  `LimitInv` adds that the block from which
  the second race counts is unknown before that race and known whenever it can be lost.
* **`AccountsProofs`** - the wallet: `AddressesLeadToTheirAccounts` (`WalletAgrees`) and
  `OnlyThePasswordUnlocks` (`PasswordGuards`), for any number of accounts, stores and calls that await
  decryption. `WalletInv`: until an account was taken out of the middle, array and map agree;
  what a call under way will add are the accounts its store yields to its password, and a
  store yields them to no other (`RoundTrip`). Adding a list of accounts keeps the
  agreement of array and map (`AddedAllKeeps`, by induction on the list), whatever the wallet has become meanwhile.
  Keys and messages: `SignersAreRecovered` (`SignersRecovered`), for any messages, keys,
  passwords and options, and whatever else is asked in between (`AskElse`), so that it
  holds of `Library` as a whole. A hash tells bytes apart (`HashTellsBytes`), the bytes that
  are hashed are those of the message but for one null at each end (`Padded`,
  `TrimmedIsPadded`), and the MAC of a derived key of more than 16 bytes names the password,
  that of one of 16 none (`MacsTellPasswords`): there another password opens the store,
  but to another key. Assumptions: `MessagesAssumption` (a message is text or hex and has
  bytes), `SignersAssumption` and `StoreAssumption` (names and options of key stores).
  Chains: `ForkIsTheLastReached` says what `HardforkByBlock` answers, for any forks in order
  (`Scheduled`) and any block, difficulty and time: the last fork that has begun and that
  no later block keeps back (`Reached`), and an error exactly if difficulty or time
  contradict the blocks. The proof follows the local definitions one by one: the forks
  before the first to come are those that are `InTime`; the merge is stepped back from if
  it is the last and the difficulty does not say that it has been; forks of the same block
  are never left between. `ForksNeverGoBack`: by number alone every block has a fork, and
  no earlier one than a block before it. `ActiveForksAgree` and `NextForkIsNext`: the
  questions whether a fork is active and which block the next one begins at agree with
  that answer, but for forks of the first block and the merge, as section 7 says. That the
  three chains of the library are in order is proved (`KnownChainsAreScheduled`), that genesis
  files without a time before their genesis give such forks is checked by TLC
  (`ForksInOrder`). Hypotheses are that no number is `Unset` and, for `ActiveForksAgree` and
  `NextForkIsNext`, that forks have different names (`ToldApart`).
  And `Common`: `ListenersAreInformed`: whatever is set, copied and listened to, a
  listener knows the hardfork of its own object. `CommonInv` adds that every object has its
  own table of listeners and that nothing listens to an object that is not made.
* **`ContextsProofs`** - `ContextsInStep`: who follows a context, and was changed by its
  setters only, has its options and its manager. `ConfigInv` adds that a context which
  follows two others is apart (`Linkage`): without it a setter of one of the two would
  reach a context that has to be like the other. And ENS: `NetworkIsChecked` and
  `ResolverIsAsked`, for any number of checks and lookups under way, while nodes fall behind,
  hours pass and the provider changes. `CheckInv`: a recent time in the cache means that a
  node was in sync within the hour, an address there that a network with a registry was reached
  (`Remembered`), and a check has passed a stage only on one of these or on an answer of
  its own (`Founded`). `LookupInv`: a lookup waits for a record only of a resolver that has said it
  supports the interface, on a network the program has reached.
* **`SigningProofs`** - `SendersAreRecovered`, `NoOverpaying` and `SignsAsAsked`, for all
  requests, contexts and answers of the node. `SigningInv` follows the
  transaction through its awaits: what the request gave is kept in it (`Kept`), its prices are
  those of the request or were filled in by one of the two ways (`Priced`), each question is
  asked only of a transaction that lacks the answer (`Stage`), and what is signed has
  passed every check on the way (`Signable`). `ValidationSays` turns the list of checks into
  what they demand. `CompleteInv` is the converse, for what a transaction that is described and
  priced looks like at each question (`CompleteStage`): no check refuses it. Assumptions: `ValuesAssumption`
  (values that are not given differ from those that are), `NodeAssumption` (numbers from the
  node), `ProgramAssumption` (what a program may write). That a complete transaction is not refused
  is claimed where the program gives the price or the default type is one the library prices
  (`PricedByLibrary`, section 6), and where it can be signed at all: not under Shanghai. The chain
  is the one that was meant unless an id is 0 (`BoundToItsChain`, section 7). `NoOverpaying` says exactly
  what is paid: the price of the request, or that of the node, or twice a base fee it
  answered and the priority fee.
* **`ContractsProofs`** - `MethodsCallWhatWasAsked` (`CallsWhatWasAsked`) and
  `EventsAreFiltered` (`EventsAsFiltered`), for all interfaces, arguments, options and logs, and for any
  validator (the constant `Validates`). The invariant `IsContract`: methods and
  events are fragments of the present interface under their own names, and the options are
  fields of those the object was made with. `IsHad`: the overloads of a name are the functions of
  that name in every interface the object was given (`Overloaded`): `ParseAndSetJsonInterface`
  adds and never takes away. From these: an overload that accepts the arguments is found under its
  name, so that what is encoded is for the arguments, though perhaps of an interface the
  object no longer has; and a log passes the topics exactly if its indexed values are those of the
  filter, but for the values a node hashes and the code does not, which no log passes. `ThoseAre`: what the
  filter of a sequence keeps. Assumptions: `InterfaceAssumption` (no event is named
  `ALLEVENTS`), `OptionsAssumption`, `ValuesAssumption`, `OmittedAssumption`. `EventsAreFiltered` also needs
  that logs with the signature of an event were written by it (`LogsToldApart`: two
  events may differ in nothing but what is indexed).

Only model-checked: all liveness (`RequestsSettle`, `ReconnectEnds`, `ExecutionsEnd`,
`EndedAtNode`, `Settles`, `WatchersEnd`, `Confirmed`), which is out of the prover's reach;
and the six invariants of `Library` about formats, numbers, validation, encoding, typed
data and chains, whose definitions recur over data: what they
compute is compared with a second definition for each of the bounded questions instead
(of `ChainsDescribed` the fork of a block is proved for all forks, as above).

## 6. Where code and documentation part

The `findings` of `PROJECT.json` give the places and the quotes: a request made during a
reconnection is forgotten (`SP_queued`); no timeout bounds `getBlockNumber()` in
`sendTransaction` (`TxHang`); the error of a provider with a callback is lost (`Rpc`);
a method reached by its name with parameters is not that method (`Named`).

Others were seen with other constants, and no run is kept for them:

* `disconnect()` leaves the reconnect timer, which connects again, and a socket that `connect()`
  was called over stays listened to: the properties of `SP_races` except the two (`released`,
  `overlaid`), and fail without the exception.
* `link()` and `registerPlugin()` set a provider that is set already, and every
  notification is then delivered twice (web3_context.ts:230-243); the listeners are
  left out of `Subscriptions`, and no run shows it.
* After a provider change an object may be subscribed again while its removal at the old provider is
  out; the answer then clears the new id, and the new entry cannot be removed
  (`taken` records it).
* Confirmations run ahead of the chain when a poll is slower than its interval; `ConfirmationsExist`
  says by how much.
* Batches with the default ids skip the check of the ids: `NumericIds` FALSE makes
  `NoneLeftOpen` fail.
* An id that is used again after `reset()`, or beside a reconnection (the late close event
  of the old socket empties the sent queue of the new one), can be answered by the reply to its
  first request: `AppCalls` with `"reset"` and two requests of one id make
  `AnsweredByOwnReply` fail.
* A context whose `defaultTransactionType` is one the library does not price (64, say) has
  a transaction without prices refused with `MissingGasError`, though a node would have been
  asked for them under any other default.
* A `defaultCommon` makes every transaction without a common of its own be refused,
  because the builder adds `chain` and `hardfork` beside it; `SignsWhatWasAsked` leaves
  that case out.

## 7. What a user of a module should know

The properties of `Objects` and `Library` leave out what the code does otherwise than one
would expect; each omission is a conjunct with a comment in the property. The models do
what the code does in every one of these cases:

* formatter: `format()` searches from the root without the choice it made, so an object nested in
  a chosen array loses the keys the first choice does not have; an empty list
  of `transactions` is dropped, as are `address` of a proof and `withdrawals` of a block.
* converters: `fromWei(0)` is `"0."`, `toWei('1.5', 'wei')` is `"15"`, `toWei('0.0')` has no
  digits, `numberToHex('0x0')` is `"0x"`; the minimum of a width comes wrong out of
  `fromTwosComplement` and is refused by packing.
* validator: the size of an array and the width of its elements are not looked at, an
  integer may be one too large, `''` is an integer, and arrays of two dimensions are
  refused or lose all but their first element.
* ABI: bytes that break off early are accepted, an indexed list in a log is decoded from its
  hash, and a list of no elements of a dynamic type is encoded as static and decoded as dynamic.
* typed data: a text that reads as hex is hashed as the bytes it stands for.
* `Common`: a fork at block 0 is never the fork of a block for `isHardforkBlock`; the
  parameters of an EIP that is not in `eips/index.ts` make a question throw, and Shanghai
  names one (4895): no parameter can be read under it, and no transaction signed, because
  `validate()` asks for the price of gas, and the constructor of a contract creation for the size
  of its code; `setChain` leaves the
  hardfork and its names as they were; `setEIPs` checks against the EIPs set before.
* signing: where the id of the chain or of the network is 0, be it the program's, the
  context's or the node's, a legacy transaction is signed for mainnet.
* transactions: a frozen one whose EIPs change while its hardfork stays keeps the fee it
  remembers; `pR` and `pS` of a priority transaction are compared with their limit before
  they are assigned, hence never.
* wallet: `remove()` takes an account out of the middle of the array and leaves the
  indexes of those behind it (`shifted` records it).
* contexts: a follower hears nothing of `setConfig()`, and what follows a follower hears of neither.
* ENS: a provider change forgets neither the time of the last check nor the address of the
  registry, so a check can pass by the node of one network and the registry of another; a lookup
  under way may ask one network for the resolver and its record of another.
* contract: an object whose interface is replaced keeps the overloads of the old one, so a name may
  still call a function the new one lacks; a deployment from an object that has an address is sent to that
  address; arguments too many are dropped.
* events: a filter of indexed `bytes`, lists or tuples matches nothing, because
  a log has only their hash; a number that is written in hex matches no past event, since those are compared
  as text; a filter of `0` or `false` is ignored by a subscription, and a list of strings
  never matches; an event with an indexed list of plain values cannot be decoded and is lost; logs of another event with the same signature and other indexed parameters
  (a transfer of ERC-20 and one of ERC-721) are returned for an event; an event that is
  named `ALLEVENTS` or `allEvents` is taken for all of them.
* key stores: with a derived key of 16 bytes nothing is left for the MAC, so any password
  opens the store to another key.
* requests: a plain object rejected by an EIP-1193 provider is a `ResponseError`, never a
  revert; the check of the id of a response cannot be reached. A hex number with an even
  number of digits (`getBlock('0x10')`) reads as bytes: the five methods that accept the
  hash of a block ask for it, filled up with zeros, as one.

## 8. Not modelled

The components with status `not_modelled` are `HttpProvider`, one `fetch` without state,
and the declarations of errors and types. Cryptography is perfect and symbolic; RLP,
keccak, checksums of addresses, UTF-8 and random numbers are not looked into. The
generated ABIs of ENS and the tables of boot nodes carry no behaviour. Within the
modelled components: event
listeners of the application, the delay of a reconnection, batches sent through a
socket (one queue entry under the first id), the assembly of partial messages, the events
of `Eip1193Provider`, the open and close handlers of IPC,
`to`, `value` and the limits of width of a transaction, an application that makes two
calls about one subscription object at once, the race of past events and subscription
behind `events()`, ENS records that are written, custom chain objects, and
reorganisations of the chain. The note of each component says what else it leaves out.

## 9. The plan

Done, in this order: `SocketProvider` with its abstract specification and proofs,
`BatchRequest`, `Subscriptions`, `Confirmations` and `SendTransaction`, the signing of
transactions; then the methods with their requests, the objects of a program, the pure
functions, and the proofs about transactions, contexts, `Common` and ENS; then those about
own replies, disconnected providers, the wallet, signing, contracts, the requests of
methods, signed messages with key stores, and the forks of chains.

Next:

1. `SocketProvider` composed with `Subscriptions`: what is left of the map after a
   reconnection. The handlers of `IpcProvider` as a second instance of the socket, and the
   assembly of partial messages against the replacement of a connection.
2. Two transactions of one account at once, which ask for the same nonce.
3. The subscription behind `events()` with the past events it asks for first.
