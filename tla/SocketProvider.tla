---------------------------- MODULE SocketProvider ----------------------------
(***************************************************************************)
(* The WebSocket provider of web3.js: the request queues and the           *)
(* reconnection of SocketProvider (web3-utils/src/socket_provider.ts), the *)
(* handshake of Eip1193Provider and the listeners and close handling of    *)
(* WebSocketProvider (web3-providers-ws/src/index.ts), together with the   *)
(* socket and the server they talk to (external).                          *)
(*                                                                         *)
(* The program is single threaded: an action is one run of the JavaScript  *)
(* event loop, from the callback or the call that starts it to the point   *)
(* where the stack is empty.  Every WebSocket object the provider creates  *)
(* has a number; `sock` is the one held in _socketConnection, and the      *)
(* objects it replaced keep existing and keep firing events.               *)
(***************************************************************************)
EXTENDS Integers

CONSTANTS
    Reqs,           \* calls of request() by the application
    Ids,            \* JSON-RPC ids of those calls
    IdOf,           \* the id of each call: a function from Reqs to Ids
    Unsendable,     \* calls whose payload makes _sendToSocket throw
    AutoReconnect,  \* reconnectOptions.autoReconnect
    MaxAttempts,    \* reconnectOptions.maxAttempts
    AppCalls,       \* what else the application does, a subset of AllAppCalls
    Kinds,          \* what the server puts in a message, a subset of AllKinds
    MaxChunk,       \* bound: responses the server packs in one message
    MaxSockets,     \* bound: WebSocket objects ever created
    MaxFailures,    \* bound: connections refused or broken by the network
    MaxCalls        \* bound: calls of connect(), disconnect() and reset()

AllAppCalls == {"connect", "disconnect", "reset", "requestWhenDown"}
AllKinds    == {"reply", "malformed", "stray", "notification"}

ASSUME ConstantsAssumption ==
    /\ IdOf \in [Reqs -> Ids]
    /\ Unsendable \subseteq Reqs
    /\ AutoReconnect \in BOOLEAN
    /\ MaxAttempts \in Nat
    /\ AppCalls \subseteq AllAppCalls
    /\ Kinds \subseteq AllKinds
    /\ MaxChunk \in Nat
    /\ MaxSockets \in Nat \ {0}
    /\ MaxFailures \in Nat
    /\ MaxCalls \in Nat

Sockets == 1 .. MaxSockets

(* The two requests Eip1193Provider sends when a connection opens.         *)
Probes(s) == {<<"eth_chainId", s>>, <<"eth_accounts", s>>}
AllProbes == {"eth_chainId", "eth_accounts"} \X Sockets

(* toPayload gives every probe a fresh id, so no id of the application and *)
(* no other probe has it: the probe stands for its own id.                 *)
ASSUME ProbesAssumption == (Reqs \union Ids) \intersect AllProbes = {}

Items  == Reqs \union AllProbes
Key(i) == IF i \in Reqs THEN IdOf[i] ELSE i
Keys(S) == {Key(i) : i \in S}

(* Map.set: the entry takes the place of the one with the same key.        *)
Put(queue, new) == {i \in queue : Key(i) \notin Keys(new)} \union new

(* What stands in the place of the request of a notification.              *)
NoItem == <<"no item">>
ASSUME NoItemAssumption == NoItem \notin Items

(* How the promise of a request ends: with the server's reply, or rejected *)
(* with PendingRequestsOnReconnectingError, ConnectionNotOpenError or      *)
(* RequestAlreadySentError.                                                *)
Rejections == {"reconnecting", "notOpen", "alreadySent"}
Settled    == {"answered"} \union Rejections
Outcomes   == {"idle", "waiting"} \union Settled

VARIABLES
    sock,           \* the WebSocket in _socketConnection
    ready,          \* readyState of every WebSocket
    attached,       \* sockets with our open and message listeners
    isReconnecting, \* isReconnecting
    timers,         \* reconnect timeouts that have been set and not fired
    attempts,       \* _reconnectAttempts
    exhausted,      \* MaxAttemptsReachedOnReconnectingError was emitted
    pending,        \* _pendingRequestsQueue
    sent,           \* _sentRequestsQueue
    outcome,        \* promise of every request
    wire,           \* requests the server of a socket has still to answer
    failures,       \* connections refused or broken so far
    calls,          \* calls of connect(), disconnect() and reset() so far
    overlaid,       \* history: sockets connect() replaced while they were live
    released        \* history: disconnect() called with nothing else under way,
                    \* and since then nothing asked for and nothing lost

reconnection == <<isReconnecting, timers, attempts, exhausted>>
queues       == <<pending, sent, outcome>>
history      == <<overlaid, released>>
vars == <<sock, ready, attached, reconnection, queues, wire, failures, calls,
          history>>

(* "aborting" is a CLOSING socket that was closed before it opened: its    *)
(* close event always has code 1006 and wasClean = false.                  *)
ReadyStates == {"none", "connecting", "open", "closing", "aborting", "closed"}
Live        == {"connecting", "open"}

TypeOK ==
    /\ sock \in Sockets
    /\ ready \in [Sockets -> ReadyStates]
    /\ attached \subseteq Sockets
    /\ isReconnecting \in BOOLEAN
    /\ timers \in Nat
    /\ attempts \in 0 .. MaxAttempts
    /\ exhausted \in BOOLEAN
    /\ pending \subseteq Items
    /\ sent \subseteq Items
    /\ outcome \in [Items -> Outcomes]
    /\ wire \in [Sockets -> SUBSET Items]
    /\ failures \in 0 .. MaxFailures
    /\ calls \in 0 .. MaxCalls
    /\ overlaid \subseteq Sockets
    /\ released \in BOOLEAN

(* getStatus() *)
Status ==
    IF ready[sock] = "connecting" THEN "connecting"
    ELSE IF ready[sock] = "open" THEN "connected"
    ELSE "disconnected"

(* The constructor has called connect() once.                              *)
Init ==
    /\ sock = 1
    /\ ready = [s \in Sockets |-> IF s = 1 THEN "connecting" ELSE "none"]
    /\ attached = {1}
    /\ isReconnecting = FALSE /\ timers = 0 /\ attempts = 0
    /\ exhausted = FALSE
    /\ pending = {} /\ sent = {}
    /\ outcome = [i \in Items |-> "idle"]
    /\ wire = [s \in Sockets |-> {}]
    /\ failures = 0 /\ calls = 0
    /\ overlaid = {} /\ released = FALSE

-----------------------------------------------------------------------------
(* Operations the handlers share.                                          *)

(* outcome after the requests of S are settled with the value o.           *)
Settle(S, o) == [i \in Items |-> IF i \in S THEN o ELSE outcome[i]]

(* connect(): a new socket with our listeners.  The listeners of the       *)
(* sockets in `kept` stay.                                                 *)
Open(kept) ==
    /\ sock < MaxSockets
    /\ sock' = sock + 1
    /\ ready' = [ready EXCEPT ![sock + 1] = "connecting"]
    /\ attached' = kept \union {sock + 1}

(***************************************************************************)
(* Faults: variants of the operations below, each with a mistake that is   *)
(* easy to make.  No action uses them; the checks put one in the place of  *)
(* its original to see that a property notices.                            *)
(***************************************************************************)
FaultClearQueuesKeepsSent ==
    /\ outcome' = Settle(pending \union sent, "notOpen")
    /\ pending' = {}
    /\ sent' = sent
    /\ attached' = attached \ {sock}

FaultScheduleOffByOne ==
    /\ ~isReconnecting
    /\ attempts <= MaxAttempts
    /\ isReconnecting' = TRUE
    /\ timers' = timers + 1
    /\ attempts' = attempts + 1
    /\ outcome' = Settle(sent, "reconnecting")
    /\ sent' = {}
    /\ UNCHANGED <<exhausted, pending, attached>>

FaultScheduleUnguarded ==
    /\ attempts < MaxAttempts
    /\ isReconnecting' = TRUE
    /\ timers' = timers + 1
    /\ attempts' = attempts + 1
    /\ outcome' = Settle(sent, "reconnecting")
    /\ sent' = {}
    /\ UNCHANGED <<exhausted, pending, attached>>

FaultScheduleKeepsSent ==
    /\ ~isReconnecting
    /\ attempts < MaxAttempts
    /\ isReconnecting' = TRUE
    /\ timers' = timers + 1
    /\ attempts' = attempts + 1
    /\ outcome' = Settle(sent, "reconnecting")
    /\ UNCHANGED <<exhausted, pending, sent, attached>>

FaultScheduleResends ==
    /\ ~isReconnecting
    /\ attempts < MaxAttempts
    /\ isReconnecting' = TRUE
    /\ timers' = timers + 1
    /\ attempts' = attempts + 1
    /\ pending' = Put(pending, sent \intersect Reqs)
    /\ sent' = {}
    /\ UNCHANGED <<exhausted, outcome, attached>>

FaultGiveUpKeepsPending ==
    /\ ~isReconnecting
    /\ attempts = MaxAttempts
    /\ outcome' = Settle(sent, "reconnecting")
    /\ sent' = {}
    /\ attached' = attached \ {sock}
    /\ exhausted' = TRUE
    /\ UNCHANGED <<isReconnecting, timers, attempts, pending>>

FaultSendUnchecked(r) ==
    /\ ready'[sock'] = "open"
    /\ r \notin Unsendable
    /\ outcome' = Settle({r}, "waiting")
    /\ sent' = Put(sent, {r})
    /\ wire' = [wire EXCEPT ![sock] = @ \union {r}]
    /\ UNCHANGED pending

FaultTimerKeepsListeners ==
    /\ timers > 0
    /\ timers' = timers - 1
    /\ Open(attached)
    /\ isReconnecting' = FALSE
    /\ UNCHANGED <<attempts, exhausted, queues, wire, failures, calls, history>>

FaultTimerKeepsFlag ==
    /\ timers > 0
    /\ timers' = timers - 1
    /\ Open(attached \ {sock})
    /\ UNCHANGED <<isReconnecting, attempts, exhausted, queues, wire, failures,
                   calls, history>>

-----------------------------------------------------------------------------
(* _clearQueues(): everything queued is rejected, and the listeners of the *)
(* current socket go, whichever socket the event came from.                *)
ClearQueues ==
    /\ outcome' = Settle(pending \union sent, "notOpen")
    /\ pending' = {}
    /\ sent' = {}
    /\ attached' = attached \ {sock}

(* _reconnect(), its three ways out.                                       *)
AlreadyReconnecting ==
    /\ isReconnecting
    /\ UNCHANGED <<reconnection, queues, attached>>

ScheduleReconnect ==
    /\ ~isReconnecting
    /\ attempts < MaxAttempts
    /\ isReconnecting' = TRUE
    /\ timers' = timers + 1
    /\ attempts' = attempts + 1
    /\ outcome' = Settle(sent, "reconnecting")
    /\ sent' = {}
    /\ UNCHANGED <<exhausted, pending, attached>>

GiveUp ==
    /\ ~isReconnecting
    /\ attempts = MaxAttempts
    /\ outcome' = [i \in Items |-> IF i \in sent THEN "reconnecting"
                                   ELSE IF i \in pending THEN "notOpen"
                                   ELSE outcome[i]]
    /\ pending' = {}
    /\ sent' = {}
    /\ attached' = attached \ {sock}
    /\ exhausted' = TRUE
    /\ UNCHANGED <<isReconnecting, timers, attempts>>

Reconnect == AlreadyReconnecting \/ ScheduleReconnect \/ GiveUp

(* A fault, like those above.                                              *)
FaultCloseReconnects(clean) ==
    \/ AutoReconnect /\ Reconnect
    \/ ~AutoReconnect /\ ClearQueues /\ UNCHANGED reconnection

(* _onCloseEvent, run for any socket ever opened: the close listener is a  *)
(* fresh arrow function that removeEventListener never finds.  `clean`:    *)
(* code 1000 or 1001 and wasClean.                                         *)
OnCloseEvent(clean) ==
    \/ /\ AutoReconnect /\ ~clean
       /\ Reconnect
    \/ /\ ~AutoReconnect \/ clean
       /\ ClearQueues
       /\ UNCHANGED reconnection

-----------------------------------------------------------------------------
(* Calls of the application.                                               *)

(* request(r), with the call of connect() it starts with when the socket   *)
(* is down.                                                                *)
RequestConnect ==
    IF Status = "disconnected"
    THEN "requestWhenDown" \in AppCalls /\ Open(attached)
    ELSE UNCHANGED <<sock, ready, attached>>

RequestDuplicate(r) ==
    /\ Key(r) \in Keys(sent)
    /\ outcome' = Settle({r}, "alreadySent")
    /\ UNCHANGED <<pending, sent, wire>>

RequestQueued(r) ==
    /\ Key(r) \notin Keys(sent)
    /\ ready'[sock'] = "connecting"
    /\ outcome' = Settle({r}, "waiting")
    /\ pending' = Put(pending, {r})
    /\ UNCHANGED <<sent, wire>>

RequestSent(r) ==
    /\ Key(r) \notin Keys(sent)
    /\ ready'[sock'] = "open"
    /\ r \notin Unsendable
    /\ outcome' = Settle({r}, "waiting")
    /\ sent' = sent \union {r}
    /\ wire' = [wire EXCEPT ![sock] = @ \union {r}]
    /\ UNCHANGED pending

(* The send throws: the entry is deleted and the error emitted, but the    *)
(* promise that is returned is not rejected.                               *)
RequestSendFails(r) ==
    /\ Key(r) \notin Keys(sent)
    /\ ready'[sock'] = "open"
    /\ r \in Unsendable
    /\ outcome' = Settle({r}, "waiting")
    /\ UNCHANGED <<pending, sent, wire>>

Request(r) ==
    /\ outcome[r] = "idle"
    /\ RequestConnect
    /\ \/ RequestDuplicate(r)
       \/ RequestQueued(r)
       \/ RequestSent(r)
       \/ RequestSendFails(r)
    /\ released' = FALSE
    /\ UNCHANGED <<reconnection, failures, calls, overlaid>>

AppCall(name) ==
    /\ name \in AppCalls
    /\ calls < MaxCalls
    /\ calls' = calls + 1

(* connect(): whatever the state of the socket it replaces, that one keeps *)
(* its listeners.                                                          *)
ConnectCall ==
    /\ AppCall("connect")
    /\ Open(attached)
    /\ overlaid' = overlaid \union {s \in {sock} : ready[s] \in Live}
    /\ released' = FALSE
    /\ UNCHANGED <<reconnection, queues, wire, failures>>

(* disconnect(): it cancels neither the reconnect timer nor the queues.    *)
DisconnectCall ==
    /\ AppCall("disconnect")
    /\ attached' = attached \ {sock}
    /\ ready' = [ready EXCEPT ![sock] = CASE @ = "open"       -> "closing"
                                          [] @ = "connecting" -> "aborting"
                                          [] OTHER            -> @]
    /\ released' = /\ ~isReconnecting
                   /\ \A s \in attached \ {sock} : ready[s] \notin Live
    /\ UNCHANGED <<sock, reconnection, queues, wire, failures, overlaid>>

(* reset(): the queues are emptied and their promises left alone.          *)
ResetCall ==
    /\ AppCall("reset")
    /\ pending' = {}
    /\ sent' = {}
    /\ attempts' = 0
    /\ attached' = attached \union {sock}
    /\ UNCHANGED <<sock, ready, isReconnecting, timers, exhausted, outcome,
                   wire, failures, history>>

-----------------------------------------------------------------------------
(* Events of the sockets and the timer.                                    *)

(* _sendPendingRequests sends the queue in order and stops at a payload    *)
(* that throws; which requests stand before it in the Map is left open.    *)
SendablePrefix(S) ==
    /\ S \subseteq pending \ Unsendable
    /\ (pending \intersect Unsendable = {}) => S = pending

(* _onConnect: the probes go through request() and the pending requests    *)
(* after them, all on the socket that is current, be it the one that       *)
(* opened or one that connect() has put in its place.                      *)
ConnectSends(s) ==
    /\ sock = s \/ ready[sock] = "open"
    /\ ready' = [ready EXCEPT ![s] = "open"]
    /\ \E S \in SUBSET pending :
          /\ SendablePrefix(S)
          /\ pending' = pending \ S
          /\ sent' = Put(sent \union Probes(s), S)
          /\ wire' = [wire EXCEPT ![sock] = @ \union Probes(s) \union S]
    /\ UNCHANGED <<sock, attached>>

(* A current socket that is not open takes nothing: the probes are queued, *)
(* after a connect() of their own when it is down, and the first send of   *)
(* the queue throws.                                                       *)
ConnectQueues(s) ==
    /\ sock # s /\ ready[sock] # "open"
    /\ IF Status = "connecting"
       THEN /\ ready' = [ready EXCEPT ![s] = "open"]
            /\ UNCHANGED <<sock, attached>>
       ELSE /\ sock < MaxSockets
            /\ sock' = sock + 1
            /\ ready' = [ready EXCEPT ![s] = "open", ![sock + 1] = "connecting"]
            /\ attached' = attached \union {sock + 1}
    /\ pending' = pending \union Probes(s)
    /\ UNCHANGED <<sent, wire>>

OnConnect(s) ==
    /\ attempts' = 0
    /\ outcome' = Settle(Probes(s), "waiting")
    /\ ConnectSends(s) \/ ConnectQueues(s)

OpenEvent(s) ==
    /\ ready[s] = "connecting"
    /\ \/ s \in attached /\ OnConnect(s)
       \/ /\ s \notin attached
          /\ ready' = [ready EXCEPT ![s] = "open"]
          /\ UNCHANGED <<sock, attached, attempts, queues, wire>>
    /\ UNCHANGED <<isReconnecting, timers, exhausted, failures, calls, history>>

(* A connection is refused: the socket fires error and close in one go.    *)
ConnectFails(s) ==
    /\ failures < MaxFailures
    /\ failures' = failures + 1
    /\ ready[s] = "connecting"
    /\ ready' = [ready EXCEPT ![s] = "closed"]
    /\ OnCloseEvent(FALSE)
    /\ released' = FALSE
    /\ UNCHANGED <<sock, wire, calls, overlaid>>

(* The server or the network starts to close an open connection: from here *)
(* getStatus() says disconnected, and the close event is still to come.    *)
CloseBegins(s) ==
    /\ failures < MaxFailures
    /\ failures' = failures + 1
    /\ ready[s] = "open"
    /\ ready' = [ready EXCEPT ![s] = "closing"]
    /\ UNCHANGED <<sock, attached, reconnection, queues, wire, calls, history>>

CloseEvent(s) ==
    /\ ready[s] \in {"closing", "aborting"}
    /\ ready' = [ready EXCEPT ![s] = "closed"]
    /\ \E clean \in BOOLEAN :
          /\ clean => ready[s] = "closing"
          /\ OnCloseEvent(clean)
          /\ released' = (released /\ clean)
    /\ UNCHANGED <<sock, wire, failures, calls, overlaid>>

(* The callback of the reconnect timeout: whatever socket is current by    *)
(* then loses its listeners and is replaced.                               *)
ReconnectTimer ==
    /\ timers > 0
    /\ timers' = timers - 1
    /\ Open(attached \ {sock})
    /\ isReconnecting' = FALSE
    /\ UNCHANGED <<attempts, exhausted, queues, wire, failures, calls, history>>

(* What one response of a message can be: a reply, an object that is       *)
(* neither result nor error, the reply of a batch whose first entry is not *)
(* the batch's first request, or the notification of a subscription.       *)
Responses(s) ==
    [kind : Kinds \intersect {"reply", "malformed"}, item : wire[s]]
      \union [kind : Kinds \intersect {"stray"}, item : wire[s] \intersect Reqs]
      \union [kind : Kinds \intersect {"notification"}, item : {NoItem}]

ItemsOf(chunk) == {chunk[k].item : k \in DOMAIN chunk} \ {NoItem}

Chunks(s) ==
    {chunk \in UNION {[1 .. n -> Responses(s)] : n \in 1 .. MaxChunk} :
        \A j, k \in DOMAIN chunk :
            j # k => chunk[j].item # chunk[k].item \/ chunk[j].item = NoItem}

(* The responses _onMessage returns at: a notification is emitted and a    *)
(* response nobody waits for is ignored, and in both cases the responses   *)
(* behind it in the message are dropped.                                   *)
Stops(chunk, k) ==
    \/ chunk[k].kind \in {"notification", "stray"}
    \/ Key(chunk[k].item) \notin Keys(sent)
    \/ \E j \in 1 .. k - 1 : /\ chunk[j].item # NoItem
                             /\ Key(chunk[j].item) = Key(chunk[k].item)

Handled(chunk) == {k \in DOMAIN chunk : \A j \in 1 .. k : ~Stops(chunk, j)}

(* The queued requests that the handled responses of some kinds are for.   *)
Matched(chunk, kinds) ==
    {i \in sent : \E k \in Handled(chunk) : /\ chunk[k].kind \in kinds
                                            /\ Key(chunk[k].item) = Key(i)}

OnMessage(s, chunk) ==
    /\ ready[s] = "open"
    /\ s \in attached
    /\ wire' = [wire EXCEPT ![s] = @ \ ItemsOf(chunk)]
    /\ outcome' = Settle(Matched(chunk, {"reply"}), "answered")
    /\ sent' = sent \ Matched(chunk, {"reply", "malformed"})
    /\ UNCHANGED <<sock, ready, attached, reconnection, pending, failures,
                   calls, history>>

-----------------------------------------------------------------------------
Next ==
    \/ \E r \in Reqs : Request(r)
    \/ ConnectCall
    \/ DisconnectCall
    \/ ResetCall
    \/ ReconnectTimer
    \/ \E s \in Sockets :
          \/ OpenEvent(s)
          \/ ConnectFails(s)
          \/ CloseBegins(s)
          \/ CloseEvent(s)
          \/ \E chunk \in Chunks(s) : OnMessage(s, chunk)

Spec == Init /\ [][Next]_vars

(* What the platform guarantees: a connection attempt ends, a closing      *)
(* socket closes, a timer fires; and what is asked of the server: it       *)
(* replies to what it got, unless the connection breaks first.             *)
Reply(s, i) == i \in wire[s] /\ OnMessage(s, <<[kind |-> "reply", item |-> i]>>)

Fairness ==
    /\ WF_vars(ReconnectTimer)
    /\ \A s \in Sockets :
          /\ WF_vars(OpenEvent(s) \/ ConnectFails(s))
          /\ WF_vars(CloseEvent(s))
          /\ \A i \in Items : WF_vars(Reply(s, i))

FairSpec == Spec /\ Fairness

-----------------------------------------------------------------------------
(* Properties.                                                             *)

(* A request stands in one queue at most, and only while its promise is    *)
(* open: no handler settles a promise twice or sends a request twice.      *)
QueuesHoldWaiting ==
    /\ pending \intersect sent = {}
    /\ \A i \in pending \union sent : outcome[i] = "waiting"

(* isReconnecting is true exactly while one reconnect timeout is set: the  *)
(* guard of _reconnect never lets a second one start, and no path forgets  *)
(* to take the flag back.                                                  *)
OneReconnectTimer == timers = (IF isReconnecting THEN 1 ELSE 0)

(* Of the sockets that can still deliver something, the provider listens   *)
(* to its current one only, and to those the application itself put        *)
(* another in the place of: neither the reconnect timer, nor a request     *)
(* made while the provider is down, nor reset(), nor a late event makes    *)
(* two connections feed the same queues.                                   *)
ListensToCurrent ==
    \A s \in attached : ready[s] \in Live => s = sock \/ s \in overlaid

(* The outcome of a request is final.                                      *)
SettledForever ==
    [][\A i \in Items : outcome[i] \in Settled => outcome'[i] = outcome[i]]_vars

(* A request is answered by the reply the server gave to that request, on  *)
(* a socket the request was sent on.                                       *)
AnsweredByOwnReply ==
    [][\A i \in Items :
          outcome[i] # "answered" /\ outcome'[i] = "answered"
             => \E s \in Sockets : i \in wire[s] /\ i \notin wire'[s]]_vars

(* disconnect() lasts: if no reconnection and no second connection was     *)
(* under way when it was called, no socket is opened until the application *)
(* asks for something or a connection is lost that was closed uncleanly.   *)
StaysDisconnected == [][released /\ released' => sock' = sock]_vars

(* A promise that request() returned is settled.                           *)
RequestsSettle ==
    \A r \in Reqs : outcome[r] = "waiting" ~> outcome[r] \in Settled

(* A reconnection ends in an open connection or in the error that says the *)
(* attempts are used up.                                                   *)
ReconnectEnds == isReconnecting ~> (Status = "connected" \/ exhausted)
=============================================================================
