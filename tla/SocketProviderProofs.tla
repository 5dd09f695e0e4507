------------------------- MODULE SocketProviderProofs -------------------------
(***************************************************************************)
(* Proofs about SocketProvider, for any set of requests and ids, any       *)
(* reconnection options and any behaviour of the server and the network.   *)
(***************************************************************************)
EXTENDS SocketProviderRefinement, TLAPS

(* A probe is an item, and the number of a socket that is opened is new.   *)
LEMMA ProbesAreItems ==
    ASSUME NEW s \in Sockets
    PROVE  Probes(s) \subseteq AllProbes
BY DEF Probes, AllProbes

(* Settling requests with a legal outcome keeps the outcomes typed.        *)
LEMMA SettleTyped ==
    ASSUME TypeOK, NEW S, NEW o \in Outcomes
    PROVE  Settle(S, o) \in [Items -> Outcomes]
BY DEF Settle, TypeOK

(* A request that is put in a queue joins what already stood there.        *)
LEMMA PutWithin ==
    ASSUME NEW queue, NEW new
    PROVE  /\ Put(queue, new) \subseteq queue \union new
           /\ new \subseteq Put(queue, new)
BY DEF Put

(* The handler of a close event keeps the variables typed, whichever of    *)
(* its ways out it takes.                                                  *)
LEMMA CloseTyped ==
    ASSUME TypeOK, NEW clean \in BOOLEAN, OnCloseEvent(clean)
    PROVE  /\ attached' \subseteq Sockets
           /\ isReconnecting' \in BOOLEAN
           /\ timers' \in Nat
           /\ attempts' \in 0 .. MaxAttempts
           /\ exhausted' \in BOOLEAN
           /\ pending' \subseteq Items
           /\ sent' \subseteq Items
           /\ outcome' \in [Items -> Outcomes]
<1> USE ConstantsAssumption DEF ConstantsAssumption
<1>1. CASE AlreadyReconnecting
  BY <1>1 DEF AlreadyReconnecting, reconnection, queues, TypeOK
<1>2. CASE ScheduleReconnect
  BY <1>2 DEF ScheduleReconnect, Settle, Outcomes, Settled, Rejections, TypeOK
<1>3. CASE GiveUp
  BY <1>3 DEF GiveUp, Outcomes, Settled, Rejections, TypeOK
<1>4. CASE ClearQueues /\ UNCHANGED reconnection
  BY <1>4 DEF ClearQueues, reconnection, Settle, Outcomes, Settled, Rejections,
              TypeOK
<1>5. QED
  BY <1>1, <1>2, <1>3, <1>4 DEF OnCloseEvent, Reconnect

(* connect() keeps the socket variables typed.                             *)
LEMMA OpenTyped ==
    ASSUME TypeOK, NEW kept \in SUBSET Sockets, Open(kept)
    PROVE  /\ sock' \in Sockets
           /\ ready' \in [Sockets -> ReadyStates]
           /\ attached' \subseteq Sockets
<1> USE ConstantsAssumption DEF ConstantsAssumption
<1>1. sock' \in Sockets /\ sock' = sock + 1
  BY DEF Open, TypeOK, Sockets
<1>2. ready' \in [Sockets -> ReadyStates]
  BY <1>1 DEF Open, TypeOK, ReadyStates
<1>3. attached' \subseteq Sockets
  BY <1>1 DEF Open
<1>4. QED
  BY <1>1, <1>2, <1>3

-----------------------------------------------------------------------------
LEMMA InitTyped == Init => TypeOK
<1> SUFFICES ASSUME Init
             PROVE  TypeOK
  OBVIOUS
<1> USE ConstantsAssumption DEF ConstantsAssumption
<1>1. sock \in Sockets /\ attached \subseteq Sockets
  BY DEF Init, Sockets
<1>2. ready \in [Sockets -> ReadyStates]
  BY DEF Init, ReadyStates
<1>3. /\ outcome \in [Items -> Outcomes]
      /\ wire \in [Sockets -> SUBSET Items]
  BY DEF Init, Outcomes
<1>4. /\ isReconnecting \in BOOLEAN
      /\ exhausted \in BOOLEAN
      /\ released \in BOOLEAN
  BY DEF Init
<1>5. /\ timers \in Nat
      /\ attempts \in 0 .. MaxAttempts
      /\ failures \in 0 .. MaxFailures
      /\ calls \in 0 .. MaxCalls
  BY DEF Init
<1>6. pending \subseteq Items /\ sent \subseteq Items /\ overlaid \subseteq Sockets
  BY DEF Init
<1>7. QED
  BY <1>1, <1>2, <1>3, <1>4, <1>5, <1>6 DEF TypeOK

LEMMA RequestTyped ==
    ASSUME TypeOK, NEW r \in Reqs, Request(r)
    PROVE  TypeOK'
<1> USE ConstantsAssumption DEF ConstantsAssumption
<1>1. /\ sock' \in Sockets
      /\ ready' \in [Sockets -> ReadyStates]
      /\ attached' \subseteq Sockets
  BY OpenTyped DEF Request, RequestConnect, TypeOK
<1>2. /\ pending' \subseteq Items
      /\ sent' \subseteq Items
      /\ outcome' \in [Items -> Outcomes]
      /\ wire' \in [Sockets -> SUBSET Items]
  <2>1. CASE RequestDuplicate(r)
    BY <2>1 DEF RequestDuplicate, Settle, Outcomes, Settled, Rejections, TypeOK
  <2>2. CASE RequestQueued(r)
    BY <2>2 DEF RequestQueued, Put, Settle, Outcomes, Items, TypeOK
  <2>3. CASE RequestSent(r)
    BY <2>3 DEF RequestSent, Settle, Outcomes, Items, TypeOK
  <2>4. CASE RequestSendFails(r)
    BY <2>4 DEF RequestSendFails, Settle, Outcomes, TypeOK
  <2>5. QED
    BY <2>1, <2>2, <2>3, <2>4 DEF Request
<1>3. QED
  BY <1>1, <1>2 DEF Request, reconnection, TypeOK

LEMMA OpenEventTyped ==
    ASSUME TypeOK, NEW s \in Sockets, OpenEvent(s)
    PROVE  TypeOK'
<1> USE ConstantsAssumption DEF ConstantsAssumption
<1>1. CASE s \in attached /\ OnConnect(s)
  <2>1. attempts' = 0 /\ outcome' \in [Items -> Outcomes]
    BY <1>1, SettleTyped DEF OnConnect, Outcomes
  <2>2. Probes(s) \subseteq Items
    BY ProbesAreItems DEF Items
  <2>3. /\ isReconnecting' \in BOOLEAN
        /\ exhausted' \in BOOLEAN
        /\ released' \in BOOLEAN
    BY DEF OpenEvent, history, TypeOK
  <2>4. /\ timers' \in Nat
        /\ attempts' \in 0 .. MaxAttempts
        /\ failures' \in 0 .. MaxFailures
        /\ calls' \in 0 .. MaxCalls
        /\ overlaid' \subseteq Sockets
    BY <2>1 DEF OpenEvent, history, TypeOK
  <2>5. CASE ConnectSends(s)
    <3>1. PICK S \in SUBSET pending :
            /\ pending' = pending \ S
            /\ sent' = Put(sent \union Probes(s), S)
            /\ wire' = [wire EXCEPT ![sock] = @ \union Probes(s) \union S]
      BY <2>5 DEF ConnectSends
    <3>2. sent' \subseteq Items /\ pending' \subseteq Items
      BY <2>2, <3>1, PutWithin DEF TypeOK
    <3>3. wire' \in [Sockets -> SUBSET Items]
      BY <2>2, <3>1 DEF TypeOK
    <3>4. ready' \in [Sockets -> ReadyStates]
      BY <2>5 DEF ConnectSends, TypeOK, ReadyStates
    <3>5. QED
      BY <2>1, <2>3, <2>4, <2>5, <3>2, <3>3, <3>4 DEF ConnectSends, TypeOK
  <2>6. CASE ConnectQueues(s)
    <3>1. /\ sock' \in Sockets
          /\ ready' \in [Sockets -> ReadyStates]
          /\ attached' \subseteq Sockets
      <4>1. CASE Status = "connecting"
        BY <2>6, <4>1 DEF ConnectQueues, TypeOK, ReadyStates
      <4>2. CASE Status # "connecting"
        <5>1. sock \in Sockets /\ sock + 1 \in Sockets
          BY <2>6, <4>2 DEF ConnectQueues, TypeOK, Sockets
        <5>2. QED
          BY <2>6, <4>2, <5>1 DEF ConnectQueues, TypeOK, ReadyStates
      <4>3. QED
        BY <4>1, <4>2
    <3>2. /\ pending' \subseteq Items
          /\ UNCHANGED <<sent, wire>>
      BY <2>2, <2>6 DEF ConnectQueues, TypeOK
    <3>3. QED
      BY <2>1, <2>3, <2>4, <3>1, <3>2 DEF TypeOK
  <2>7. QED
    BY <1>1, <2>5, <2>6 DEF OnConnect
<1>2. CASE s \notin attached
  <2>1. ready' \in [Sockets -> ReadyStates]
    BY <1>2 DEF OpenEvent, TypeOK, ReadyStates
  <2>2. QED
    BY <1>2, <2>1 DEF OpenEvent, queues, history, TypeOK
<1>3. QED
  BY <1>1, <1>2 DEF OpenEvent

LEMMA NextTyped == TypeOK /\ [Next]_vars => TypeOK'
<1> SUFFICES ASSUME TypeOK, [Next]_vars
             PROVE  TypeOK'
  OBVIOUS
<1> USE ConstantsAssumption DEF ConstantsAssumption
<1>1. CASE \E r \in Reqs : Request(r)
  BY <1>1, RequestTyped
<1>2. CASE ConnectCall
  <2>1. released' \in BOOLEAN /\ overlaid' \subseteq Sockets
    BY <1>2 DEF ConnectCall, TypeOK
  <2>2. /\ sock' \in Sockets
        /\ ready' \in [Sockets -> ReadyStates]
        /\ attached' \subseteq Sockets
    BY <1>2, OpenTyped DEF ConnectCall, TypeOK
  <2>3. QED
    BY <1>2, <2>1, <2>2 DEF ConnectCall, AppCall, reconnection, queues, TypeOK
<1>3. CASE DisconnectCall
  <2>1. ready' \in [Sockets -> ReadyStates]
    BY <1>3 DEF DisconnectCall, TypeOK, ReadyStates
  <2>2. released' \in BOOLEAN
    BY <1>3 DEF DisconnectCall
  <2>3. QED
    BY <1>3, <2>1, <2>2 DEF DisconnectCall, AppCall, reconnection, queues, TypeOK
<1>4. CASE ResetCall
  BY <1>4 DEF ResetCall, AppCall, history, TypeOK
<1>5. CASE ReconnectTimer
  <2>1. isReconnecting' \in BOOLEAN
    BY <1>5 DEF ReconnectTimer
  <2>2. /\ sock' \in Sockets
        /\ ready' \in [Sockets -> ReadyStates]
        /\ attached' \subseteq Sockets
    BY <1>5, OpenTyped DEF ReconnectTimer, TypeOK
  <2>3. QED
    BY <1>5, <2>1, <2>2 DEF ReconnectTimer, queues, history, TypeOK
<1>6. ASSUME NEW s \in Sockets, OpenEvent(s)
      PROVE  TypeOK'
  BY <1>6, OpenEventTyped
<1>7. ASSUME NEW s \in Sockets, ConnectFails(s)
      PROVE  TypeOK'
  <2>1. ready' \in [Sockets -> ReadyStates]
    BY <1>7 DEF ConnectFails, TypeOK, ReadyStates
  <2>2. failures' \in 0 .. MaxFailures
    BY <1>7 DEF ConnectFails, TypeOK
  <2>3. FALSE \in BOOLEAN
    OBVIOUS
  <2>4. released' \in BOOLEAN
    BY <1>7 DEF ConnectFails
  <2>5. QED
    BY <1>7, <2>1, <2>2, <2>3, <2>4, CloseTyped DEF ConnectFails, TypeOK
<1>8. ASSUME NEW s \in Sockets, CloseBegins(s)
      PROVE  TypeOK'
  BY <1>8 DEF CloseBegins, reconnection, queues, history, TypeOK, ReadyStates
<1>9. ASSUME NEW s \in Sockets, CloseEvent(s)
      PROVE  TypeOK'
  <2>1. PICK clean \in BOOLEAN : OnCloseEvent(clean) /\ released' = (released /\ clean)
    BY <1>9 DEF CloseEvent
  <2>2. released' \in BOOLEAN
    BY <2>1
  <2>3. ready' \in [Sockets -> ReadyStates]
    BY <1>9 DEF CloseEvent, TypeOK, ReadyStates
  <2>4. QED
    BY <1>9, <2>1, <2>2, <2>3, CloseTyped DEF CloseEvent, TypeOK
<1>10. ASSUME NEW s \in Sockets, NEW chunk \in Chunks(s), OnMessage(s, chunk)
       PROVE  TypeOK'
  <2>1. outcome' \in [Items -> Outcomes]
    BY <1>10, SettleTyped DEF OnMessage, Outcomes, Settled
  <2>2. wire' \in [Sockets -> SUBSET Items] /\ sent' \subseteq Items
    BY <1>10 DEF OnMessage, TypeOK
  <2>3. QED
    BY <1>10, <2>1, <2>2 DEF OnMessage, reconnection, history, TypeOK
<1>11. CASE UNCHANGED vars
  BY <1>11 DEF vars, reconnection, queues, history, TypeOK
<1>12. QED
  BY <1>1, <1>2, <1>3, <1>4, <1>5, <1>6, <1>7, <1>8, <1>9, <1>10, <1>11 DEF Next

(* The variables keep their types, for all values of the constants.        *)
THEOREM Typed == Spec => []TypeOK
<1>1. Init => TypeOK
  BY InitTyped
<1>2. TypeOK /\ [Next]_vars => TypeOK'
  BY NextTyped
<1>3. QED
  BY <1>1, <1>2, PTL DEF Spec

-----------------------------------------------------------------------------
(***************************************************************************)
(* The inductive invariant.  That no promise is settled twice needs two    *)
(* facts beside the properties checked: a socket that does not exist yet   *)
(* has the ready state "none", and the probes of a socket that has not     *)
(* opened have not been made.                                              *)
(***************************************************************************)
FreshSockets == \A s \in Sockets : s > sock => ready[s] = "none"

FreshProbes ==
    \A s \in Sockets :
        ready[s] \in {"none", "connecting"}
            => \A p \in Probes(s) : outcome[p] = "idle"

Safety ==
    /\ TypeOK
    /\ QueuesHoldWaiting
    /\ OneReconnectTimer
    /\ ListensToCurrent
    /\ FreshSockets
    /\ FreshProbes

(* Requests and probes are different things, and so are the probes of two  *)
(* sockets.                                                                *)
LEMMA ProbesDisjoint ==
    ASSUME NEW s \in Sockets
    PROVE  /\ Probes(s) \intersect Reqs = {}
           /\ \A t \in Sockets : t # s => Probes(s) \intersect Probes(t) = {}
<1>1. Probes(s) \intersect Reqs = {}
  BY ProbesAssumption, ProbesAreItems
<1>2. \A t \in Sockets : t # s => Probes(s) \intersect Probes(t) = {}
  BY DEF Probes
<1>3. QED
  BY <1>1, <1>2

(* What a close event does to the queues: it rejects some of the queued    *)
(* requests and takes exactly those out.                                   *)
LEMMA CloseRejects ==
    ASSUME TypeOK, QueuesHoldWaiting, NEW clean \in BOOLEAN, OnCloseEvent(clean)
    PROVE  \E S \in SUBSET (pending \union sent) :
              /\ pending' = pending \ S
              /\ sent' = sent \ S
              /\ \A i \in S : outcome'[i] \in Rejections
              /\ \A i \in Items \ S : outcome'[i] = outcome[i]
<1>1. CASE AlreadyReconnecting
  <2>1. pending' = pending \ {} /\ sent' = sent \ {} /\ outcome' = outcome
    BY <1>1 DEF AlreadyReconnecting, queues
  <2>2. {} \in SUBSET (pending \union sent)
    OBVIOUS
  <2>3. QED
    BY <2>1, <2>2
<1>2. CASE ScheduleReconnect
  <2>1. pending' = pending \ sent /\ sent' = sent \ sent
    BY <1>2 DEF ScheduleReconnect, QueuesHoldWaiting
  <2>2. \A i \in Items : outcome'[i] = IF i \in sent THEN "reconnecting"
                                        ELSE outcome[i]
    BY <1>2 DEF ScheduleReconnect, Settle
  <2>3. sent \subseteq Items
    BY DEF TypeOK
  <2>4. QED
    BY <2>1, <2>2, <2>3 DEF Rejections
<1>3. CASE GiveUp \/ ClearQueues
  <2> DEFINE both == pending \union sent
  <2>1. pending' = pending \ both /\ sent' = sent \ both
    BY <1>3 DEF GiveUp, ClearQueues
  <2>2. both \subseteq Items
    BY DEF TypeOK, Items
  <2>3. /\ \A i \in both : outcome'[i] \in Rejections
        /\ \A i \in Items \ both : outcome'[i] = outcome[i]
    BY <1>3, <2>2 DEF GiveUp, ClearQueues, Settle, Rejections
  <2>4. QED
    BY <2>1, <2>3
<1>4. QED
  BY <1>1, <1>2, <1>3 DEF OnCloseEvent, Reconnect

(* What it does to the reconnection and the listeners.                     *)
LEMMA CloseReconnects ==
    ASSUME TypeOK, OneReconnectTimer, NEW clean \in BOOLEAN, OnCloseEvent(clean)
    PROVE  OneReconnectTimer' /\ attached' \subseteq attached
<1>1. CASE AlreadyReconnecting
  BY <1>1 DEF AlreadyReconnecting, reconnection, OneReconnectTimer
<1>2. CASE ScheduleReconnect
  BY <1>2 DEF ScheduleReconnect, OneReconnectTimer
<1>3. CASE GiveUp
  BY <1>3 DEF GiveUp, OneReconnectTimer
<1>4. CASE ClearQueues /\ UNCHANGED reconnection
  BY <1>4 DEF ClearQueues, reconnection, OneReconnectTimer
<1>5. QED
  BY <1>1, <1>2, <1>3, <1>4 DEF OnCloseEvent, Reconnect

(* A new socket is the only one that may be live and listened to, when the *)
(* one it replaces is down, loses its listeners or counts as overlaid.     *)
LEMMA OpenSafe ==
    ASSUME TypeOK, ListensToCurrent, FreshSockets,
           NEW kept \in SUBSET attached, Open(kept), overlaid \subseteq overlaid',
           ready[sock] \in Live /\ sock \in kept => sock \in overlaid'
    PROVE  /\ ListensToCurrent'
           /\ FreshSockets'
           /\ \A s \in Sockets : ready'[s] \in {"none", "connecting"}
                                  => ready[s] \in {"none", "connecting"}
<1>1. sock \in Sockets /\ sock + 1 \in Sockets /\ sock' = sock + 1
  BY ConstantsAssumption DEF ConstantsAssumption, Open, TypeOK, Sockets
<1>2. /\ ready'[sock + 1] = "connecting"
      /\ \A s \in Sockets \ {sock + 1} : ready'[s] = ready[s]
  BY <1>1 DEF Open, TypeOK
<1>3. ready[sock + 1] = "none"
  BY <1>1 DEF FreshSockets, Sockets
<1>4. ListensToCurrent'
  <2> SUFFICES ASSUME NEW s \in attached', ready'[s] \in Live, s # sock + 1
               PROVE  s \in overlaid'
    BY <1>1 DEF ListensToCurrent
  <2>1. s \in kept /\ ready[s] \in Live
    BY <1>2 DEF Open, TypeOK
  <2>2. s = sock \/ s \in overlaid
    BY <2>1 DEF ListensToCurrent
  <2>3. QED
    BY <2>1, <2>2
<1>5. FreshSockets'
  BY <1>1, <1>2 DEF FreshSockets, Sockets
<1>6. QED
  BY <1>2, <1>3, <1>4, <1>5

LEMMA RequestSafe ==
    ASSUME Safety, NEW r \in Reqs, Request(r)
    PROVE  Safety'
<1>1. TypeOK'
  BY RequestTyped DEF Safety
<1>2. r \notin pending \union sent /\ r \in Items
  BY DEF Request, Safety, QueuesHoldWaiting, Items
<1>3. \A i \in Items \ {r} : outcome'[i] = outcome[i]
  BY DEF Request, RequestDuplicate, RequestQueued, RequestSent, RequestSendFails,
         Settle
<1>4. QueuesHoldWaiting'
  <2>1. CASE RequestDuplicate(r) \/ RequestSendFails(r)
    BY <1>2, <1>3, <2>1 DEF RequestDuplicate, RequestSendFails, Safety,
                            QueuesHoldWaiting, TypeOK, Items
  <2>2. CASE RequestQueued(r)
    <3>1. /\ pending' \subseteq pending \union {r}
          /\ sent' = sent
          /\ outcome'[r] = "waiting"
      BY <1>2, <2>2, PutWithin DEF RequestQueued, Settle
    <3>2. QED
      BY <1>2, <1>3, <3>1 DEF Safety, QueuesHoldWaiting, TypeOK, Items
  <2>3. CASE RequestSent(r)
    <3>1. /\ pending' = pending
          /\ sent' = sent \union {r}
          /\ outcome'[r] = "waiting"
      BY <1>2, <2>3 DEF RequestSent, Settle
    <3>2. QED
      BY <1>2, <1>3, <3>1 DEF Safety, QueuesHoldWaiting, TypeOK, Items
  <2>4. QED
    BY <2>1, <2>2, <2>3 DEF Request
<1>5. OneReconnectTimer'
  BY DEF Request, reconnection, Safety, OneReconnectTimer
<1>6. /\ ListensToCurrent'
      /\ FreshSockets'
      /\ \A s \in Sockets : ready'[s] \in {"none", "connecting"}
                             => ready[s] \in {"none", "connecting"}
  <2>1. overlaid' = overlaid
    BY DEF Request
  <2>2. CASE Status = "disconnected" /\ Open(attached)
    BY <2>1, <2>2, OpenSafe DEF Safety, Status, Live
  <2>3. CASE UNCHANGED <<sock, ready, attached>>
    BY <2>1, <2>3 DEF Safety, ListensToCurrent, FreshSockets
  <2>4. QED
    BY <2>2, <2>3 DEF Request, RequestConnect
<1>7. FreshProbes'
  <2> SUFFICES ASSUME NEW s \in Sockets, ready'[s] \in {"none", "connecting"},
                      NEW p \in Probes(s)
               PROVE  outcome'[p] = "idle"
    BY DEF FreshProbes
  <2>1. outcome[p] = "idle"
    BY <1>6 DEF Safety, FreshProbes
  <2>2. p \in Items /\ p # r
    BY ProbesAreItems, ProbesDisjoint DEF Items
  <2>3. QED
    BY <1>3, <2>1, <2>2
<1>8. QED
  BY <1>1, <1>4, <1>5, <1>6, <1>7 DEF Safety

(* What the opening of a socket does to the sockets: the one that opens is  *)
(* open, and at most one more is made, if the current one is down.         *)
LEMMA OpenEventSockets ==
    ASSUME Safety, NEW s \in Sockets, OpenEvent(s)
    PROVE  /\ ready[s] = "connecting" /\ ready'[s] = "open"
           /\ \/ /\ \A t \in Sockets \ {s} : ready'[t] = ready[t]
                 /\ UNCHANGED <<sock, attached>>
              \/ /\ sock' \in Sockets /\ sock' = sock + 1 /\ ready[sock'] = "none"
                 /\ ready[sock] \notin Live /\ ready'[sock'] = "connecting"
                 /\ \A t \in Sockets \ {s, sock'} : ready'[t] = ready[t]
                 /\ attached' = attached \union {sock'}
<1>1. CASE ready' = [ready EXCEPT ![s] = "open"] /\ UNCHANGED <<sock, attached>>
  BY <1>1 DEF OpenEvent, Safety, TypeOK
<1>2. CASE /\ sock # s /\ ready[sock] # "open" /\ Status # "connecting"
           /\ sock < MaxSockets /\ sock' = sock + 1
           /\ ready' = [ready EXCEPT ![s] = "open", ![sock + 1] = "connecting"]
           /\ attached' = attached \union {sock + 1}
  <2>1. sock \in Sockets /\ sock + 1 \in Sockets /\ sock + 1 > sock
    BY <1>2, ConstantsAssumption DEF ConstantsAssumption, Safety, TypeOK, Sockets
  <2>2. ready[sock + 1] = "none"
    BY <2>1 DEF Safety, FreshSockets
  <2>3. ready[s] = "connecting" /\ s # sock + 1
    BY <2>2 DEF OpenEvent
  <2>4. ready[sock] \notin Live
    BY <1>2 DEF Status, Live
  <2>5. QED
    BY <1>2, <2>1, <2>2, <2>3, <2>4 DEF Safety, TypeOK
<1>3. QED
  BY <1>1, <1>2 DEF OpenEvent, OnConnect, ConnectSends, ConnectQueues

(* What it does to the requests: the probes join a queue, and some of the  *)
(* pending requests may be sent.                                           *)
LEMMA OnConnectQueues ==
    ASSUME TypeOK, NEW s \in Sockets, OnConnect(s)
    PROVE  /\ \A i \in Items : outcome'[i] = IF i \in Probes(s) THEN "waiting"
                                             ELSE outcome[i]
           /\ \/ \E S \in SUBSET pending :
                    /\ pending' = pending \ S
                    /\ sent' = Put(sent \union Probes(s), S)
              \/ pending' = pending \union Probes(s) /\ sent' = sent
BY DEF OnConnect, ConnectSends, ConnectQueues, Settle

LEMMA OpenEventSafe ==
    ASSUME Safety, NEW s \in Sockets, OpenEvent(s)
    PROVE  Safety'
<1>1. TypeOK'
  BY OpenEventTyped DEF Safety
<1>2. OneReconnectTimer' /\ overlaid' = overlaid
  BY DEF OpenEvent, Safety, OneReconnectTimer, history
<1>3. ListensToCurrent' /\ FreshSockets'
  <2>1. CASE /\ \A t \in Sockets \ {s} : ready'[t] = ready[t]
             /\ UNCHANGED <<sock, attached>>
    BY <1>2, <2>1, OpenEventSockets DEF Safety, ListensToCurrent, FreshSockets, Live,
                                        TypeOK
  <2>2. CASE /\ sock' \in Sockets /\ sock' = sock + 1
             /\ ready[sock] \notin Live
             /\ \A t \in Sockets \ {s, sock'} : ready'[t] = ready[t]
             /\ attached' = attached \union {sock'}
    <3>1. ListensToCurrent'
      BY <1>2, <2>2, OpenEventSockets DEF Safety, ListensToCurrent, Live, TypeOK
    <3>2. FreshSockets'
      <4> SUFFICES ASSUME NEW t \in Sockets, t > sock'
                   PROVE  ready'[t] = "none"
        BY DEF FreshSockets
      <4>1. t > sock /\ t # sock'
        BY <2>2 DEF Safety, TypeOK, Sockets
      <4>2. ready[t] = "none"
        BY <4>1 DEF Safety, FreshSockets
      <4>3. t # s
        BY <4>2, OpenEventSockets
      <4>4. QED
        BY <2>2, <4>1, <4>2, <4>3
    <3>3. QED
      BY <3>1, <3>2
  <2>3. QED
    BY <2>1, <2>2, OpenEventSockets
<1>4. \A t \in Sockets : ready'[t] \in {"none", "connecting"}
                          => t # s /\ ready[t] \in {"none", "connecting"}
  BY OpenEventSockets
<1>5. Probes(s) \subseteq Items
  BY ProbesAreItems DEF Items
<1>6. CASE OnConnect(s)
  <2>1. \A i \in Items : outcome'[i] = IF i \in Probes(s) THEN "waiting"
                                        ELSE outcome[i]
    BY <1>6, OnConnectQueues DEF Safety
  <2>2. pending \subseteq Items /\ sent \subseteq Items
    BY DEF Safety, TypeOK
  <2>3. Probes(s) \intersect (pending \union sent) = {}
    BY OpenEventSockets DEF Safety, FreshProbes, QueuesHoldWaiting
  <2>4. QueuesHoldWaiting'
    <3>1. CASE \E S \in SUBSET pending :
                 /\ pending' = pending \ S
                 /\ sent' = Put(sent \union Probes(s), S)
      <4>1. PICK S \in SUBSET pending :
              /\ pending' = pending \ S
              /\ sent' = Put(sent \union Probes(s), S)
        BY <3>1
      <4>2. sent' \subseteq sent \union Probes(s) \union S
        BY <4>1, PutWithin
      <4>3. pending' \intersect sent' = {}
        BY <2>3, <4>1, <4>2 DEF Safety, QueuesHoldWaiting
      <4>4. \A i \in pending' \union sent' : outcome'[i] = "waiting"
        BY <1>5, <2>1, <2>2, <4>1, <4>2 DEF Safety, QueuesHoldWaiting
      <4>5. QED
        BY <4>3, <4>4 DEF QueuesHoldWaiting
    <3>2. CASE pending' = pending \union Probes(s) /\ sent' = sent
      BY <1>5, <2>1, <2>2, <2>3, <3>2 DEF Safety, QueuesHoldWaiting
    <3>3. QED
      BY <1>6, <3>1, <3>2, OnConnectQueues DEF Safety
  <2>5. FreshProbes'
    <3> SUFFICES ASSUME NEW t \in Sockets, ready'[t] \in {"none", "connecting"},
                        NEW p \in Probes(t)
                 PROVE  outcome'[p] = "idle"
      BY DEF FreshProbes
    <3>1. p \in Items /\ p \notin Probes(s)
      BY <1>4, ProbesAreItems, ProbesDisjoint DEF Items
    <3>2. QED
      BY <1>4, <2>1, <3>1 DEF Safety, FreshProbes
  <2>6. QED
    BY <1>1, <1>2, <1>3, <2>4, <2>5 DEF Safety
<1>7. CASE UNCHANGED queues
  <2>1. QueuesHoldWaiting'
    BY <1>7 DEF queues, Safety, QueuesHoldWaiting
  <2>2. FreshProbes'
    BY <1>4, <1>7 DEF queues, Safety, FreshProbes
  <2>3. QED
    BY <1>1, <1>2, <1>3, <2>1, <2>2 DEF Safety
<1>8. QED
  BY <1>6, <1>7 DEF OpenEvent, queues

(* The handling of a close event, whether the connection was refused or    *)
(* broke: the socket s is closed by then.                                  *)
LEMMA CloseSafe ==
    ASSUME Safety, NEW s \in Sockets, NEW clean \in BOOLEAN,
           ready[s] \in {"connecting", "closing", "aborting"},
           ready' = [ready EXCEPT ![s] = "closed"], UNCHANGED <<sock, overlaid>>,
           OnCloseEvent(clean), TypeOK'
    PROVE  Safety'
<1>1. PICK S \in SUBSET (pending \union sent) :
        /\ pending' = pending \ S
        /\ sent' = sent \ S
        /\ \A i \in S : outcome'[i] \in Rejections
        /\ \A i \in Items \ S : outcome'[i] = outcome[i]
  BY CloseRejects DEF Safety
<1>2. OneReconnectTimer' /\ attached' \subseteq attached
  BY CloseReconnects DEF Safety
<1>3. QueuesHoldWaiting'
  <2>1. pending \subseteq Items /\ sent \subseteq Items
    BY DEF Safety, TypeOK, Items
  <2>2. QED
    BY <1>1, <2>1 DEF Safety, QueuesHoldWaiting
<1>4. ready'[s] = "closed" /\ \A t \in Sockets \ {s} : ready'[t] = ready[t]
  BY DEF Safety, TypeOK
<1>5. ListensToCurrent'
  BY <1>2, <1>4 DEF Safety, TypeOK, ListensToCurrent, Live
<1>6. FreshSockets'
  BY <1>4 DEF Safety, FreshSockets
<1>7. FreshProbes'
  <2> SUFFICES ASSUME NEW t \in Sockets, ready'[t] \in {"none", "connecting"},
                      NEW p \in Probes(t)
               PROVE  outcome'[p] = "idle"
    BY DEF FreshProbes
  <2>1. outcome[p] = "idle" /\ p \in Items
    BY <1>4, ProbesAreItems DEF Safety, FreshProbes, Items
  <2>2. p \notin S
    BY <2>1 DEF Safety, QueuesHoldWaiting
  <2>3. QED
    BY <1>1, <2>1, <2>2
<1>8. QED
  BY <1>2, <1>3, <1>5, <1>6, <1>7 DEF Safety

LEMMA MessageSafe ==
    ASSUME Safety, NEW s \in Sockets, NEW chunk \in Chunks(s),
           OnMessage(s, chunk), TypeOK'
    PROVE  Safety'
<1> DEFINE answered == Matched(chunk, {"reply"})
<1>1. /\ answered \subseteq sent
      /\ answered \subseteq Matched(chunk, {"reply", "malformed"})
  BY DEF Matched
<1>2. /\ pending' = pending
      /\ sent' \subseteq sent \ answered
      /\ \A i \in Items \ answered : outcome'[i] = outcome[i]
  BY <1>1 DEF OnMessage, Settle
<1>3. QueuesHoldWaiting'
  <2>1. pending \subseteq Items /\ sent \subseteq Items
    BY DEF Safety, TypeOK, Items
  <2>2. QED
    BY <1>1, <1>2, <2>1 DEF Safety, QueuesHoldWaiting
<1>4. OneReconnectTimer' /\ ListensToCurrent' /\ FreshSockets'
  BY DEF OnMessage, reconnection, history, Safety, OneReconnectTimer,
         ListensToCurrent, FreshSockets
<1>5. FreshProbes'
  <2> SUFFICES ASSUME NEW t \in Sockets, ready[t] \in {"none", "connecting"},
                      NEW p \in Probes(t)
               PROVE  outcome'[p] = "idle"
    BY DEF FreshProbes, OnMessage
  <2>1. outcome[p] = "idle" /\ p \in Items
    BY ProbesAreItems DEF Safety, FreshProbes, Items
  <2>2. p \notin answered
    BY <1>1, <2>1 DEF Safety, QueuesHoldWaiting
  <2>3. QED
    BY <1>2, <2>1, <2>2
<1>6. QED
  BY <1>3, <1>4, <1>5 DEF Safety

LEMMA InitSafe == Init => Safety
<1> SUFFICES ASSUME Init
             PROVE  Safety
  OBVIOUS
<1>1. TypeOK
  BY InitTyped
<1>2. QueuesHoldWaiting /\ OneReconnectTimer
  BY DEF Init, QueuesHoldWaiting, OneReconnectTimer
<1>3. ListensToCurrent /\ FreshSockets
  BY DEF Init, ListensToCurrent, FreshSockets, Sockets
<1>4. FreshProbes
  BY ProbesAreItems DEF Init, FreshProbes, Items
<1>5. QED
  BY <1>1, <1>2, <1>3, <1>4 DEF Safety

LEMMA NextSafe == Safety /\ [Next]_vars => Safety'
<1> SUFFICES ASSUME Safety, [Next]_vars
             PROVE  Safety'
  OBVIOUS
<1>1. TypeOK'
  BY NextTyped DEF Safety
<1>2. CASE \E r \in Reqs : Request(r)
  BY <1>2, RequestSafe
<1>3. ASSUME UNCHANGED queues,
             OneReconnectTimer', ListensToCurrent', FreshSockets',
             \A s \in Sockets : ready'[s] \in {"none", "connecting"}
                                => ready[s] \in {"none", "connecting"}
      PROVE  Safety'
  <2>1. QueuesHoldWaiting'
    BY <1>3 DEF queues, Safety, QueuesHoldWaiting
  <2>2. FreshProbes'
    BY <1>3 DEF queues, Safety, FreshProbes
  <2>3. QED
    BY <1>1, <1>3, <2>1, <2>2 DEF Safety
<1>4. CASE ConnectCall
  <2>1. /\ ListensToCurrent'
        /\ FreshSockets'
        /\ \A s \in Sockets : ready'[s] \in {"none", "connecting"}
                               => ready[s] \in {"none", "connecting"}
    BY <1>4, OpenSafe DEF ConnectCall, Safety
  <2>2. UNCHANGED queues /\ OneReconnectTimer'
    BY <1>4 DEF ConnectCall, reconnection, Safety, OneReconnectTimer
  <2>3. QED
    BY <1>3, <2>1, <2>2
<1>5. CASE DisconnectCall
  <2>1. \A s \in Sockets :
          ready'[s] = ready[s] \/ ready'[s] \in {"closing", "aborting"}
    BY <1>5 DEF DisconnectCall, Safety, TypeOK
  <2>2. \A s \in Sockets : ready[s] = "none" => ready'[s] = "none"
    BY <1>5 DEF DisconnectCall, Safety, TypeOK
  <2>3. ListensToCurrent' /\ FreshSockets'
    BY <1>5, <2>1, <2>2 DEF DisconnectCall, Safety, TypeOK, ListensToCurrent,
                            FreshSockets, Live
  <2>4. UNCHANGED queues /\ OneReconnectTimer'
    BY <1>5 DEF DisconnectCall, reconnection, Safety, OneReconnectTimer
  <2>5. QED
    BY <1>3, <2>1, <2>3, <2>4
<1>6. CASE ResetCall
  <2>1. QueuesHoldWaiting'
    BY <1>6 DEF ResetCall, QueuesHoldWaiting
  <2>2. OneReconnectTimer' /\ ListensToCurrent' /\ FreshSockets' /\ FreshProbes'
    BY <1>6 DEF ResetCall, history, Safety, OneReconnectTimer, ListensToCurrent,
                FreshSockets, FreshProbes
  <2>3. QED
    BY <1>1, <2>1, <2>2 DEF Safety
<1>7. CASE ReconnectTimer
  <2>1. /\ ListensToCurrent'
        /\ FreshSockets'
        /\ \A s \in Sockets : ready'[s] \in {"none", "connecting"}
                               => ready[s] \in {"none", "connecting"}
    BY <1>7, OpenSafe DEF ReconnectTimer, history, Safety
  <2>2. UNCHANGED queues
    BY <1>7 DEF ReconnectTimer
  <2>3. OneReconnectTimer'
    BY <1>7 DEF ReconnectTimer, Safety, OneReconnectTimer
  <2>4. QED
    BY <1>3, <2>1, <2>2, <2>3
<1>8. ASSUME NEW s \in Sockets, OpenEvent(s)
      PROVE  Safety'
  BY <1>8, OpenEventSafe
<1>9. ASSUME NEW s \in Sockets, ConnectFails(s)
      PROVE  Safety'
  BY <1>1, <1>9, CloseSafe DEF ConnectFails
<1>10. ASSUME NEW s \in Sockets, CloseBegins(s)
       PROVE  Safety'
  <2>1. \A t \in Sockets : ready'[t] = ready[t]
                           \/ (t = s /\ ready[s] = "open" /\ ready'[t] = "closing")
    BY <1>10 DEF CloseBegins, Safety, TypeOK
  <2>2. ListensToCurrent' /\ FreshSockets'
    BY <1>10, <2>1 DEF CloseBegins, history, Safety, TypeOK, ListensToCurrent,
                       FreshSockets, Live
  <2>3. UNCHANGED queues /\ OneReconnectTimer'
    BY <1>10 DEF CloseBegins, reconnection, Safety, OneReconnectTimer
  <2>4. QED
    BY <1>3, <2>1, <2>2, <2>3
<1>11. ASSUME NEW s \in Sockets, CloseEvent(s)
       PROVE  Safety'
  BY <1>1, <1>11, CloseSafe DEF CloseEvent
<1>12. ASSUME NEW s \in Sockets, NEW chunk \in Chunks(s), OnMessage(s, chunk)
       PROVE  Safety'
  BY <1>1, <1>12, MessageSafe
<1>13. CASE UNCHANGED vars
  <2>1. /\ UNCHANGED queues
        /\ UNCHANGED <<sock, ready, attached, isReconnecting, timers, overlaid>>
    BY <1>13 DEF vars, reconnection, history
  <2>2. OneReconnectTimer' /\ ListensToCurrent' /\ FreshSockets'
    BY <2>1 DEF Safety, OneReconnectTimer, ListensToCurrent, FreshSockets
  <2>3. QED
    BY <1>3, <2>1, <2>2
<1>14. QED
  BY <1>2, <1>4, <1>5, <1>6, <1>7, <1>8, <1>9, <1>10, <1>11, <1>12, <1>13 DEF Next

(* The inductive invariant holds in every reachable state.                 *)
THEOREM Safe == Spec => []Safety
<1>1. Init => Safety
  BY InitSafe
<1>2. Safety /\ [Next]_vars => Safety'
  BY NextSafe
<1>3. QED
  BY <1>1, <1>2, PTL DEF Spec

(* A request is in one queue at most, and only while its promise is open.  *)
THEOREM QueuesSafe == Spec => []QueuesHoldWaiting
<1>1. Safety => QueuesHoldWaiting
  BY DEF Safety
<1>2. QED
  BY <1>1, Safe, PTL

(* isReconnecting tells whether the one reconnect timeout is set.          *)
THEOREM TimerSafe == Spec => []OneReconnectTimer
<1>1. Safety => OneReconnectTimer
  BY DEF Safety
<1>2. QED
  BY <1>1, Safe, PTL

(* Whatever calls, closes and timers interleave, no live connection but    *)
(* the current one is listened to, unless connect() was called while it    *)
(* was the current one.                                                    *)
THEOREM ListenersSafe == Spec => []ListensToCurrent
<1>1. Safety => ListensToCurrent
  BY DEF Safety
<1>2. QED
  BY <1>1, Safe, PTL

-----------------------------------------------------------------------------
(***************************************************************************)
(* One step and the promises: every item of a step either keeps its        *)
(* outcome, or is called, or is settled while it stands in a queue.        *)
(***************************************************************************)
OutcomeStep(i) ==
    \/ outcome'[i] = outcome[i]
    \/ outcome[i] = "idle"
    \/ i \in pending \union sent

LEMMA StepOutcomes ==
    ASSUME Safety, [Next]_vars, NEW i \in Items
    PROVE  OutcomeStep(i)
<1>1. ASSUME NEW r \in Reqs, Request(r)
      PROVE  OutcomeStep(i)
  BY <1>1 DEF OutcomeStep, Request, RequestDuplicate, RequestQueued, RequestSent,
              RequestSendFails, Settle
<1>2. CASE outcome' = outcome
  BY <1>2 DEF OutcomeStep
<1>3. ASSUME NEW s \in Sockets, OpenEvent(s)
      PROVE  OutcomeStep(i)
  <2>1. CASE OnConnect(s)
    <3>1. \A p \in Probes(s) : outcome[p] = "idle"
      BY <1>3 DEF OpenEvent, Safety, FreshProbes
    <3>2. QED
      BY <2>1, <3>1 DEF OnConnect, Settle, OutcomeStep
  <2>2. CASE UNCHANGED queues
    BY <2>2 DEF queues, OutcomeStep
  <2>3. QED
    BY <1>3, <2>1, <2>2 DEF OpenEvent, queues
<1>4. ASSUME NEW clean \in BOOLEAN, OnCloseEvent(clean)
      PROVE  OutcomeStep(i)
  BY <1>4, CloseRejects DEF Safety, OutcomeStep
<1>5. ASSUME NEW s \in Sockets, NEW chunk \in Chunks(s), OnMessage(s, chunk)
      PROVE  OutcomeStep(i)
  BY <1>5 DEF OnMessage, Settle, Matched, OutcomeStep
<1>6. CASE ConnectCall \/ DisconnectCall \/ ResetCall \/ ReconnectTimer
  BY <1>2, <1>6 DEF ConnectCall, DisconnectCall, ResetCall, ReconnectTimer, queues
<1>7. ASSUME NEW s \in Sockets, ConnectFails(s) \/ CloseBegins(s) \/ CloseEvent(s)
      PROVE  OutcomeStep(i)
  BY <1>2, <1>4, <1>7 DEF ConnectFails, CloseBegins, CloseEvent, queues
<1>8. CASE UNCHANGED vars
  BY <1>2, <1>8 DEF vars, queues
<1>9. QED
  BY <1>1, <1>3, <1>5, <1>6, <1>7, <1>8 DEF Next

(* The outcome of a request is final: no late reply, close or reconnection *)
(* changes it.                                                             *)
THEOREM Final == Spec => SettledForever
<1>1. Safety /\ [Next]_vars
        => [\A i \in Items : outcome[i] \in Settled => outcome'[i] = outcome[i]]_vars
  <2> SUFFICES ASSUME Safety, [Next]_vars,
                      NEW i \in Items, outcome[i] \in Settled
               PROVE  outcome'[i] = outcome[i]
    OBVIOUS
  <2>1. outcome[i] # "idle" /\ i \notin pending \union sent
    BY DEF Safety, QueuesHoldWaiting, Settled, Rejections
  <2>2. QED
    BY <2>1, StepOutcomes DEF OutcomeStep
<1>2. QED
  BY <1>1, Safe, PTL DEF Spec, SettledForever

(* A probe's id is the probe's own.                                        *)
LEMMA ProbeKeys ==
    ASSUME NEW p \in AllProbes, NEW i \in Items, Key(i) = Key(p)
    PROVE  i = p
<1>1. p \notin Reqs /\ p \notin Ids
  BY ProbesAssumption
<1>2. CASE i \in Reqs
  <2>1. Key(i) \in Ids
    BY <1>2, ConstantsAssumption DEF ConstantsAssumption, Key
  <2>2. QED
    BY <1>1, <2>1 DEF Key
<1>3. CASE i \notin Reqs
  BY <1>1, <1>3 DEF Key
<1>4. QED
  BY <1>2, <1>3

-----------------------------------------------------------------------------
(***************************************************************************)
(* The refinement of RequestLifecycle, item by item: what an action does   *)
(* to the outcome of an item and to its place in the queues is one of the  *)
(* moves of the lifecycle.                                                 *)
(***************************************************************************)
LEMMA PhaseSame ==
    ASSUME NEW i \in Items,
           outcome'[i] = outcome[i],
           i \in pending' <=> i \in pending,
           i \in sent' <=> i \in sent
    PROVE  PhaseOf(i)' = PhaseOf(i)
BY DEF PhaseOf

LEMMA RequestPhase ==
    ASSUME Safety, NEW r \in Reqs, Request(r), NEW i \in Items
    PROVE  Lifecycle!May(PhaseOf(i), PhaseOf(i)')
<1>1. outcome[r] = "idle" /\ r \notin pending \union sent /\ r \in Items
  BY DEF Request, Safety, QueuesHoldWaiting, Items
<1>2. CASE RequestDuplicate(r)
  <2>1. pending' = pending /\ sent' = sent
    BY <1>2 DEF RequestDuplicate
  <2>2. CASE i = r
    BY <1>1, <1>2, <2>2 DEF RequestDuplicate, Settle, PhaseOf, Rejections,
                            Lifecycle!May, Lifecycle!Moves
  <2>3. CASE i # r
    BY <1>2, <2>1, <2>3, PhaseSame DEF RequestDuplicate, Settle, Lifecycle!May
  <2>4. QED
    BY <2>2, <2>3
<1>3. CASE RequestQueued(r)
  <2>1. /\ sent' = sent
        /\ pending' = Put(pending, {r})
        /\ \A j \in Items : outcome'[j] = IF j = r THEN "waiting" ELSE outcome[j]
    BY <1>3 DEF RequestQueued, Settle
  <2>2. CASE i = r
    BY <1>1, <2>1, <2>2, PutWithin DEF PhaseOf, Rejections, Lifecycle!May,
                                       Lifecycle!Moves
  <2>3. CASE i # r /\ (i \in pending' <=> i \in pending)
    BY <2>1, <2>3, PhaseSame DEF Lifecycle!May
  <2>4. CASE i # r /\ i \in pending /\ i \notin pending'
    <3>1. ~Lossless
      <4>1. Key(i) = Key(r) /\ i \in Items
        BY <2>1, <2>4 DEF Put, Keys, Safety, TypeOK
      <4>2. i \in Reqs
        BY <1>1, <2>4, <4>1, ProbeKeys DEF Items
      <4>3. QED
        BY <2>4, <4>1, <4>2 DEF Key, Lossless
    <3>2. PhaseOf(i) = "queued" /\ PhaseOf(i)' = "forgotten"
      <4>1. outcome[i] = "waiting" /\ i \notin sent
        BY <2>4 DEF Safety, QueuesHoldWaiting
      <4>2. QED
        BY <2>1, <2>4, <4>1 DEF PhaseOf, Rejections
    <3>3. QED
      BY <3>1, <3>2 DEF Lifecycle!May, Lifecycle!Forgets
  <2>5. i # r => (i \in pending' => i \in pending)
    BY <2>1, PutWithin
  <2>6. QED
    BY <2>2, <2>3, <2>4, <2>5
<1>4. CASE RequestSent(r)
  <2>1. /\ pending' = pending
        /\ sent' = sent \union {r}
        /\ \A j \in Items : outcome'[j] = IF j = r THEN "waiting" ELSE outcome[j]
    BY <1>4 DEF RequestSent, Settle
  <2>2. CASE i = r
    BY <1>1, <2>1, <2>2 DEF PhaseOf, Rejections, Lifecycle!May, Lifecycle!Moves
  <2>3. CASE i # r
    BY <2>1, <2>3, PhaseSame DEF Lifecycle!May
  <2>4. QED
    BY <2>2, <2>3
<1>5. CASE RequestSendFails(r)
  <2>1. /\ pending' = pending
        /\ sent' = sent
        /\ \A j \in Items : outcome'[j] = IF j = r THEN "waiting" ELSE outcome[j]
        /\ ~Lossless
    BY <1>5 DEF RequestSendFails, Settle, Lossless
  <2>2. CASE i = r
    BY <1>1, <2>1, <2>2 DEF PhaseOf, Rejections, Lifecycle!May, Lifecycle!Forgets
  <2>3. CASE i # r
    BY <2>1, <2>3, PhaseSame DEF Lifecycle!May
  <2>4. QED
    BY <2>2, <2>3
<1>6. QED
  BY <1>2, <1>3, <1>4, <1>5 DEF Request

LEMMA ConnectPhase ==
    ASSUME Safety, NEW s \in Sockets, ready[s] = "connecting", OnConnect(s),
           NEW i \in Items
    PROVE  Lifecycle!May(PhaseOf(i), PhaseOf(i)')
<1>1. \A j \in Items : outcome'[j] = IF j \in Probes(s) THEN "waiting"
                                      ELSE outcome[j]
  BY OnConnectQueues DEF Safety
<1>2. /\ pending \subseteq Items
      /\ sent \subseteq Items
      /\ pending \intersect sent = {}
      /\ \A j \in pending \union sent : outcome[j] = "waiting"
      /\ \A p \in Probes(s) : outcome[p] = "idle"
  BY DEF Safety, QueuesHoldWaiting, FreshProbes, TypeOK
<1>3. Probes(s) \subseteq AllProbes /\ Probes(s) \intersect Reqs = {}
  BY ProbesAreItems, ProbesDisjoint
<1>4. CASE pending' = pending \union Probes(s) /\ sent' = sent
  <2>1. CASE i \in Probes(s)
    BY <1>1, <1>2, <1>4, <2>1 DEF PhaseOf, Rejections, Lifecycle!May, Lifecycle!Moves
  <2>2. CASE i \notin Probes(s)
    BY <1>1, <1>4, <2>2, PhaseSame DEF Lifecycle!May
  <2>3. QED
    BY <2>1, <2>2
<1>5. ASSUME NEW S \in SUBSET pending,
             pending' = pending \ S,
             sent' = Put(sent \union Probes(s), S)
      PROVE  Lifecycle!May(PhaseOf(i), PhaseOf(i)')
  <2>1. CASE i \in Probes(s)
    <3>1. Key(i) \notin Keys(S)
      BY <1>2, <1>3, <2>1, ProbeKeys DEF Keys, Items
    <3>2. i \in sent' /\ i \notin pending'
      BY <1>2, <1>5, <2>1, <3>1 DEF Put
    <3>3. QED
      BY <1>1, <1>2, <2>1, <3>2 DEF PhaseOf, Rejections, Lifecycle!May,
                                    Lifecycle!Moves
  <2>2. CASE i \in S
    <3>1. i \in sent' /\ i \notin pending' /\ i \in pending
      BY <1>5, <2>2, PutWithin
    <3>2. outcome[i] = "waiting" /\ outcome'[i] = "waiting"
      BY <1>1, <1>2, <3>1
    <3>3. QED
      BY <3>1, <3>2 DEF PhaseOf, Rejections, Lifecycle!May, Lifecycle!Moves
  <2>3. CASE i \notin Probes(s) /\ i \notin S
    <3>1. outcome'[i] = outcome[i] /\ (i \in pending' <=> i \in pending)
      BY <1>1, <1>5, <2>3
    <3>2. CASE i \in sent' <=> i \in sent
      BY <3>1, <3>2, PhaseSame DEF Lifecycle!May
    <3>3. CASE i \in sent /\ i \notin sent'
      <4>1. PICK j \in S : Key(j) = Key(i)
        BY <1>5, <3>3 DEF Put, Keys
      <4>2. i \in Reqs /\ j \in Reqs /\ i # j
        BY <1>2, <2>3, <3>3, <4>1, ProbeKeys DEF Items
      <4>3. ~Lossless
        BY <4>1, <4>2 DEF Key, Lossless
      <4>4. PhaseOf(i) = "sent" /\ PhaseOf(i)' = "forgotten"
        BY <1>2, <3>1, <3>3 DEF PhaseOf, Rejections
      <4>5. QED
        BY <4>3, <4>4 DEF Lifecycle!May, Lifecycle!Forgets
    <3>4. i \in sent' => i \in sent
      BY <1>5, <2>3, PutWithin
    <3>5. QED
      BY <3>2, <3>3, <3>4
  <2>4. QED
    BY <2>1, <2>2, <2>3
<1>6. QED
  BY <1>4, <1>5, OnConnectQueues DEF Safety

LEMMA ClosePhase ==
    ASSUME Safety, NEW clean \in BOOLEAN, OnCloseEvent(clean), NEW i \in Items
    PROVE  Lifecycle!May(PhaseOf(i), PhaseOf(i)')
<1>1. PICK S \in SUBSET (pending \union sent) :
        /\ pending' = pending \ S
        /\ sent' = sent \ S
        /\ \A j \in S : outcome'[j] \in Rejections
        /\ \A j \in Items \ S : outcome'[j] = outcome[j]
  BY CloseRejects DEF Safety
<1>2. CASE i \in S
  <2>1. outcome[i] = "waiting"
    BY <1>2 DEF Safety, QueuesHoldWaiting
  <2>2. PhaseOf(i) \in {"queued", "sent"}
    BY <1>2, <2>1 DEF PhaseOf, Rejections
  <2>3. PhaseOf(i)' = "rejected"
    BY <1>1, <1>2 DEF PhaseOf, Rejections
  <2>4. QED
    BY <2>2, <2>3 DEF Lifecycle!May, Lifecycle!Moves
<1>3. CASE i \notin S
  BY <1>1, <1>3, PhaseSame DEF Lifecycle!May
<1>4. QED
  BY <1>2, <1>3

LEMMA MessagePhase ==
    ASSUME Safety, NEW s \in Sockets, NEW chunk \in Chunks(s),
           OnMessage(s, chunk), NEW i \in Items
    PROVE  Lifecycle!May(PhaseOf(i), PhaseOf(i)')
<1> DEFINE answered == Matched(chunk, {"reply"})
           removed == Matched(chunk, {"reply", "malformed"})
<1>1. /\ answered \subseteq removed
      /\ removed \subseteq sent
  BY DEF Matched
<1>2. /\ pending' = pending
      /\ sent' = sent \ removed
      /\ \A j \in Items : outcome'[j] = IF j \in answered THEN "answered"
                                        ELSE outcome[j]
  BY DEF OnMessage, Settle
<1>3. \A j \in sent : outcome[j] = "waiting" /\ j \notin pending
  BY DEF Safety, QueuesHoldWaiting
<1>4. CASE i \in answered
  <2>1. PhaseOf(i) = "sent" /\ PhaseOf(i)' = "answered"
    BY <1>1, <1>2, <1>3, <1>4 DEF PhaseOf, Rejections
  <2>2. QED
    BY <2>1 DEF Lifecycle!May, Lifecycle!Moves
<1>5. CASE i \in removed \ answered
  <2>1. "malformed" \in Kinds
    <3>1. PICK k \in DOMAIN chunk : chunk[k].kind = "malformed"
      BY <1>5 DEF Matched, Handled
    <3>2. PICK n \in 1 .. MaxChunk : chunk \in [1 .. n -> Responses(s)]
      BY DEF Chunks
    <3>3. chunk[k] \in Responses(s)
      BY <3>2
    <3>4. QED
      BY <3>1, <3>3 DEF Responses
  <2>2. PhaseOf(i) = "sent" /\ PhaseOf(i)' = "forgotten"
    BY <1>1, <1>2, <1>3, <1>5 DEF PhaseOf, Rejections
  <2>3. QED
    BY <2>1, <2>2 DEF Lossless, Lifecycle!May, Lifecycle!Forgets
<1>6. CASE i \notin removed
  BY <1>1, <1>2, <1>6, PhaseSame DEF Lifecycle!May
<1>7. QED
  BY <1>4, <1>5, <1>6

LEMMA StepPhase ==
    ASSUME Safety, [Next]_vars, NEW i \in Items
    PROVE  Lifecycle!May(PhaseOf(i), PhaseOf(i)')
<1>1. CASE \E r \in Reqs : Request(r)
  BY <1>1, RequestPhase
<1>2. CASE UNCHANGED queues
  BY <1>2, PhaseSame DEF queues, Lifecycle!May
<1>3. CASE ConnectCall \/ DisconnectCall \/ ReconnectTimer
  BY <1>2, <1>3 DEF ConnectCall, DisconnectCall, ReconnectTimer
<1>4. CASE ResetCall
  <2>1. pending' = {} /\ sent' = {} /\ outcome' = outcome /\ ~Lossless
    BY <1>4 DEF ResetCall, AppCall, Lossless
  <2>2. CASE i \in pending \union sent
    <3>1. outcome[i] = "waiting"
      BY <2>2 DEF Safety, QueuesHoldWaiting
    <3>2. QED
      BY <2>1, <2>2, <3>1 DEF PhaseOf, Rejections, Lifecycle!May, Lifecycle!Forgets
  <2>3. CASE i \notin pending \union sent
    BY <2>1, <2>3, PhaseSame DEF Lifecycle!May
  <2>4. QED
    BY <2>2, <2>3
<1>5. ASSUME NEW s \in Sockets, OpenEvent(s)
      PROVE  Lifecycle!May(PhaseOf(i), PhaseOf(i)')
  <2>1. (OnConnect(s) /\ ready[s] = "connecting") \/ UNCHANGED queues
    BY <1>5 DEF OpenEvent, queues
  <2>2. QED
    BY <1>2, <2>1, ConnectPhase
<1>6. ASSUME NEW s \in Sockets, ConnectFails(s) \/ CloseBegins(s) \/ CloseEvent(s)
      PROVE  Lifecycle!May(PhaseOf(i), PhaseOf(i)')
  BY <1>2, <1>6, ClosePhase DEF ConnectFails, CloseBegins, CloseEvent
<1>7. ASSUME NEW s \in Sockets, NEW chunk \in Chunks(s), OnMessage(s, chunk)
      PROVE  Lifecycle!May(PhaseOf(i), PhaseOf(i)')
  BY <1>7, MessagePhase
<1>8. CASE UNCHANGED vars
  BY <1>2, <1>8 DEF vars
<1>9. QED
  BY <1>1, <1>3, <1>4, <1>5, <1>6, <1>7, <1>8 DEF Next

(* The provider implements the lifecycle of a request; and where nothing   *)
(* but Lossless use is made of it, no request is ever forgotten.           *)
THEOREM Implements == Spec => ImplementsLifecycle
<1>1. Init => Lifecycle!Init
  BY DEF Init, Lifecycle!Init, phase, PhaseOf
<1>2. Safety /\ [Next]_vars => [Lifecycle!Next]_phase
  <2> SUFFICES ASSUME Safety, [Next]_vars
               PROVE  Lifecycle!Next
    OBVIOUS
  <2>1. phase' \in [Items -> Lifecycle!Phases]
    BY DEF phase, PhaseOf, Lifecycle!Phases
  <2>2. \A i \in Items : Lifecycle!May(phase[i], phase'[i])
    BY StepPhase DEF phase
  <2>3. QED
    BY <2>1, <2>2 DEF Lifecycle!Next
<1>3. QED
  BY <1>1, <1>2, Safe, PTL DEF Spec, Lifecycle!Spec, ImplementsLifecycle

-----------------------------------------------------------------------------
(***************************************************************************)
(* Where a reply finds its own request: every call has an id of its own,   *)
(* or an id that is free again has no old request left on a connection     *)
(* that is listened to.  The second is lost by reset(); by connect(),      *)
(* which leaves the connection it replaces listened to when the requests   *)
(* sent on it are given up; and by a late close event, which takes what is *)
(* sent on the connection that has replaced the closed one for lost; that  *)
(* needs a reconnection beside a connection that a request opened.         *)
(***************************************************************************)
OwnIdEach == \A q, r \in Reqs : IdOf[q] = IdOf[r] => q = r
NoLateClose == ~AutoReconnect \/ "requestWhenDown" \notin AppCalls
IdsComeFree == AppCalls \intersect {"connect", "reset"} = {} /\ NoLateClose

(* The requests of S have different ids.                                   *)
Apart(S) == \A i, j \in S : Key(i) = Key(j) => i = j

(* What the server has to answer on a connection that is listened to is    *)
(* what the provider waits for.                                            *)
WaitedFor == \A s \in attached : ready[s] = "open" => wire[s] \subseteq sent
NothingSentBefore ==
    \A s \in Sockets : ready[s] \in {"none", "connecting"} => wire[s] = {}

(* A reconnection that is alone in opening sockets leaves none behind.     *)
NoneLeftBehind ==
    AutoReconnect =>
        /\ \A s \in Sockets : s < sock => ready[s] = "closed"
        /\ timers > 0 => ready[sock] = "closed"

(* A provider that is not to reconnect sets no timer.                      *)
NeverReconnects == ~AutoReconnect \/ MaxAttempts = 0
NoTimer == NeverReconnects => timers = 0

WireInv ==
    /\ Safety
    /\ overlaid = {}
    /\ Apart(sent) /\ Apart(pending)
    /\ WaitedFor
    /\ NothingSentBefore
    /\ NoneLeftBehind
    /\ NoTimer

LEMMA InitWired == Init => WireInv
<1> SUFFICES ASSUME Init
             PROVE  WireInv
  OBVIOUS
<1>1. Safety
  BY InitSafe
<1>2. Apart(sent) /\ Apart(pending) /\ NothingSentBefore /\ overlaid = {}
  BY DEF Init, Apart, NothingSentBefore
<1>3. WaitedFor /\ NoneLeftBehind /\ NoTimer
  BY <1>1 DEF Init, WaitedFor, NoneLeftBehind, NoTimer, Safety, TypeOK, Sockets
<1>4. QED
  BY <1>1, <1>2, <1>3 DEF WireInv

(* Opening a socket: nothing is on its wire, and when a reconnection alone *)
(* opens sockets the one it replaces is down.                              *)
LEMMA OpenWired ==
    ASSUME WireInv, NEW kept \in SUBSET attached, Open(kept), UNCHANGED <<wire, sent>>,
           AutoReconnect => ready[sock] = "closed" /\ timers' = 0
    PROVE  WaitedFor' /\ NothingSentBefore' /\ NoneLeftBehind'
<1>1. sock \in Sockets /\ sock + 1 \in Sockets /\ sock' = sock + 1
  BY ConstantsAssumption DEF ConstantsAssumption, Open, WireInv, Safety, TypeOK, Sockets
<1>2. /\ ready'[sock + 1] = "connecting"
      /\ \A s \in Sockets \ {sock + 1} : ready'[s] = ready[s]
      /\ ready[sock + 1] = "none"
  BY <1>1 DEF Open, WireInv, Safety, TypeOK, FreshSockets, Sockets
<1>3. WaitedFor'
  BY <1>1, <1>2 DEF Open, WireInv, WaitedFor, Safety, TypeOK
<1>4. NothingSentBefore'
  BY <1>1, <1>2 DEF WireInv, NothingSentBefore
<1>5. NoneLeftBehind'
  BY <1>1, <1>2 DEF WireInv, NoneLeftBehind, Sockets
<1>6. QED
  BY <1>3, <1>4, <1>5

(* Map.set keeps the ids of a queue different.                             *)
LEMMA PutApart ==
    ASSUME NEW queue, NEW new, Apart(queue), Apart(new)
    PROVE  Apart(Put(queue, new))
BY DEF Apart, Put, Keys

LEMMA RequestWired ==
    ASSUME WireInv, IdsComeFree, NEW r \in Reqs, Request(r)
    PROVE  WireInv'
<1>1. Safety'
  BY RequestSafe DEF WireInv
<1>2. Apart(sent') /\ Apart(pending')
  <2>1. CASE RequestQueued(r)
    BY <2>1, PutApart DEF RequestQueued, WireInv, Apart
  <2>2. CASE RequestSent(r)
    BY <2>2 DEF RequestSent, WireInv, Apart, Keys
  <2>3. CASE RequestDuplicate(r) \/ RequestSendFails(r)
    BY <2>3 DEF RequestDuplicate, RequestSendFails, WireInv
  <2>4. QED
    BY <2>1, <2>2, <2>3 DEF Request
<1>3. NoTimer' /\ overlaid' = {}
  BY DEF Request, reconnection, WireInv, NoTimer
<1>4. CASE Status = "disconnected"
  <2>1. ~AutoReconnect /\ Open(attached)
    BY <1>4 DEF Request, RequestConnect, IdsComeFree, NoLateClose
  <2>2. ready'[sock'] = "connecting"
    BY <2>1, ConstantsAssumption DEF ConstantsAssumption, Open, WireInv, Safety,
                                     TypeOK, Sockets
  <2>3. UNCHANGED <<wire, sent>>
    BY <2>2 DEF Request, RequestDuplicate, RequestQueued, RequestSent, RequestSendFails
  <2>4. QED
    BY <1>1, <1>2, <1>3, <2>1, <2>3, OpenWired DEF WireInv, NoneLeftBehind
<1>5. CASE Status # "disconnected"
  <2>1. UNCHANGED <<sock, ready, attached, timers>>
    BY <1>5 DEF Request, RequestConnect, reconnection
  <2>2. NoneLeftBehind'
    BY <2>1 DEF WireInv, NoneLeftBehind
  <2>3. WaitedFor' /\ NothingSentBefore'
    <3>1. CASE RequestSent(r)
      BY <2>1, <3>1 DEF RequestSent, WireInv, WaitedFor, NothingSentBefore,
                        Safety, TypeOK
    <3>2. CASE UNCHANGED <<wire, sent>>
      BY <2>1, <3>2 DEF WireInv, WaitedFor, NothingSentBefore
    <3>3. QED
      BY <3>1, <3>2 DEF Request, RequestDuplicate, RequestQueued, RequestSendFails
  <2>4. QED
    BY <1>1, <1>2, <1>3, <2>2, <2>3 DEF WireInv
<1>6. QED
  BY <1>4, <1>5

LEMMA OpenEventWired ==
    ASSUME WireInv, NEW s \in Sockets, OpenEvent(s)
    PROVE  WireInv'
<1>1. Safety'
  BY OpenEventSafe DEF WireInv
<1>2. /\ ready[s] = "connecting"
      /\ ready'[s] = "open"
      /\ \A t \in Sockets \ {s} : ready'[t] = ready[t]
      /\ UNCHANGED <<sock, attached, timers, overlaid>>
      /\ s \in attached => s = sock
  <2>1. s \in attached => s = sock
    BY DEF OpenEvent, WireInv, Safety, ListensToCurrent, Live
  <2>2. ready' = [ready EXCEPT ![s] = "open"] /\ UNCHANGED <<sock, attached>>
    BY <2>1 DEF OpenEvent, OnConnect, ConnectSends, ConnectQueues
  <2>3. QED
    BY <2>1, <2>2 DEF OpenEvent, WireInv, Safety, TypeOK, history
<1>3. NoneLeftBehind' /\ NoTimer'
  BY <1>2 DEF WireInv, NoneLeftBehind, NoTimer, Safety, TypeOK
<1>4. CASE s \in attached /\ OnConnect(s)
  <2>1. PICK S \in SUBSET pending :
          /\ pending' = pending \ S
          /\ sent' = Put(sent \union Probes(s), S)
          /\ wire' = [wire EXCEPT ![s] = @ \union Probes(s) \union S]
    BY <1>2, <1>4 DEF OnConnect, ConnectSends, ConnectQueues
  <2>2. /\ Probes(s) \subseteq AllProbes
        /\ pending \subseteq Items /\ sent \subseteq Items
        /\ \A p \in Probes(s) : outcome[p] = "idle"
        /\ \A i \in pending : outcome[i] = "waiting"
    BY <1>2, ProbesAreItems DEF WireInv, Safety, TypeOK, FreshProbes, QueuesHoldWaiting
  <2>3. /\ wire'[s] = Probes(s) \union S
        /\ \A t \in Sockets \ {s} : wire'[t] = wire[t]
    BY <1>2, <2>1 DEF WireInv, Safety, TypeOK, NothingSentBefore
  <2>4. Apart(sent') /\ Apart(pending')
    <3>1. Apart(sent \union Probes(s))
      BY <2>2, ProbeKeys DEF WireInv, Apart, Items
    <3>2. Apart(S) /\ Apart(pending')
      BY <2>1 DEF WireInv, Apart
    <3>3. QED
      BY <2>1, <3>1, <3>2, PutApart
  <2>5. wire'[s] \subseteq sent'
    <3>1. \A p \in Probes(s) : Key(p) \notin Keys(S)
      <4> SUFFICES ASSUME NEW p \in Probes(s), NEW i \in S, Key(i) = Key(p)
                   PROVE  FALSE
        BY DEF Keys
      <4>1. i = p
        BY <2>2, ProbeKeys DEF Items
      <4>2. QED
        BY <2>2, <4>1
    <3>2. QED
      BY <2>1, <2>3, <3>1 DEF Put
  <2>6. WaitedFor'
    <3> SUFFICES ASSUME NEW t \in attached', ready'[t] = "open"
                 PROVE  wire'[t] \subseteq sent'
      BY DEF WaitedFor
    <3>1. t \in Sockets /\ t = sock' /\ s = sock'
      BY <1>1, <1>2, <1>4 DEF WireInv, Safety, ListensToCurrent, Live, TypeOK
    <3>2. QED
      BY <2>5, <3>1
  <2>7. NothingSentBefore'
    BY <1>2, <2>3 DEF WireInv, NothingSentBefore
  <2>8. QED
    BY <1>1, <1>2, <1>3, <2>4, <2>6, <2>7 DEF WireInv
<1>5. CASE s \notin attached /\ UNCHANGED <<queues, wire>>
  <2>1. WaitedFor' /\ NothingSentBefore'
    BY <1>2, <1>5 DEF queues, WireInv, WaitedFor, NothingSentBefore, Safety, TypeOK
  <2>2. QED
    BY <1>1, <1>2, <1>3, <1>5, <2>1 DEF queues, WireInv, Apart
<1>6. QED
  BY <1>4, <1>5 DEF OpenEvent, queues

(* Without reconnection no close event sets a timer.                       *)
LEMMA CloseSetsNoTimer ==
    ASSUME TypeOK, NoTimer, NEW clean \in BOOLEAN, OnCloseEvent(clean)
    PROVE  NoTimer'
<1>1. CASE UNCHANGED timers
  BY <1>1 DEF NoTimer
<1>2. CASE AutoReconnect /\ ScheduleReconnect
  BY <1>2 DEF ScheduleReconnect, NoTimer, NeverReconnects, TypeOK
<1>3. QED
  BY <1>1, <1>2 DEF OnCloseEvent, Reconnect, AlreadyReconnecting, GiveUp, reconnection

(* The handling of a close event of the socket s, which is closed by then. *)
LEMMA CloseWired ==
    ASSUME WireInv, Safety', NEW s \in Sockets, NEW clean \in BOOLEAN,
           ready[s] \in {"connecting", "closing", "aborting"},
           ready' = [ready EXCEPT ![s] = "closed"],
           UNCHANGED <<sock, wire, overlaid>>, OnCloseEvent(clean)
    PROVE  WireInv'
<1>1. /\ ready'[s] = "closed"
      /\ \A t \in Sockets \ {s} : ready'[t] = ready[t]
  BY DEF WireInv, Safety, TypeOK
<1>2. Apart(sent') /\ Apart(pending')
  BY CloseRejects DEF WireInv, Safety, Apart
<1>3. AutoReconnect => s = sock
  <2>1. ~(s > sock) /\ (AutoReconnect => ~(s < sock))
    BY DEF WireInv, Safety, FreshSockets, NoneLeftBehind
  <2>2. s \in Int /\ sock \in Int
    BY DEF WireInv, Safety, TypeOK, Sockets
  <2>3. QED
    BY <2>1, <2>2
<1>4. NoneLeftBehind'
  BY <1>1, <1>3 DEF WireInv, NoneLeftBehind, Safety, TypeOK
<1>5. NoTimer'
  BY CloseSetsNoTimer DEF WireInv, Safety
<1>6. NothingSentBefore'
  BY <1>1 DEF WireInv, NothingSentBefore
<1>7. WaitedFor'
  <2> SUFFICES ASSUME NEW t \in attached', ready'[t] = "open"
               PROVE  wire'[t] \subseteq sent'
    BY DEF WaitedFor
  <2>1. t \in attached /\ t = sock
    BY CloseReconnects DEF Safety, WireInv, ListensToCurrent, Live
  <2>2. CASE AutoReconnect /\ ~clean /\ AlreadyReconnecting
    BY <1>1, <2>1, <2>2 DEF AlreadyReconnecting, queues, WireInv, WaitedFor, Safety, TypeOK
  <2>3. CASE AutoReconnect /\ ScheduleReconnect
    BY <1>1, <1>3, <2>1, <2>3
  <2>4. CASE GiveUp \/ ClearQueues
    BY <2>1, <2>4 DEF GiveUp, ClearQueues
  <2>5. QED
    BY <2>2, <2>3, <2>4 DEF OnCloseEvent, Reconnect
<1>8. QED
  BY <1>2, <1>4, <1>5, <1>6, <1>7 DEF WireInv

(* A response of a message that is not a notification is about a request   *)
(* the server got on that connection.                                      *)
LEMMA ResponsesAreAsked ==
    ASSUME TypeOK, NEW s \in Sockets, NEW chunk \in Chunks(s),
           NEW k \in DOMAIN chunk, chunk[k].kind \in {"reply", "malformed"}
    PROVE  /\ chunk[k].item \in wire[s]
           /\ chunk[k].item \in ItemsOf(chunk)
<1>1. PICK n \in 1 .. MaxChunk : chunk \in [1 .. n -> Responses(s)]
  BY DEF Chunks
<1>2. chunk[k] \in Responses(s)
  BY <1>1
<1>3. chunk[k].item \in wire[s]
  BY <1>2 DEF Responses
<1>4. chunk[k].item # NoItem
  BY <1>3, NoItemAssumption DEF TypeOK
<1>5. QED
  BY <1>3, <1>4 DEF ItemsOf

LEMMA MessageWired ==
    ASSUME WireInv, NEW s \in Sockets, NEW chunk \in Chunks(s), OnMessage(s, chunk)
    PROVE  WireInv'
<1> DEFINE removed == Matched(chunk, {"reply", "malformed"})
<1>1. Safety'
  BY NextTyped, MessageSafe DEF WireInv, Safety, Next
<1>2. /\ wire' = [wire EXCEPT ![s] = @ \ ItemsOf(chunk)]
      /\ sent' = sent \ removed
      /\ UNCHANGED <<sock, ready, attached, timers, pending, overlaid>>
  BY DEF OnMessage, reconnection, history
<1>3. /\ wire'[s] = wire[s] \ ItemsOf(chunk)
      /\ \A t \in Sockets \ {s} : wire'[t] = wire[t]
  BY <1>2 DEF WireInv, Safety, TypeOK
<1>4. Apart(sent') /\ Apart(pending')
  BY <1>2 DEF WireInv, Apart
<1>5. NothingSentBefore' /\ NoneLeftBehind' /\ NoTimer'
  BY <1>2, <1>3 DEF OnMessage, WireInv, NothingSentBefore, NoneLeftBehind, NoTimer
<1>6. wire'[s] \subseteq sent'
  <2> SUFFICES ASSUME NEW j \in wire[s], j \notin ItemsOf(chunk), j \in removed
               PROVE  FALSE
    BY <1>2, <1>3 DEF OnMessage, WireInv, WaitedFor
  <2>1. PICK k \in DOMAIN chunk : /\ chunk[k].kind \in {"reply", "malformed"}
                                  /\ Key(chunk[k].item) = Key(j)
    BY DEF Matched, Handled
  <2>2. chunk[k].item \in wire[s] /\ chunk[k].item \in ItemsOf(chunk)
    BY <2>1, ResponsesAreAsked DEF WireInv, Safety
  <2>3. wire[s] \subseteq sent
    BY DEF OnMessage, WireInv, WaitedFor
  <2>4. QED
    BY <2>1, <2>2, <2>3 DEF WireInv, Apart
<1>7. WaitedFor'
  <2> SUFFICES ASSUME NEW t \in attached', ready'[t] = "open"
               PROVE  wire'[t] \subseteq sent'
    BY DEF WaitedFor
  <2>1. t = s
    BY <1>2 DEF OnMessage, WireInv, Safety, ListensToCurrent, Live
  <2>2. QED
    BY <1>6, <2>1
<1>8. QED
  BY <1>1, <1>2, <1>4, <1>5, <1>7 DEF WireInv

LEMMA NextWired == IdsComeFree /\ WireInv /\ [Next]_vars => WireInv'
<1> SUFFICES ASSUME IdsComeFree, WireInv, [Next]_vars
             PROVE  WireInv'
  OBVIOUS
<1>1. Safety'
  BY NextSafe DEF WireInv
<1>2. CASE \E r \in Reqs : Request(r)
  BY <1>2, RequestWired
<1>3. ASSUME UNCHANGED <<pending, sent, wire, overlaid>>,
             WaitedFor', NothingSentBefore', NoneLeftBehind', NoTimer'
      PROVE  WireInv'
  BY <1>1, <1>3 DEF WireInv, Apart
<1>4. CASE ConnectCall
  BY <1>4 DEF ConnectCall, AppCall, IdsComeFree
<1>5. CASE DisconnectCall
  <2>1. /\ sock \in Sockets
        /\ \A t \in Sockets \ {sock} : ready'[t] = ready[t]
        /\ ready'[sock] = ready[sock] \/ ready'[sock] \in {"closing", "aborting"}
        /\ ready[sock] = "closed" => ready'[sock] = "closed"
        /\ UNCHANGED <<sock, timers, pending, sent, wire, overlaid>>
        /\ attached' \subseteq attached
    BY <1>5 DEF DisconnectCall, reconnection, queues, WireInv, Safety, TypeOK
  <2>2. WaitedFor' /\ NothingSentBefore'
    BY <2>1 DEF WireInv, WaitedFor, NothingSentBefore, Safety, TypeOK
  <2>3. NoneLeftBehind' /\ NoTimer'
    BY <2>1 DEF WireInv, NoneLeftBehind, NoTimer, Sockets
  <2>4. QED
    BY <1>3, <2>1, <2>2, <2>3
<1>6. CASE ResetCall
  BY <1>6 DEF ResetCall, AppCall, IdsComeFree
<1>7. CASE ReconnectTimer
  <2>1. ready[sock] = "closed" /\ timers' = 0
    <3>1. AutoReconnect /\ timers = 1
      BY <1>7 DEF ReconnectTimer, WireInv, NoTimer, NeverReconnects, Safety,
                  OneReconnectTimer
    <3>2. QED
      BY <1>7, <3>1 DEF ReconnectTimer, WireInv, NoneLeftBehind
  <2>2. WaitedFor' /\ NothingSentBefore' /\ NoneLeftBehind'
    BY <1>7, <2>1, OpenWired DEF ReconnectTimer, queues
  <2>3. QED
    BY <1>3, <1>7, <2>1, <2>2 DEF ReconnectTimer, queues, history, NoTimer
<1>8. ASSUME NEW s \in Sockets, OpenEvent(s)
      PROVE  WireInv'
  BY <1>8, OpenEventWired
<1>9. ASSUME NEW s \in Sockets, ConnectFails(s) \/ CloseEvent(s)
      PROVE  WireInv'
  BY <1>1, <1>9, CloseWired DEF ConnectFails, CloseEvent
<1>10. ASSUME NEW s \in Sockets, CloseBegins(s)
       PROVE  WireInv'
  <2>1. /\ ready[s] = "open" /\ ready'[s] = "closing"
        /\ \A t \in Sockets \ {s} : ready'[t] = ready[t]
        /\ UNCHANGED <<sock, attached, timers, pending, sent, wire, overlaid>>
    BY <1>10 DEF CloseBegins, reconnection, queues, history, WireInv, Safety, TypeOK
  <2>2. WaitedFor' /\ NothingSentBefore'
    BY <2>1 DEF WireInv, WaitedFor, NothingSentBefore, Safety, TypeOK
  <2>3. NoneLeftBehind' /\ NoTimer'
    BY <2>1 DEF WireInv, NoneLeftBehind, NoTimer, Safety, TypeOK
  <2>4. QED
    BY <1>3, <2>1, <2>2, <2>3
<1>11. ASSUME NEW s \in Sockets, NEW chunk \in Chunks(s), OnMessage(s, chunk)
       PROVE  WireInv'
  BY <1>11, MessageWired
<1>12. CASE UNCHANGED vars
  <2>1. UNCHANGED <<sock, ready, attached, timers, pending, sent, wire, overlaid>>
    BY <1>12 DEF vars, reconnection, queues, history
  <2>2. QED
    BY <1>3, <2>1 DEF WireInv, WaitedFor, NothingSentBefore, NoneLeftBehind, NoTimer
<1>13. QED
  BY <1>2, <1>4, <1>5, <1>6, <1>7, <1>8, <1>9, <1>10, <1>11, <1>12 DEF Next

(* In every reachable state, where ids come free.                          *)
THEOREM Wired ==
    ASSUME IdsComeFree
    PROVE  Spec => []WireInv
<1>1. Init => WireInv
  BY InitWired
<1>2. WireInv /\ [Next]_vars => WireInv'
  BY NextWired
<1>3. QED
  BY <1>1, <1>2, PTL DEF Spec

(* What a step answers is what a message of the server was the reply to.   *)
LEMMA StepAnswers ==
    ASSUME Safety, [Next]_vars, NEW i \in Items,
           outcome[i] # "answered", outcome'[i] = "answered"
    PROVE  \E s \in Sockets : \E chunk \in Chunks(s) :
              OnMessage(s, chunk) /\ i \in Matched(chunk, {"reply"})
<1> SUFFICES ASSUME ~ \E s \in Sockets : \E chunk \in Chunks(s) : OnMessage(s, chunk)
             PROVE  FALSE
  BY DEF OnMessage, Settle
<1>1. ASSUME NEW r \in Reqs, Request(r)
      PROVE  FALSE
  BY <1>1 DEF Request, RequestDuplicate, RequestQueued, RequestSent, RequestSendFails,
              Settle
<1>2. CASE outcome' = outcome
  BY <1>2
<1>3. ASSUME NEW s \in Sockets, OpenEvent(s)
      PROVE  FALSE
  BY <1>2, <1>3 DEF OpenEvent, OnConnect, queues, Settle
<1>4. ASSUME NEW clean \in BOOLEAN, OnCloseEvent(clean)
      PROVE  FALSE
  BY <1>4, CloseRejects DEF Safety, Rejections
<1>5. CASE ConnectCall \/ DisconnectCall \/ ResetCall \/ ReconnectTimer
  BY <1>2, <1>5 DEF ConnectCall, DisconnectCall, ResetCall, ReconnectTimer, queues
<1>6. ASSUME NEW s \in Sockets, ConnectFails(s) \/ CloseBegins(s) \/ CloseEvent(s)
      PROVE  FALSE
  BY <1>2, <1>4, <1>6 DEF ConnectFails, CloseBegins, CloseEvent, queues
<1>7. CASE UNCHANGED vars
  BY <1>2, <1>7 DEF vars, queues
<1>8. QED
  BY <1>1, <1>3, <1>5, <1>6, <1>7 DEF Next

(* Of the requests that wait for an answer, at most one has the id of an   *)
(* answer that comes in.                                                   *)
OneCandidate ==
    \A s \in attached : ready[s] = "open" =>
        \A i \in sent, j \in wire[s] : Key(i) = Key(j) => i = j

LEMMA AnswersMatch ==
    ASSUME Safety, OneCandidate, [Next]_vars, NEW i \in Items,
           outcome[i] # "answered", outcome'[i] = "answered"
    PROVE  \E s \in Sockets : i \in wire[s] /\ i \notin wire'[s]
<1>1. PICK s \in Sockets : \E chunk \in Chunks(s) :
        OnMessage(s, chunk) /\ i \in Matched(chunk, {"reply"})
  BY StepAnswers
<1>2. PICK chunk \in Chunks(s) : OnMessage(s, chunk) /\ i \in Matched(chunk, {"reply"})
  BY <1>1
<1>3. PICK k \in DOMAIN chunk : chunk[k].kind = "reply" /\ Key(chunk[k].item) = Key(i)
  BY <1>2 DEF Matched, Handled
<1>4. chunk[k].item \in wire[s] /\ chunk[k].item \in ItemsOf(chunk)
  BY <1>3, ResponsesAreAsked DEF Safety
<1>5. chunk[k].item = i
  BY <1>2, <1>3, <1>4 DEF OnMessage, Matched, OneCandidate
<1>6. wire'[s] = wire[s] \ ItemsOf(chunk)
  BY <1>2 DEF OnMessage, Safety, TypeOK
<1>7. QED
  BY <1>4, <1>5, <1>6

(* A reply settles the request it is the reply to, if every call has an id *)
(* of its own or the ids that are used again have come free.               *)
THEOREM OwnReplies ==
    ASSUME OwnIdEach \/ IdsComeFree
    PROVE  Spec => AnsweredByOwnReply
<1>1. ASSUME OwnIdEach
      PROVE  Spec => []OneCandidate
  <2>1. Safety => OneCandidate
    <3> SUFFICES ASSUME Safety, NEW s \in attached, NEW i \in sent, NEW j \in wire[s],
                        Key(i) = Key(j)
                 PROVE  i = j
      BY DEF OneCandidate
    <3>1. i \in Items /\ j \in Items
      BY DEF Safety, TypeOK
    <3>2. CASE i \in Reqs /\ j \in Reqs
      BY <1>1, <3>2 DEF OwnIdEach, Key
    <3>3. CASE i \in AllProbes \/ j \in AllProbes
      BY <3>1, <3>3, ProbeKeys
    <3>4. QED
      BY <3>1, <3>2, <3>3 DEF Items
  <2>2. QED
    BY <2>1, Safe, PTL
<1>2. ASSUME IdsComeFree
      PROVE  Spec => []OneCandidate
  <2>1. WireInv => OneCandidate
    BY DEF WireInv, WaitedFor, Apart, OneCandidate
  <2>2. Spec => []WireInv
    BY <1>2, Wired
  <2>3. QED
    BY <2>1, <2>2, PTL
<1>3. Safety /\ OneCandidate /\ [Next]_vars
        => [\A i \in Items : outcome[i] # "answered" /\ outcome'[i] = "answered"
               => \E s \in Sockets : i \in wire[s] /\ i \notin wire'[s]]_vars
  BY AnswersMatch
<1>4. Spec => []OneCandidate
  BY <1>1, <1>2
<1>5. QED
  BY <1>3, <1>4, Safe, PTL DEF Spec, AnsweredByOwnReply

-----------------------------------------------------------------------------
(***************************************************************************)
(* What disconnect() leaves behind when nothing else was under way: no     *)
(* timer, and no socket of which the provider still hears that it opens.   *)
(***************************************************************************)
NothingUnderWay ==
    released => /\ ~isReconnecting
                /\ ready[sock] \notin Live
                /\ \A s \in attached : ready[s] \notin Live

(* Sockets that are not live stay so, and their listeners may only go.     *)
LEMMA StillNothing ==
    ASSUME TypeOK, NothingUnderWay, released' => released,
           UNCHANGED <<sock, isReconnecting>>, attached' \subseteq attached \union {sock},
           \A s \in Sockets : ready'[s] \in Live => ready[s] \in Live
    PROVE  NothingUnderWay'
BY DEF NothingUnderWay, TypeOK

LEMMA NextReleased ==
    ASSUME Safety, NothingUnderWay, [Next]_vars
    PROVE  /\ NothingUnderWay'
           /\ released /\ released' => sock' = sock
<1>1. TypeOK /\ TypeOK'
  BY NextTyped DEF Safety
<1>2. CASE ~released'
  BY <1>2 DEF NothingUnderWay
<1>3. CASE (\E r \in Reqs : Request(r)) \/ ConnectCall
  BY <1>2, <1>3 DEF Request, ConnectCall
<1>4. CASE DisconnectCall
  <2>1. /\ \A t \in Sockets \ {sock} : ready'[t] = ready[t]
        /\ ready'[sock] \notin Live
        /\ UNCHANGED <<sock, isReconnecting>>
        /\ attached' = attached \ {sock}
        /\ released' => /\ ~isReconnecting
                        /\ \A s \in attached \ {sock} : ready[s] \notin Live
    BY <1>1, <1>4 DEF DisconnectCall, reconnection, TypeOK, Live
  <2>2. QED
    BY <1>1, <2>1 DEF NothingUnderWay, TypeOK
<1>5. CASE ResetCall
  BY <1>1, <1>5, StillNothing DEF ResetCall, history
<1>6. CASE ReconnectTimer
  <2>1. isReconnecting /\ released' = released
    BY <1>6 DEF ReconnectTimer, history, Safety, OneReconnectTimer
  <2>2. QED
    BY <1>2, <2>1 DEF NothingUnderWay
<1>7. ASSUME NEW s \in Sockets, OpenEvent(s), released'
      PROVE  NothingUnderWay' /\ sock' = sock
  <2>1. released /\ s \notin attached
    BY <1>7 DEF OpenEvent, history, NothingUnderWay, Live
  <2>2. /\ UNCHANGED <<sock, attached, isReconnecting>>
        /\ ready' = [ready EXCEPT ![s] = "open"]
    BY <1>7, <2>1 DEF OpenEvent
  <2>3. \A t \in Sockets : ready'[t] \in Live => ready[t] \in Live
    BY <1>1, <1>7, <2>2 DEF OpenEvent, TypeOK, Live
  <2>4. QED
    BY <1>1, <1>7, <2>1, <2>2, <2>3, StillNothing
<1>8. ASSUME NEW s \in Sockets, ConnectFails(s)
      PROVE  ~released'
  BY <1>8 DEF ConnectFails
<1>9. ASSUME NEW s \in Sockets, CloseBegins(s)
      PROVE  NothingUnderWay' /\ sock' = sock
  <2>1. /\ UNCHANGED <<sock, attached, isReconnecting, released>>
        /\ ready' = [ready EXCEPT ![s] = "closing"]
    BY <1>9 DEF CloseBegins, reconnection, history
  <2>2. \A t \in Sockets : ready'[t] \in Live => ready[t] \in Live
    BY <1>1, <2>1 DEF TypeOK, Live
  <2>3. QED
    BY <1>1, <2>1, <2>2, StillNothing
<1>10. ASSUME NEW s \in Sockets, CloseEvent(s), released'
       PROVE  NothingUnderWay' /\ sock' = sock
  <2>1. PICK clean \in BOOLEAN : OnCloseEvent(clean) /\ released' = (released /\ clean)
    BY <1>10 DEF CloseEvent
  <2>2. clean /\ released
    BY <1>10, <2>1
  <2>3. /\ UNCHANGED <<sock, isReconnecting>>
        /\ attached' \subseteq attached
        /\ ready' = [ready EXCEPT ![s] = "closed"]
    BY <1>10, <2>1, <2>2 DEF CloseEvent, OnCloseEvent, ClearQueues, reconnection
  <2>4. \A t \in Sockets : ready'[t] \in Live => ready[t] \in Live
    BY <1>1, <2>3 DEF TypeOK, Live
  <2>5. QED
    BY <1>1, <2>2, <2>3, <2>4, StillNothing
<1>11. ASSUME NEW s \in Sockets, NEW chunk \in Chunks(s), OnMessage(s, chunk)
       PROVE  NothingUnderWay' /\ sock' = sock
  BY <1>1, <1>11, StillNothing DEF OnMessage, reconnection, history
<1>12. CASE UNCHANGED vars
  BY <1>1, <1>12, StillNothing DEF vars, reconnection, history
<1>13. CASE ResetCall \/ DisconnectCall
  BY <1>4, <1>5, <1>13 DEF ResetCall, DisconnectCall
<1>14. QED
  BY <1>2, <1>3, <1>6, <1>7, <1>8, <1>9, <1>10, <1>11, <1>12, <1>13 DEF Next

(* After disconnect() the provider opens no socket on its own, whatever    *)
(* closes and events are still to come, unless a reconnection or a second  *)
(* connection was under way or a connection is closed uncleanly: these are *)
(* the only ways back.                                                     *)
THEOREM StaysReleased == Spec => StaysDisconnected
<1>1. Init => NothingUnderWay
  BY DEF Init, NothingUnderWay
<1>2. Safety /\ NothingUnderWay /\ [Next]_vars => NothingUnderWay'
  BY NextReleased
<1>3. Safety /\ NothingUnderWay /\ [Next]_vars
        => [released /\ released' => sock' = sock]_vars
  BY NextReleased
<1>4. QED
  BY <1>1, <1>2, <1>3, Safe, PTL DEF Spec, StaysDisconnected

=============================================================================
