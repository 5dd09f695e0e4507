---------------------------- MODULE Subscriptions ----------------------------
(***************************************************************************)
(* Web3SubscriptionManager and Web3Subscription (web3-core) with the       *)
(* provider change of Web3RequestManager: subscriptions are made, removed  *)
(* and answered for while the provider under them is replaced.             *)
(*                                                                         *)
(* An action is one run of the JavaScript event loop; a call that awaits   *)
(* an answer is split at the await.  A node gives every subscription a     *)
(* fresh id, and different nodes give different ids.                       *)
(***************************************************************************)
EXTENDS Integers, FiniteSets

CONSTANTS
    Subs,           \* Web3Subscription objects
    Providers,      \* providers the application sets
    Deaf,           \* those without subscriptions: HTTP, or no provider
    First,          \* the provider the request manager starts with
    MaxIds,         \* bound: subscriptions the node of a provider accepts
    MaxChanges,     \* bound: calls of setProvider()
    MaxFailures     \* bound: subscriptions whose eth_unsubscribe fails

Ids       == UNION {{p} \X (1 .. MaxIds[p]) : p \in Providers \ Deaf}
Owner(id) == id[1]
NoId      == <<"no id", 0>>
NoSub     == "no subscription"

ASSUME SubscriptionsAssumption ==
    /\ NoSub \notin Subs
    /\ Deaf \subseteq Providers
    /\ First \in Providers
    /\ MaxIds \in [Providers -> Nat]
    /\ MaxChanges \in Nat
    /\ MaxFailures \in Nat

(* Who made an eth_unsubscribe call.  The application waits for those of   *)
(* its own; nobody waits for those a provider change makes, nor for those  *)
(* the manager's unsubscribe() leaves when its Promise.all has rejected.   *)
Awaited == {"unsubscribe", "unsubscribeAll"}
Loose   == {"providerChange", "left"}

VARIABLES
    provider,      \* requestManager._provider
    registered,    \* _subscriptions: the object registered for every id
    subId,         \* _id of every object
    asking,        \* eth_subscribe calls in flight, with the provider asked
    adding,        \* objects whose addSubscription() resumes after its await
    removing,      \* eth_unsubscribe calls in flight
    active,        \* ids the nodes serve
    issued,        \* ids every node has given out
    changes,       \* calls of setProvider()
    failed,        \* history: ids whose eth_unsubscribe failed
    taken          \* history: ids an object lost to the answer to an
                   \* eth_unsubscribe for another one, which nobody waited for

manager == <<registered, subId>>
calls   == <<asking, adding, removing>>
node    == <<active, issued>>
vars == <<provider, manager, calls, node, changes, failed, taken>>

Asking   == [sub : Subs, at : Providers \ Deaf]
Removing == [sub : Subs, entry : Ids, id : Ids, at : Providers,
             by : Awaited \union Loose]

TypeOK ==
    /\ provider \in Providers
    /\ registered \in [Ids -> Subs \union {NoSub}]
    /\ subId \in [Subs -> Ids \union {NoId}]
    /\ asking \subseteq Asking
    /\ adding \subseteq Subs
    /\ removing \subseteq Removing
    /\ active \subseteq Ids
    /\ issued \in [Providers -> Nat]
    /\ changes \in 0 .. MaxChanges
    /\ failed \subseteq Ids
    /\ taken \subseteq Ids

Registered(id) == registered[id] # NoSub
HasEntry(s)    == subId[s] # NoId /\ Registered(subId[s])

Init ==
    /\ provider = First
    /\ registered = [id \in Ids |-> NoSub]
    /\ subId = [s \in Subs |-> NoId]
    /\ asking = {} /\ adding = {} /\ removing = {}
    /\ active = {}
    /\ issued = [p \in Providers |-> 0]
    /\ changes = 0 /\ failed = {} /\ taken = {}

(* The application waits for no call about the object.                     *)
Quiet(s) ==
    /\ s \notin adding
    /\ \A c \in asking : c.sub # s
    /\ \A f \in removing : f.by \in Awaited => f.sub # s

(* The calls the manager's unsubscribe() makes: removeSubscription() for   *)
(* every entry of the map, with the id its object has now.  It throws for  *)
(* an object without an id, or whose id has no entry.                      *)
RemoveAll(by) ==
    {[sub |-> registered[e], entry |-> e, id |-> subId[registered[e]],
      at |-> provider, by |-> by] :
        e \in {i \in Ids : Registered(i) /\ HasEntry(registered[i])}}

EveryEntryRemovable == \A e \in Ids : Registered(e) => HasEntry(registered[e])

(* Promise.all has rejected: the calls it waited for go on.                *)
LeftAlone(f) == IF f.by = "unsubscribeAll" THEN [f EXCEPT !.by = "left"] ELSE f

-----------------------------------------------------------------------------
(* Faults, put in the place of the operations below by the checks.         *)
FaultSetProviderForgets(p) ==
    /\ changes < MaxChanges
    /\ changes' = changes + 1
    /\ provider' = p
    /\ registered' = [id \in Ids |-> NoSub]
    /\ UNCHANGED <<subId, calls, node, failed, taken>>

FaultRemoveKeepsEntry(f) ==
    /\ f \in removing
    /\ removing' = removing \ {f}
    /\ subId' = [subId EXCEPT ![f.sub] = NoId]
    /\ taken' = IF f.by \in Loose
                THEN taken \union ({subId[f.sub]} \ {f.id, NoId}) ELSE taken
    /\ active' = IF f.at = Owner(f.id) THEN active \ {f.id} ELSE active
    /\ UNCHANGED <<provider, registered, asking, adding, issued, changes,
                   failed>>

-----------------------------------------------------------------------------
(* addSubscription(), up to the await.  The application subscribes an      *)
(* object when it waits for no call about it; the calls a provider change  *)
(* made do not hold it back.                                               *)
Subscribe(s) ==
    /\ Quiet(s)
    /\ provider \notin Deaf
    /\ ~HasEntry(s)
    /\ asking' = asking \union {[sub |-> s, at |-> provider]}
    /\ UNCHANGED <<provider, manager, adding, removing, node, changes, failed,
                   taken>>

(* The node accepts: sendSubscriptionRequest() keeps the id, whatever      *)
(* provider is current by now.                                             *)
SubscribeAnswered(c) ==
    /\ c \in asking
    /\ issued[c.at] < MaxIds[c.at]
    /\ issued' = [issued EXCEPT ![c.at] = @ + 1]
    /\ active' = active \union {<<c.at, issued[c.at] + 1>>}
    /\ subId' = [subId EXCEPT ![c.sub] = <<c.at, issued[c.at] + 1>>]
    /\ asking' = asking \ {c}
    /\ adding' = adding \union {c.sub}
    /\ UNCHANGED <<provider, registered, removing, changes, failed, taken>>

SubscribeRefused(c) ==
    /\ c \in asking
    /\ asking' = asking \ {c}
    /\ UNCHANGED <<provider, manager, adding, removing, node, changes, failed,
                   taken>>

(* The rest of addSubscription(), after the `connected` event.  It throws  *)
(* when the answer to an eth_unsubscribe has taken the id meanwhile.       *)
SubscribeDone(s) ==
    /\ s \in adding
    /\ adding' = adding \ {s}
    /\ registered' = IF subId[s] = NoId THEN registered
                     ELSE [registered EXCEPT ![subId[s]] = s]
    /\ UNCHANGED <<provider, subId, asking, removing, node, changes, failed,
                   taken>>

(* Web3Subscription.unsubscribe(): removeSubscription() up to the await.   *)
Unsubscribe(s) ==
    /\ Quiet(s)
    /\ HasEntry(s)
    /\ removing' = removing \union
          {[sub |-> s, entry |-> subId[s], id |-> subId[s], at |-> provider,
            by |-> "unsubscribe"]}
    /\ UNCHANGED <<provider, manager, asking, adding, node, changes, failed,
                   taken>>

(* unsubscribe() of the manager, called by the application, which waits    *)
(* unless an entry makes it reject at once.  Bound: it is called again     *)
(* when the calls it made are over.                                        *)
UnsubscribeAll ==
    LET by == IF EveryEntryRemovable THEN "unsubscribeAll" ELSE "left"
    IN  /\ RemoveAll(by) # {}
        /\ \A f \in removing : f.by \notin {"unsubscribeAll", "left"}
        /\ removing' = removing \union RemoveAll(by)
        /\ UNCHANGED <<provider, manager, asking, adding, node, changes,
                       failed, taken>>

(* The rest of removeSubscription(): the object loses the id it has now    *)
(* and the map the entry of the id that was asked for.  A node asked for   *)
(* an id it does not serve answers `false`.                                *)
UnsubscribeAnswered(f) ==
    /\ f \in removing
    /\ removing' = removing \ {f}
    /\ subId' = [subId EXCEPT ![f.sub] = NoId]
    /\ taken' = IF f.by \in Loose
                THEN taken \union ({subId[f.sub]} \ {f.id, NoId}) ELSE taken
    /\ registered' = [registered EXCEPT ![f.id] = NoSub]
    /\ active' = IF f.at = Owner(f.id) THEN active \ {f.id} ELSE active
    /\ UNCHANGED <<provider, asking, adding, issued, changes, failed>>

(* The node answers with an error, or the call cannot be made: id and      *)
(* entry stay, and an unsubscribe() of the manager rejects.                *)
UnsubscribeFails(f) ==
    /\ f \in removing
    /\ Cardinality(failed \union {f.id}) <= MaxFailures
    /\ failed' = failed \union {f.id}
    /\ removing' = IF f.by = "unsubscribeAll"
                   THEN {LeftAlone(g) : g \in removing \ {f}}
                   ELSE removing \ {f}
    /\ UNCHANGED <<provider, manager, asking, adding, node, changes, taken>>

(* setProvider(), with any provider, the one it has included: the listener *)
(* of BEFORE_PROVIDER_CHANGE asks the provider that goes to end every      *)
(* subscription and does not wait; that of PROVIDER_CHANGED clears the map.*)
SetProvider(p) ==
    /\ changes < MaxChanges
    /\ changes' = changes + 1
    /\ removing' = removing \union RemoveAll("providerChange")
    /\ provider' = p
    /\ registered' = [id \in Ids |-> NoSub]
    /\ UNCHANGED <<subId, asking, adding, node, failed, taken>>

Next ==
    \/ \E s \in Subs : Subscribe(s) \/ SubscribeDone(s) \/ Unsubscribe(s)
    \/ \E c \in asking : SubscribeAnswered(c) \/ SubscribeRefused(c)
    \/ UnsubscribeAll
    \/ \E f \in removing : UnsubscribeAnswered(f) \/ UnsubscribeFails(f)
    \/ \E p \in Providers : SetProvider(p)

Spec == Init /\ [][Next]_vars

(* A node answers, and a continuation that is ready runs.                  *)
Fairness ==
    /\ \A s \in Subs :
        /\ WF_vars(\E c \in asking :
                      c.sub = s /\ (SubscribeAnswered(c) \/ SubscribeRefused(c)))
        /\ WF_vars(SubscribeDone(s))
    /\ \A id \in Ids :
        WF_vars(\E f \in removing :
                   f.id = id /\ (UnsubscribeAnswered(f) \/ UnsubscribeFails(f)))

FairSpec == Spec /\ Fairness

-----------------------------------------------------------------------------
(* An entry of the map can be removed again, its object has the id it      *)
(* stands under, unless that id was taken by the answer to a call nobody   *)
(* waits for: of a provider change, or left by an unsubscribe() that       *)
(* rejected.  An application that only waits for its own calls does meet   *)
(* that; nothing else, and no call it waits for, leaves such an entry.     *)
EntriesCanBeRemoved ==
    \A id \in Ids :
        Registered(id) => subId[registered[id]] = id \/ id \in taken

(* A subscription registered under the provider that serves it stays so or *)
(* is ended at the node: no provider change leaves the node sending,       *)
(* unless the node refused to stop or the object had lost the id.          *)
InPlace(id) == Registered(id) /\ Owner(id) = provider

EndedAtNode ==
    \A id \in Ids :
        \/ <>[]InPlace(id)
        \/ InPlace(id) ~> \/ id \notin active
                          \/ id \in failed \union taken
=============================================================================
