------------------------- MODULE SubscriptionsProofs -------------------------
(***************************************************************************)
(* Proofs about Subscriptions, for any number of objects and providers.    *)
(***************************************************************************)
EXTENDS Subscriptions, TLAPS

(***************************************************************************)
(* The inductive invariant.  No id is used twice: one that an object or    *)
(* the map has, or that was taken, has been given out, and one that was    *)
(* taken is not had again.  An object that is being subscribed has no      *)
(* entry but under ids that were taken.  A call the application waits for  *)
(* is the only one of its own about the object, so that its answer finds   *)
(* the id it asked for or none.                                            *)
(***************************************************************************)
Given(id) == id[2] <= issued[id[1]]

Numbered ==
    /\ \A s \in Subs : \A id \in Ids : subId[s] = id => Given(id)
    /\ \A id \in taken : Given(id)
    /\ \A id \in Ids : registered[id] # NoSub => Given(id)

Single ==
    /\ \A s, t \in Subs : subId[s] = subId[t] /\ subId[s] # NoId => s = t
    /\ \A s \in Subs : subId[s] \notin taken
    /\ \A s \in Subs : HasEntry(s) => registered[subId[s]] = s

OnlyStale(s) == \A id \in Ids : registered[id] = s => id \in taken

AskingAlone ==
    /\ \A c \in asking : c.sub \notin adding /\ OnlyStale(c.sub)
    /\ \A c, d \in asking : c.sub = d.sub => c = d

AddingAlone == \A s \in adding : OnlyStale(s)

AwaitedAlone ==
    \A f \in removing : f.by \in Awaited =>
        /\ f.sub \notin adding
        /\ \A c \in asking : c.sub # f.sub
        /\ subId[f.sub] \in {f.id, NoId}

Inv ==
    /\ TypeOK
    /\ Numbered /\ Single
    /\ AskingAlone /\ AddingAlone /\ AwaitedAlone
    /\ EntriesCanBeRemoved

LEMMA IdPairs ==
    ASSUME NEW id \in Ids
    PROVE  /\ id[1] \in Providers \ Deaf
           /\ id[2] \in 1 .. MaxIds[id[1]]
           /\ id = <<id[1], id[2]>>
BY DEF Ids

LEMMA MakesId ==
    ASSUME NEW p \in Providers \ Deaf, NEW n \in 1 .. MaxIds[p]
    PROVE  <<p, n>> \in Ids
BY DEF Ids

LEMMA NoIdIsNone == NoId \notin Ids
<1>1. NoId[2] = 0
  BY DEF NoId
<1>2. \A id \in Ids : id[2] >= 1
  BY IdPairs, SubscriptionsAssumption DEF SubscriptionsAssumption
<1>3. QED
  BY <1>1, <1>2


(* The object of an entry whose id it still has is not being subscribed.   *)
LEMMA EntryQuiet ==
    ASSUME Inv, NEW s \in Subs, HasEntry(s)
    PROVE  /\ subId[s] \in Ids
           /\ registered[subId[s]] = s
           /\ s \notin adding
           /\ \A c \in asking : c.sub # s
<1>1. subId[s] \in Ids /\ registered[subId[s]] = s
  BY DEF Inv, TypeOK, HasEntry, Single
<1>2. ~OnlyStale(s)
  BY <1>1 DEF OnlyStale, Inv, Single
<1>3. QED
  BY <1>1, <1>2 DEF Inv, AskingAlone, AddingAlone

(* What unsubscribe() of the manager removes are entries of objects under  *)
(* the id they have.                                                       *)
LEMMA RemoveAllFacts ==
    ASSUME Inv, NEW by \in Awaited \union Loose, NEW f \in RemoveAll(by)
    PROVE  f \in Removing /\ subId[f.sub] = f.id /\ HasEntry(f.sub)
<1>1. PICK e \in Ids :
        /\ Registered(e) /\ HasEntry(registered[e])
        /\ f = [sub |-> registered[e], entry |-> e,
                id |-> subId[registered[e]], at |-> provider, by |-> by]
  BY DEF RemoveAll
<1>2. registered[e] \in Subs
  BY <1>1 DEF Inv, TypeOK, Registered
<1>3. subId[registered[e]] \in Ids
  BY <1>1, <1>2, EntryQuiet
<1>4. provider \in Providers
  BY DEF Inv, TypeOK
<1>5. f \in Removing
  BY <1>1, <1>2, <1>3, <1>4 DEF Removing
<1>6. QED
  BY <1>1, <1>5

LEMMA InitInv == Init => Inv
<1> SUFFICES ASSUME Init
             PROVE  Inv
  OBVIOUS
<1> USE SubscriptionsAssumption DEF SubscriptionsAssumption
<1>1. TypeOK
  BY DEF Init, TypeOK
<1>2. Numbered
  BY NoIdIsNone DEF Init, Numbered
<1>3. Single
  BY DEF Init, Single, HasEntry
<1>4. QED
  BY <1>1, <1>2, <1>3 DEF Init, Inv, AskingAlone, AddingAlone, AwaitedAlone,
                          EntriesCanBeRemoved, Registered

(* A step that leaves the map, the ids and the subscribing calls alone and *)
(* makes removals of entries of objects under the id they have.            *)
LEMMA RemovalsInv ==
    ASSUME Inv, NEW new,
           \A f \in new : /\ f \in Removing
                          /\ subId[f.sub] = f.id /\ HasEntry(f.sub),
           removing' = removing \union new,
           UNCHANGED <<provider, registered, subId, asking, adding, active,
                       issued, changes, failed, taken>>
    PROVE  Inv'
<1>1. TypeOK'
  BY DEF Inv, TypeOK
<1>2. Numbered'
  BY DEF Inv, Numbered, Given
<1>3. Single'
  BY DEF Inv, Single, HasEntry, Registered
<1>4. AskingAlone' /\ AddingAlone'
  BY DEF Inv, AskingAlone, AddingAlone, OnlyStale
<1>5. \A f \in new : f.sub \notin adding /\ \A c \in asking : c.sub # f.sub
  BY EntryQuiet DEF Removing
<1>6. AwaitedAlone'
  BY <1>5 DEF Inv, AwaitedAlone
<1>7. EntriesCanBeRemoved'
  BY DEF Inv, EntriesCanBeRemoved, Registered
<1>8. QED
  BY <1>1, <1>2, <1>3, <1>4, <1>6, <1>7 DEF Inv

LEMMA SubscribeInv == ASSUME Inv, NEW s \in Subs, Subscribe(s) PROVE Inv'
<1> USE DEF Inv, Subscribe, manager, node
<1>1. OnlyStale(s)
  <2> SUFFICES ASSUME NEW id \in Ids, registered[id] = s, id \notin taken
               PROVE  FALSE
    BY DEF OnlyStale
  <2>1. registered[id] # NoSub
    BY SubscriptionsAssumption DEF SubscriptionsAssumption
  <2>2. subId[s] = id
    BY <2>1 DEF EntriesCanBeRemoved, Registered
  <2>3. HasEntry(s)
    BY <2>1, <2>2, NoIdIsNone DEF HasEntry, Registered
  <2>4. QED
    BY <2>3
<1>2. s \notin adding /\ \A c \in asking : c.sub # s
  BY DEF Quiet
<1>3. [sub |-> s, at |-> provider] \in Asking
  BY DEF Asking, TypeOK
<1>4. TypeOK'
  BY <1>3 DEF TypeOK
<1>5. Numbered' /\ Single'
  BY DEF Numbered, Given, Single, HasEntry, Registered
<1>6. AskingAlone'
  BY <1>1, <1>2 DEF AskingAlone, OnlyStale
<1>7. AddingAlone' /\ EntriesCanBeRemoved'
  BY DEF AddingAlone, OnlyStale, EntriesCanBeRemoved, Registered
<1>8. AwaitedAlone'
  BY DEF AwaitedAlone, Quiet
<1>9. QED
  BY <1>4, <1>5, <1>6, <1>7, <1>8

LEMMA AnsweredInv ==
    ASSUME Inv, NEW c \in asking, SubscribeAnswered(c)
    PROVE  Inv'
<1> USE DEF Inv, SubscribeAnswered
<1>1. c.sub \in Subs /\ c.at \in Providers \ Deaf
  BY DEF TypeOK, Asking
<1>2. issued[c.at] \in Nat /\ MaxIds[c.at] \in Nat
  BY <1>1, SubscriptionsAssumption DEF SubscriptionsAssumption, TypeOK
<1>3. issued[c.at] + 1 \in 1 .. MaxIds[c.at]
  BY <1>2
<1>4. PICK id \in Ids : id = <<c.at, issued[c.at] + 1>>
  BY <1>1, <1>3, MakesId
<1>5. id[1] = c.at /\ id[2] = issued[c.at] + 1 /\ ~Given(id)
  BY <1>2, <1>4 DEF Given
<1>6. /\ subId' = [subId EXCEPT ![c.sub] = id]
      /\ active' = active \union {id}
      /\ issued' = [issued EXCEPT ![c.at] = @ + 1]
  BY <1>4
<1>7. \A i \in Ids : Given(i) => Given(i)'
  BY <1>1, <1>2, <1>6, IdPairs DEF Given, TypeOK
<1>8. Given(id)'
  BY <1>1, <1>2, <1>5, <1>6 DEF Given, TypeOK
<1>9. issued' \in [Providers -> Nat]
  BY <1>1, <1>2, <1>6 DEF TypeOK
<1>10. /\ subId'[c.sub] = id
       /\ \A s \in Subs \ {c.sub} : subId'[s] = subId[s]
  BY <1>1, <1>6 DEF TypeOK
<1>11. TypeOK'
  BY <1>1, <1>4, <1>6, <1>9 DEF TypeOK
<1>12. Numbered'
  <2>1. \A s \in Subs : \A i \in Ids : subId'[s] = i => Given(i)'
    BY <1>7, <1>8, <1>10 DEF Numbered
  <2>2. \A i \in taken : Given(i)'
    BY <1>7 DEF Numbered, TypeOK
  <2>3. QED
    BY <1>7, <2>1, <2>2 DEF Numbered
<1>13. /\ \A s \in Subs : subId[s] # id
       /\ id \notin taken
       /\ registered[id] = NoSub
  BY <1>4, <1>5 DEF Numbered
<1>14. Single'
  <2>1. \A s, t \in Subs : subId'[s] = subId'[t] /\ subId'[s] # NoId => s = t
    BY <1>10, <1>13 DEF Single
  <2>2. \A s \in Subs : subId'[s] \notin taken
    BY <1>10, <1>13 DEF Single
  <2>3. \A s \in Subs : HasEntry(s)' => registered[subId'[s]] = s
    BY <1>10, <1>13 DEF Single, HasEntry, Registered
  <2>4. QED
    BY <2>1, <2>2, <2>3 DEF Single
<1>15. AskingAlone' /\ AddingAlone'
  BY DEF AskingAlone, AddingAlone, OnlyStale
<1>16. AwaitedAlone'
  BY <1>1, <1>10 DEF AwaitedAlone, TypeOK, Removing
<1>17. EntriesCanBeRemoved'
  BY <1>1, <1>10 DEF EntriesCanBeRemoved, AskingAlone, OnlyStale, Registered,
                     TypeOK
<1>18. QED
  BY <1>11, <1>12, <1>14, <1>15, <1>16, <1>17

LEMMA DoneInv == ASSUME Inv, NEW s \in adding, SubscribeDone(s) PROVE Inv'
<1> USE DEF Inv, SubscribeDone, node
<1>1. s \in Subs
  BY DEF TypeOK
<1>2. CASE subId[s] = NoId
  BY <1>1, <1>2 DEF TypeOK, Numbered, Given, Single, HasEntry, AskingAlone,
     AddingAlone, OnlyStale, AwaitedAlone, EntriesCanBeRemoved, Registered
<1>3. CASE subId[s] # NoId
  <2>1. subId[s] \in Ids
    BY <1>1, <1>3 DEF TypeOK
  <2>2. /\ registered'[subId[s]] = s
        /\ \A id \in Ids \ {subId[s]} : registered'[id] = registered[id]
        /\ registered' \in [Ids -> Subs \union {NoSub}]
    BY <1>1, <1>3, <2>1 DEF TypeOK
  <2>3. TypeOK'
    BY <2>2 DEF TypeOK
  <2>4. Numbered'
    BY <1>1, <2>1, <2>2 DEF Numbered, Given
  <2>5. Single'
    BY <1>1, <2>1, <2>2, SubscriptionsAssumption DEF SubscriptionsAssumption,
       Single, HasEntry, Registered, TypeOK
  <2>6. AskingAlone'
    BY <1>1, <2>1, <2>2 DEF AskingAlone, OnlyStale
  <2>7. AddingAlone'
    BY <1>1, <2>1, <2>2 DEF AddingAlone, OnlyStale
  <2>8. AwaitedAlone'
    BY DEF AwaitedAlone
  <2>9. EntriesCanBeRemoved'
    BY <1>1, <2>1, <2>2 DEF EntriesCanBeRemoved, Registered
  <2>10. QED
    BY <2>3, <2>4, <2>5, <2>6, <2>7, <2>8, <2>9
<1>4. QED
  BY <1>2, <1>3

LEMMA RemoveAnsweredInv ==
    ASSUME Inv, NEW f \in removing, UnsubscribeAnswered(f)
    PROVE  Inv'
<1> DEFINE lost == {subId[f.sub]} \ {f.id, NoId}
<1> USE DEF Inv, UnsubscribeAnswered
<1>1. f.sub \in Subs /\ f.id \in Ids /\ f.by \in Awaited \union Loose
  BY DEF TypeOK, Removing
<1>2. /\ subId'[f.sub] = NoId
      /\ \A s \in Subs \ {f.sub} : subId'[s] = subId[s]
      /\ subId' \in [Subs -> Ids \union {NoId}]
  BY <1>1 DEF TypeOK
<1>3. /\ registered'[f.id] = NoSub
      /\ \A id \in Ids \ {f.id} : registered'[id] = registered[id]
      /\ registered' \in [Ids -> Subs \union {NoSub}]
  BY <1>1 DEF TypeOK
<1>4. taken' = taken \union lost
  <2>1. CASE f.by \in Loose
    BY <2>1
  <2>2. CASE f.by \in Awaited
    BY <2>2 DEF AwaitedAlone, Awaited, Loose
  <2>3. QED
    BY <1>1, <2>1, <2>2
<1>5. lost \subseteq Ids /\ \A id \in lost : id = subId[f.sub]
  BY <1>1 DEF TypeOK
<1>6. active' \subseteq Ids
  BY DEF TypeOK
<1> HIDE DEF lost
<1>7. TypeOK'
  BY <1>2, <1>3, <1>4, <1>5, <1>6 DEF TypeOK
<1>8. Numbered'
  BY <1>1, <1>2, <1>3, <1>4, <1>5, NoIdIsNone DEF Numbered, Given
<1>9. Single'
  <2>1. \A s, t \in Subs : subId'[s] = subId'[t] /\ subId'[s] # NoId => s = t
    BY <1>1, <1>2 DEF Single
  <2>2. \A s \in Subs : subId'[s] \notin taken'
    <3>1. NoId \notin taken'
      BY <1>7, NoIdIsNone DEF TypeOK
    <3>2. ASSUME NEW s \in Subs \ {f.sub}, subId[s] \in lost
          PROVE  FALSE
      BY <1>1, <1>5, <3>2, NoIdIsNone DEF Single
    <3>3. QED
      BY <1>1, <1>2, <1>4, <3>1, <3>2 DEF Single
  <2>3. ASSUME NEW s \in Subs, HasEntry(s)'
        PROVE  registered'[subId'[s]] = s
    <3>1. s # f.sub /\ subId'[s] = subId[s] /\ subId[s] \in Ids
      BY <1>2, <2>3 DEF HasEntry, TypeOK
    <3>2. registered'[subId[s]] # NoSub
      BY <2>3, <3>1 DEF HasEntry, Registered
    <3>3. registered'[subId[s]] = registered[subId[s]]
      BY <1>3, <3>1, <3>2
    <3>4. HasEntry(s)
      BY <3>1, <3>2, <3>3, NoIdIsNone DEF HasEntry, Registered
    <3>5. QED
      BY <3>1, <3>3, <3>4 DEF Single
  <2>4. QED
    BY <2>1, <2>2, <2>3 DEF Single
<1>10. \A s \in Subs : OnlyStale(s) => OnlyStale(s)'
  BY <1>3, <1>4, SubscriptionsAssumption DEF SubscriptionsAssumption, OnlyStale
<1>11. AskingAlone' /\ AddingAlone'
  BY <1>10 DEF AskingAlone, AddingAlone, TypeOK, Asking
<1>12. AwaitedAlone'
  BY <1>2 DEF AwaitedAlone, TypeOK, Removing
<1>13. EntriesCanBeRemoved'
  <2> SUFFICES ASSUME NEW id \in Ids, registered'[id] # NoSub, id \notin taken'
               PROVE  subId'[registered'[id]] = id
    BY DEF EntriesCanBeRemoved, Registered
  <2>1. id # f.id /\ registered'[id] = registered[id] /\ id \notin taken
    BY <1>3, <1>4
  <2>2. subId[registered[id]] = id /\ registered[id] \in Subs
    BY <2>1 DEF EntriesCanBeRemoved, Registered, TypeOK
  <2>3. registered[id] # f.sub
    BY <1>4, <2>1, <2>2, NoIdIsNone DEF lost
  <2>4. QED
    BY <1>2, <2>1, <2>2, <2>3
<1>14. QED
  BY <1>7, <1>8, <1>9, <1>11, <1>12, <1>13

LEMMA RemoveFailsInv ==
    ASSUME Inv, NEW f \in removing, UnsubscribeFails(f)
    PROVE  Inv'
<1> USE DEF Inv, UnsubscribeFails, manager, node
<1>1. \A g \in Removing :
        /\ LeftAlone(g) \in Removing
        /\ LeftAlone(g).by \in Awaited => LeftAlone(g) = g
  BY DEF LeftAlone, Removing, Awaited, Loose
<1>2. \A h \in removing' : h \in Removing /\ (h.by \in Awaited => h \in removing)
  BY <1>1 DEF TypeOK
<1>3. failed' \subseteq Ids
  BY DEF TypeOK, Removing
<1>4. TypeOK'
  BY <1>2, <1>3 DEF TypeOK
<1>5. AwaitedAlone'
  BY <1>2 DEF AwaitedAlone
<1>6. Numbered' /\ Single' /\ AskingAlone' /\ AddingAlone'
  BY DEF Numbered, Given, Single, HasEntry, Registered, AskingAlone,
         AddingAlone, OnlyStale
<1>7. QED
  BY <1>4, <1>5, <1>6 DEF EntriesCanBeRemoved, Registered

LEMMA SetProviderInv ==
    ASSUME Inv, NEW p \in Providers, SetProvider(p)
    PROVE  Inv'
<1> USE DEF Inv, SetProvider, node
<1>1. \A f \in RemoveAll("providerChange") : f \in Removing
  BY RemoveAllFacts DEF Loose
<1>2. \A f \in removing' : f \in Removing /\ (f.by \in Awaited => f \in removing)
  <2>1. \A f \in RemoveAll("providerChange") : f.by \notin Awaited
    BY DEF RemoveAll, Awaited
  <2>2. QED
    BY <1>1, <2>1 DEF TypeOK
<1>3. changes' \in 0 .. MaxChanges
  BY SubscriptionsAssumption DEF SubscriptionsAssumption, TypeOK
<1>4. \A id \in Ids : registered'[id] = NoSub
  OBVIOUS
<1>5. TypeOK'
  BY <1>2, <1>3 DEF TypeOK
<1>6. Numbered'
  BY <1>4 DEF Numbered, Given
<1>7. Single'
  BY <1>4 DEF Single, HasEntry, Registered, TypeOK
<1>8. AskingAlone' /\ AddingAlone'
  BY <1>4, SubscriptionsAssumption DEF SubscriptionsAssumption, AskingAlone,
     AddingAlone, OnlyStale, TypeOK, Asking
<1>9. AwaitedAlone'
  BY <1>2 DEF AwaitedAlone
<1>10. EntriesCanBeRemoved'
  BY <1>4 DEF EntriesCanBeRemoved, Registered
<1>11. QED
  BY <1>5, <1>6, <1>7, <1>8, <1>9, <1>10

LEMMA NextInv == Inv /\ [Next]_vars => Inv'
<1> SUFFICES ASSUME Inv, [Next]_vars
             PROVE  Inv'
  OBVIOUS
<1>1. ASSUME NEW s \in Subs, Subscribe(s)
      PROVE  Inv'
  BY <1>1, SubscribeInv
<1>2. ASSUME NEW s \in Subs, SubscribeDone(s)
      PROVE  Inv'
  BY <1>2, DoneInv DEF SubscribeDone
<1>3. ASSUME NEW s \in Subs, Unsubscribe(s)
      PROVE  Inv'
  <2> DEFINE f == [sub |-> s, entry |-> subId[s], id |-> subId[s],
                   at |-> provider, by |-> "unsubscribe"]
  <2>1. HasEntry(s) /\ subId[s] \in Ids
    BY <1>3, EntryQuiet DEF Unsubscribe
  <2>2. f \in Removing
    BY <2>1 DEF Removing, Awaited, Inv, TypeOK
  <2>3. f.sub = s /\ f.id = subId[s]
    OBVIOUS
  <2> DEFINE new == {f}
  <2>4. removing' = removing \union new
    BY <1>3 DEF Unsubscribe
  <2>5. UNCHANGED <<provider, registered, subId, asking, adding, active, issued,
                    changes, failed, taken>>
    BY <1>3 DEF Unsubscribe, manager, node
  <2>6. \A g \in new : g \in Removing /\ subId[g.sub] = g.id /\ HasEntry(g.sub)
    BY <2>1, <2>2, <2>3
  <2> HIDE DEF new
  <2>7. QED
    BY <2>4, <2>5, <2>6, RemovalsInv
<1>4. ASSUME NEW c \in asking, SubscribeAnswered(c)
      PROVE  Inv'
  BY <1>4, AnsweredInv
<1>5. ASSUME NEW c \in asking, SubscribeRefused(c)
      PROVE  Inv'
  BY <1>5 DEF SubscribeRefused, Inv, TypeOK, Numbered, Given, Single, HasEntry,
     AskingAlone, AddingAlone, OnlyStale, AwaitedAlone, EntriesCanBeRemoved,
     Registered, manager, node
<1>6. CASE UnsubscribeAll
  <2>1. PICK by \in Awaited \union Loose :
          /\ removing' = removing \union RemoveAll(by)
          /\ UNCHANGED <<provider, manager, asking, adding, node, changes,
                         failed, taken>>
    BY <1>6 DEF UnsubscribeAll, Awaited, Loose
  <2>2. \A f \in RemoveAll(by) :
          f \in Removing /\ subId[f.sub] = f.id /\ HasEntry(f.sub)
    BY RemoveAllFacts
  <2>3. QED
    BY <2>1, <2>2, RemovalsInv DEF manager, node
<1>7. ASSUME NEW f \in removing, UnsubscribeAnswered(f)
      PROVE  Inv'
  BY <1>7, RemoveAnsweredInv
<1>8. ASSUME NEW f \in removing, UnsubscribeFails(f)
      PROVE  Inv'
  BY <1>8, RemoveFailsInv
<1>9. ASSUME NEW p \in Providers, SetProvider(p)
      PROVE  Inv'
  BY <1>9, SetProviderInv
<1>10. CASE UNCHANGED vars
  BY <1>10 DEF vars, manager, calls, node, Inv, TypeOK, Numbered, Given, Single,
     HasEntry, AskingAlone, AddingAlone, OnlyStale, AwaitedAlone,
     EntriesCanBeRemoved, Registered
<1>11. QED
  BY <1>1, <1>2, <1>3, <1>4, <1>5, <1>6, <1>7, <1>8, <1>9, <1>10 DEF Next

(* The variables keep their types.                                         *)
THEOREM Typed == Spec => []TypeOK
<1>1. Inv => TypeOK
  BY DEF Inv
<1>2. QED
  BY <1>1, InitInv, NextInv, PTL DEF Spec

(* Whatever is subscribed, removed and answered while providers come, go   *)
(* and come back, an object in the map has the id of its entry, unless the *)
(* answer to a call nobody waits for took it.                              *)
THEOREM Removable == Spec => []EntriesCanBeRemoved
<1>1. Inv => EntriesCanBeRemoved
  BY DEF Inv
<1>2. QED
  BY <1>1, InitInv, NextInv, PTL DEF Spec
=============================================================================
