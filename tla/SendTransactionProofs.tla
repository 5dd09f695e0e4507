------------------------ MODULE SendTransactionProofs ------------------------
(***************************************************************************)
(* Proofs about SendTransaction and Confirmations, for every number of     *)
(* confirmations, every block timeout and every length of the chain.       *)
(***************************************************************************)
EXTENDS SendTransaction, FiniteSets, FiniteSetTheorems, TLAPS

(***************************************************************************)
(* What the confirmations rest on.  Nothing watches a transaction that is  *)
(* not mined.  A polling loop counts on as long as it has questions open   *)
(* whose block is there, or will be when the chain has grown by some more: *)
(* what it has counted and the questions it has open about the blocks up   *)
(* to one not yet there are together no more than MaxAsks ahead of that.   *)
(***************************************************************************)
ChainTyped ==
    /\ head \in Nat \ {0} /\ minedAt \in Nat /\ seen \in Nat
    /\ confirmed \subseteq Int
    /\ counted \in [Pollers -> Nat \ {0}]
    /\ asks \in [Pollers \X Asks -> Nat]

NotMinedYet ==
    /\ confirmed = {} /\ looping = {} /\ headsSub = "none" /\ ~fallback
    /\ polled # "receipt"
    /\ \A p \in Pollers : counted[p] = 1
    /\ \A a \in Pollers \X Asks : asks[a] = 0

OpenUpTo(p, n) == {i \in Asks : asks[<<p, i>>] \in 1 .. n}
Ahead(p, n)    == counted[p] + Cardinality(OpenUpTo(p, n)) <= n + MaxAsks

CountedExist ==
    \A p \in Pollers, n \in Nat : n >= head - minedAt => Ahead(p, n)

ChainInv ==
    /\ ChainTyped
    /\ minedAt <= head
    /\ minedAt = 0 => NotMinedYet
    /\ CountedExist
    /\ ConfirmationsExist

(* Outside Mine and Confirm, all that can happen to the confirmations is   *)
(* that the watch starts, with the receipt of a transaction that is mined. *)
OnlyStarts ==
    /\ UNCHANGED chain
    /\ UNCHANGED watcher \/ (minedAt # 0 /\ StartWatching)
    /\ polled' = "receipt" => minedAt # 0

LEMMA RejectKeeps ==
    ASSUME NEW reason, Reject(reason)
    PROVE  UNCHANGED watcher
  BY DEF Reject

LEMMA TakeReceiptStarts ==
    ASSUME TakeReceipt, minedAt # 0
    PROVE  UNCHANGED watcher \/ (minedAt # 0 /\ StartWatching)
  BY RejectKeeps DEF TakeReceipt

LEMMA CleanKeepsPolled ==
    ASSUME NEW r \in Races, Clean(r)
    PROVE  UNCHANGED polled
  BY DEF Clean, CleanSend, CleanWait, receipt

LEMMA EnterStarts ==
    ASSUME ChainInv, NEW r \in Races, NEW how, Enter(r, how)
    PROVE  /\ UNCHANGED watcher \/ (minedAt # 0 /\ StartWatching)
           /\ UNCHANGED polled
<1>1. CASE r = "send" /\ EnterSend
  BY <1>1, RejectKeeps DEF EnterSend, receipt
<1>2. CASE r = "wait" /\ EnterWait
  <2>1. polled = "receipt" => minedAt # 0
    BY DEF ChainInv, NotMinedYet
  <2>2. UNCHANGED polled
    BY <1>2 DEF EnterWait, CleanWait, receipt
  <2>3. QED
    BY <1>2, <2>1, <2>2, RejectKeeps, TakeReceiptStarts DEF EnterWait
<1>3. QED
  BY <1>1, <1>2 DEF Enter, Races

LEMMA LimitStarts ==
    ASSUME NEW r \in Races, BlockLimit(r)
    PROVE  UNCHANGED watcher /\ UNCHANGED polled
  BY RejectKeeps, CleanKeepsPolled DEF BlockLimit, receipt

LEMMA SomeAsks ==
    ASSUME NEW S \in SUBSET Asks
    PROVE  IsFiniteSet(S) /\ Cardinality(S) \in 0 .. MaxAsks
<1>1. MaxAsks \in Nat
  BY ConfirmationsAssumption DEF ConfirmationsAssumption
<1>2. IsFiniteSet(Asks) /\ Cardinality(Asks) = MaxAsks
  BY <1>1, FS_Interval DEF Asks
<1>3. IsFiniteSet(S) /\ Cardinality(S) <= MaxAsks
  BY <1>2, FS_Subset
<1>4. Cardinality(S) \in Nat
  BY <1>3, FS_CardinalityType
<1>5. QED
  BY <1>1, <1>3, <1>4

LEMMA OpenFinite ==
    \A p, n : /\ IsFiniteSet(OpenUpTo(p, n))
              /\ Cardinality(OpenUpTo(p, n)) \in 0 .. MaxAsks
<1>1. \A p, n : OpenUpTo(p, n) \in SUBSET Asks
  BY DEF OpenUpTo
<1>2. QED
  BY <1>1, SomeAsks

(* A loop that has asked nothing about the blocks up to n.                 *)
LEMMA NoneOpen ==
    ASSUME NEW p \in Pollers, NEW n, \A a \in Pollers \X Asks : asks[a] = 0
    PROVE  Cardinality(OpenUpTo(p, n)) = 0
<1>1. OpenUpTo(p, n) = {}
  BY DEF OpenUpTo
<1>2. QED
  BY <1>1, FS_EmptySet

LEMMA UnchangedAhead ==
    ASSUME UNCHANGED <<counted, asks>>
    PROVE  \A p, n : Ahead(p, n) => Ahead(p, n)'
<1>1. \A p, n : OpenUpTo(p, n)' = OpenUpTo(p, n)
  BY DEF OpenUpTo
<1>2. QED
  BY <1>1 DEF Ahead

LEMMA ChainInitially == Init => ChainInv
<1> SUFFICES ASSUME Init
             PROVE  ChainInv
  OBVIOUS
<1> USE ConfirmationsAssumption DEF ConfirmationsAssumption
<1>1. CountedExist
  BY NoneOpen DEF Init, ConfirmationsInit, CountedExist, Ahead
<1>2. QED
  BY <1>1 DEF Init, ConfirmationsInit, ChainInv, ChainTyped, NotMinedYet,
              ConfirmationsExist

LEMMA StartKeepsChainInv ==
    ASSUME ChainInv, OnlyStarts
    PROVE  ChainInv'
<1>1. CASE UNCHANGED watcher
  <2>1. CountedExist'
    BY <1>1, UnchangedAhead DEF OnlyStarts, ChainInv, CountedExist, chain, watcher,
                                polls
  <2>2. QED
    BY <1>1, <2>1 DEF OnlyStarts, ChainInv, ChainTyped, NotMinedYet,
                      ConfirmationsExist, chain, watcher, heads, polls
<1>2. CASE minedAt # 0 /\ StartWatching
  <2>1. minedAt' # 0 /\ UNCHANGED <<head, minedAt, seen, counted, asks>>
    BY <1>2 DEF OnlyStarts, chain, StartWatching
  <2>2. confirmed' = {1}
    BY <1>2 DEF StartWatching
  <2>3. ConfirmationsExist'
    BY <2>1, <2>2, ConfirmationsAssumption
       DEF ConfirmationsAssumption, ConfirmationsExist, ChainInv, ChainTyped
  <2>4. CountedExist'
    BY <2>1, UnchangedAhead DEF ChainInv, CountedExist
  <2>5. QED
    BY <2>1, <2>2, <2>3, <2>4 DEF ChainInv, ChainTyped
<1>3. QED
  BY <1>1, <1>2 DEF OnlyStarts

(* A step of sendTransaction() itself does no more to the confirmations    *)
(* than start them.                                                        *)
LEMMA StepsOnlyStart ==
    ASSUME ChainInv, Next, ~Mine, ~Confirm
    PROVE  OnlyStarts
<1>1. CASE Prepare \/ PrepareFails \/ Sign
  BY <1>1, RejectKeeps DEF Prepare, PrepareFails, Sign, OnlyStarts, ChainInv, NotMinedYet,
                           receipt
<1>2. CASE SendAnswered \/ SendFails \/ SendTimeout \/ PollTimeout
  BY <1>2, RejectKeeps DEF SendAnswered, SendFails, SendTimeout, PollTimeout, CleanSend,
                           OnlyStarts, ChainInv, NotMinedYet, receipt
<1>3. ASSUME NEW what \in {"receipt", "error"}, PollSettles(what)
      PROVE  OnlyStarts
  <2>1. /\ UNCHANGED chain /\ polled' = what
        /\ what = "receipt" => minedAt # 0
        /\ stage # "waiting" => UNCHANGED watcher
        /\ stage = "waiting" => IF what = "receipt" THEN TakeReceipt ELSE Reject("failed")
    BY <1>3 DEF PollSettles
  <2>2. CASE stage = "waiting" /\ what = "receipt"
    BY <2>1, <2>2, TakeReceiptStarts DEF OnlyStarts
  <2>3. CASE stage = "waiting" /\ what # "receipt"
    <3>1. UNCHANGED watcher
      BY <2>1, <2>3, RejectKeeps
    <3>2. QED
      BY <2>1, <3>1 DEF OnlyStarts
  <2>4. CASE stage # "waiting"
    BY <2>1, <2>4 DEF OnlyStarts
  <2>5. QED
    BY <2>2, <2>3, <2>4
<1>4. ASSUME NEW r \in Races, BlockNumber(r)
      PROVE  OnlyStarts
  BY <1>4, EnterStarts DEF BlockNumber, OnlyStarts, ChainInv, NotMinedYet, receipt
<1>5. ASSUME NEW r \in Races, BlockNumberFails(r)
      PROVE  OnlyStarts
  BY <1>5, RejectKeeps DEF BlockNumberFails, OnlyStarts, ChainInv, NotMinedYet, receipt
<1>6. ASSUME NEW r \in Races, Subscribed(r) \/ SubscribeFails(r)
      PROVE  OnlyStarts
  BY <1>6, EnterStarts DEF Subscribed, SubscribeFails, OnlyStarts, ChainInv, NotMinedYet
<1>7. ASSUME NEW r \in Races, WatchHead(r) \/ WatchPoll(r)
      PROVE  OnlyStarts
  BY <1>7, LimitStarts DEF WatchHead, WatchPoll, OnlyStarts, ChainInv, NotMinedYet, receipt
<1>8. ASSUME NEW r \in Races, WatchFails(r) \/ WatchTimeout(r)
      PROVE  OnlyStarts
  BY <1>8 DEF WatchFails, WatchTimeout, OnlyStarts, ChainInv, NotMinedYet, receipt
<1>9. QED
  BY <1>1, <1>2, <1>3, <1>4, <1>5, <1>6, <1>7, <1>8 DEF Next

(* The block of the transaction is the newest when it is mined.            *)
LEMMA MineKeepsChainInv ==
    ASSUME ChainInv, Mine
    PROVE  ChainInv'
<1>1. NotMinedYet /\ UNCHANGED watcher
  BY DEF Mine, ChainInv
<1>2. head' = head + 1 /\ minedAt' = head' /\ minedAt' # 0
  BY DEF Mine, ChainInv, ChainTyped
<1>3. \A p \in Pollers, n \in Nat : Ahead(p, n)'
  <2> SUFFICES ASSUME NEW p \in Pollers, NEW n \in Nat
               PROVE  Ahead(p, n)
    BY <1>1, UnchangedAhead DEF watcher, polls
  <2>1. counted[p] = 1 /\ Cardinality(OpenUpTo(p, n)) = 0
    BY <1>1, NoneOpen DEF NotMinedYet
  <2>2. QED
    BY <2>1, ConfirmationsAssumption DEF ConfirmationsAssumption, Ahead
<1>4. CountedExist'
  BY <1>3 DEF CountedExist
<1>5. QED
  BY <1>1, <1>2, <1>4 DEF ChainInv, ChainTyped, NotMinedYet, ConfirmationsExist,
                          watcher, heads, polls

(* Arithmetic of the lemmas below.                                         *)
LEMMA LaterHeads ==
    ASSUME NEW h \in Nat, NEW h2 \in Nat, NEW m \in Nat, NEW n \in Nat,
           h <= h2, n >= h2 - m
    PROVE  n >= h - m
OBVIOUS

LEMMA NumberOfSeen ==
    ASSUME NEW h \in Nat, NEW m \in Nat, NEW s \in Nat, NEW a \in Nat \ {0},
           NEW n, s <= h, n = s - m + 1
    PROVE  n \in Int /\ m + n - 1 <= h + (a - 1)
OBVIOUS

(* Whatever the loops do not do leaves their counts alone.                 *)
LEMMA OthersKeepChainInv ==
    ASSUME ChainInv, minedAt # 0,
           UNCHANGED <<minedAt, counted, asks>>,
           head' \in {head, head + 1}, seen' \in Nat,
           \/ confirmed' = confirmed
           \/ seen' <= head /\ confirmed' = confirmed \union {seen' - minedAt + 1}
    PROVE  ChainInv'
<1>1. /\ head \in Nat /\ minedAt \in Nat /\ confirmed \subseteq Int
      /\ MaxAsks \in Nat \ {0} /\ minedAt <= head
      /\ head' \in Nat \ {0} /\ head <= head'
  BY ConfirmationsAssumption DEF ConfirmationsAssumption, ChainInv, ChainTyped
<1>2. CountedExist'
  <2>1. \A p \in Pollers, n \in Nat : n >= head' - minedAt => n >= head - minedAt
    BY <1>1, LaterHeads
  <2>2. \A p \in Pollers, n \in Nat : n >= head' - minedAt => Ahead(p, n)
    BY <2>1 DEF ChainInv, CountedExist
  <2>3. QED
    BY <2>2, UnchangedAhead DEF CountedExist
<1>3. ConfirmationsExist' /\ confirmed' \subseteq Int
  <2>1. ASSUME NEW n \in confirmed'
        PROVE  n \in Int /\ minedAt + n - 1 <= head + (MaxAsks - 1)
    <3>1. CASE n \in confirmed
      BY <1>1, <3>1 DEF ChainInv, ConfirmationsExist
    <3>2. CASE seen' <= head /\ n = seen' - minedAt + 1
      BY <1>1, <3>2, NumberOfSeen
    <3>3. QED
      BY <2>1, <3>1, <3>2
  <2>2. QED
    BY <1>1, <2>1 DEF ConfirmationsExist
<1>4. ChainTyped' /\ minedAt' <= head' /\ minedAt' # 0
  BY <1>1, <1>3 DEF ChainInv, ChainTyped
<1>5. QED
  BY <1>2, <1>3, <1>4 DEF ChainInv

LEMMA TurnKeepsChainInv ==
    ASSUME ChainInv, NEW p \in Pollers, NEW i \in Asks, PollTurn(p, i)
    PROVE  ChainInv'
<1>1. /\ p \in looping /\ asks[<<p, i>>] = 0
      /\ UNCHANGED <<head, minedAt, seen, confirmed, counted>>
      /\ asks' = [asks EXCEPT ![<<p, i>>] = counted[p]]
  BY DEF PollTurn, chain, heads
<1>2. minedAt # 0
  BY <1>1 DEF ChainInv, NotMinedYet
<1>3. ChainTyped'
  BY <1>1 DEF ChainInv, ChainTyped
<1>4. ASSUME NEW q \in Pollers, NEW n \in Nat, n >= head - minedAt
      PROVE  Ahead(q, n)'
  <2>1. Ahead(q, n) /\ counted[q] \in Nat \ {0}
    BY <1>4 DEF ChainInv, CountedExist, ChainTyped
  <2>2. CASE n >= counted[q]
    <3>1. OpenUpTo(q, n)' = {j \in Asks : asks'[<<q, j>>] \in 1 .. n}
      BY DEF OpenUpTo
    <3>2. OpenUpTo(q, n)' \in SUBSET Asks
      BY <3>1
    <3>3. Cardinality(OpenUpTo(q, n)') \in 0 .. MaxAsks
      BY <3>2, SomeAsks
    <3>4. QED
      BY <1>1, <2>1, <2>2, <3>3, ConfirmationsAssumption
         DEF ConfirmationsAssumption, Ahead
  <2>3. CASE n < counted[q]
    <3>1. \A j \in Asks : asks'[<<q, j>>] \in 1 .. n <=> asks[<<q, j>>] \in 1 .. n
      BY <1>1, <2>1, <2>3 DEF ChainInv, ChainTyped
    <3>2. OpenUpTo(q, n)' = OpenUpTo(q, n)
      BY <3>1 DEF OpenUpTo
    <3>3. QED
      BY <1>1, <2>1, <3>2 DEF Ahead
  <2>4. QED
    BY <2>1, <2>2, <2>3
<1>5. CountedExist' /\ ConfirmationsExist'
  BY <1>1, <1>4 DEF CountedExist, ConfirmationsExist, ChainInv
<1>6. QED
  BY <1>1, <1>2, <1>3, <1>5 DEF ChainInv

LEMMA AnswerKeepsChainInv ==
    ASSUME ChainInv, NEW p \in Pollers, NEW i \in Asks, PollAnswered(p, i)
    PROVE  ChainInv'
<1> DEFINE k == asks[<<p, i>>]
<1>1. /\ k # 0
      /\ UNCHANGED <<head, minedAt, seen>>
      /\ asks' = [asks EXCEPT ![<<p, i>>] = 0]
  BY DEF PollAnswered, chain, heads
<1>2. minedAt # 0
  BY <1>1 DEF ChainInv, NotMinedYet
<1>3. /\ k \in Nat \ {0}
      /\ counted \in [Pollers -> Nat \ {0}]
      /\ asks' \in [Pollers \X Asks -> Nat]
      /\ head \in Nat /\ minedAt \in Nat /\ minedAt <= head
  BY <1>1 DEF ChainInv, ChainTyped
<1>4. \A q \in Pollers, n \in Nat :
        OpenUpTo(q, n)' = IF q = p THEN OpenUpTo(q, n) \ {i} ELSE OpenUpTo(q, n)
  BY <1>1 DEF OpenUpTo, ChainInv, ChainTyped
<1>5. \A n \in Nat : i \in OpenUpTo(p, n) <=> k <= n
  BY <1>3 DEF OpenUpTo
<1>6. \A q \in Pollers, n \in Nat :
        /\ Cardinality(OpenUpTo(q, n)') =
             IF q = p /\ k <= n THEN Cardinality(OpenUpTo(q, n)) - 1
                                ELSE Cardinality(OpenUpTo(q, n))
        /\ Cardinality(OpenUpTo(q, n)) \in Nat
        /\ Cardinality(OpenUpTo(q, n)') \in Nat
  <2> SUFFICES ASSUME NEW q \in Pollers, NEW n \in Nat
               PROVE  /\ Cardinality(OpenUpTo(q, n)') =
                           IF q = p /\ k <= n THEN Cardinality(OpenUpTo(q, n)) - 1
                                              ELSE Cardinality(OpenUpTo(q, n))
                      /\ Cardinality(OpenUpTo(q, n)) \in Nat
                      /\ Cardinality(OpenUpTo(q, n)') \in Nat
    OBVIOUS
  <2> DEFINE S == OpenUpTo(q, n)
             T == IF q = p THEN S \ {i} ELSE S
  <2>1. IsFiniteSet(S) /\ Cardinality(S) \in Nat
    BY OpenFinite
  <2>2. OpenUpTo(q, n)' = T /\ (q = p => (i \in S <=> k <= n))
    BY <1>4, <1>5
  <2> HIDE DEF S
  <2>3. /\ IsFiniteSet(S \ {i})
        /\ Cardinality(S \ {i}) = IF i \in S THEN Cardinality(S) - 1
                                            ELSE Cardinality(S)
    BY <2>1, FS_RemoveElement
  <2>4. Cardinality(S \ {i}) \in Nat
    BY <2>3, FS_CardinalityType
  <2>5. QED
    BY <2>1, <2>2, <2>3, <2>4 DEF S
<1> HIDE DEF k
<1>7. CASE /\ head >= minedAt + k
           /\ counted' = [counted EXCEPT ![p] = @ + 1]
           /\ confirmed' = confirmed \union {counted'[p]}
  <2>1. /\ counted'[p] = counted[p] + 1
        /\ \A q \in Pollers \ {p} : counted'[q] = counted[q]
        /\ counted' \in [Pollers -> Nat \ {0}]
    BY <1>3, <1>7
  <2>2. ASSUME NEW q \in Pollers, NEW n \in Nat, n >= head - minedAt
        PROVE  Ahead(q, n)'
    <3>1. Ahead(q, n) /\ k <= n
      BY <1>3, <1>7, <2>2 DEF ChainInv, CountedExist
    <3>2. counted'[q] + Cardinality(OpenUpTo(q, n)') =
            counted[q] + Cardinality(OpenUpTo(q, n))
      <4>1. CASE q = p
        <5>1. Cardinality(OpenUpTo(q, n)') = Cardinality(OpenUpTo(q, n)) - 1
          BY <1>6, <3>1, <4>1
        <5>2. counted'[q] = counted[q] + 1 /\ counted[q] \in Nat
          BY <1>3, <2>1, <4>1
        <5>3. Cardinality(OpenUpTo(q, n)) \in Nat
          BY <1>6
        <5>4. QED
          BY ONLY <5>1, <5>2, <5>3
      <4>2. CASE q # p
        BY <1>6, <2>1, <4>2
      <4>3. QED
        BY <4>1, <4>2
    <3>3. QED
      BY <3>1, <3>2 DEF Ahead
  <2>3. CountedExist'
    BY <1>1, <2>2 DEF CountedExist
  <2>4. counted'[p] <= head - minedAt + MaxAsks
    <3>1. PICK n \in Nat : n = head - minedAt
      BY <1>3
    <3>2. Ahead(p, n)'
      BY <1>3, <2>2, <3>1
    <3>3. counted'[p] + Cardinality(OpenUpTo(p, n)') <= n + MaxAsks
      BY <3>2 DEF Ahead
    <3>4. Cardinality(OpenUpTo(p, n)') \in Nat /\ counted'[p] \in Nat
      BY <1>6, <2>1
    <3>5. QED
      BY <3>1, <3>3, <3>4, ConfirmationsAssumption DEF ConfirmationsAssumption
  <2>5. ConfirmationsExist' /\ confirmed' \subseteq Int
    <3>1. MaxAsks \in Nat /\ confirmed \subseteq Int /\ counted'[p] \in Int
      BY <2>1, ConfirmationsAssumption DEF ConfirmationsAssumption, ChainInv, ChainTyped
    <3>2. minedAt + counted'[p] - 1 <= head + (MaxAsks - 1)
      BY <1>3, <2>4, <3>1
    <3>3. QED
      BY <1>1, <1>7, <3>1, <3>2 DEF ConfirmationsExist, ChainInv
  <2>6. ChainTyped'
    BY <1>1, <1>3, <2>1, <2>5 DEF ChainInv, ChainTyped
  <2>7. QED
    BY <1>1, <1>2, <1>3, <2>3, <2>5, <2>6 DEF ChainInv
<1>8. CASE UNCHANGED <<counted, confirmed>>
  <2>1. ASSUME NEW q \in Pollers, NEW n \in Nat, n >= head - minedAt
        PROVE  Ahead(q, n)'
    <3>1. Ahead(q, n)
      BY <2>1 DEF ChainInv, CountedExist
    <3>2. Cardinality(OpenUpTo(q, n)') <= Cardinality(OpenUpTo(q, n))
      BY <1>6
    <3>3. Cardinality(OpenUpTo(q, n)') \in Int
      BY <1>6
    <3>4. QED
      BY <1>3, <1>6, <1>8, <3>1, <3>2, <3>3, ConfirmationsAssumption
         DEF ConfirmationsAssumption, Ahead
  <2>2. CountedExist' /\ ConfirmationsExist' /\ ChainTyped'
    BY <1>1, <1>3, <1>8, <2>1 DEF CountedExist, ConfirmationsExist, ChainInv,
                                  ChainTyped
  <2>3. QED
    BY <1>1, <1>2, <1>3, <2>2 DEF ChainInv
<1>9. QED
  BY <1>7, <1>8 DEF PollAnswered, k

LEMMA ConfirmKeepsChainInv ==
    ASSUME ChainInv, ConfirmationsNext, UNCHANGED receipt
    PROVE  ChainInv'
<1>1. ASSUME NEW p \in Pollers, NEW i \in Asks, PollTurn(p, i) \/ PollAnswered(p, i)
      PROVE  ChainInv'
  BY <1>1, TurnKeepsChainInv, AnswerKeepsChainInv
<1>2. CASE minedAt = 0 /\ NewBlock
  <2>1. /\ head' = head + 1 /\ UNCHANGED <<minedAt, watcher, polled>>
    BY <1>2 DEF NewBlock, receipt
  <2>2. CountedExist'
    BY <2>1, UnchangedAhead DEF ChainInv, CountedExist, ChainTyped, watcher, polls
  <2>3. NotMinedYet' /\ minedAt' = 0 /\ ConfirmationsExist'
    BY <1>2, <2>1 DEF ChainInv, NotMinedYet, ConfirmationsExist, watcher, heads, polls
  <2>4. ChainTyped'
    BY <2>1 DEF ChainInv, ChainTyped, watcher, heads, polls
  <2>5. minedAt' <= head'
    BY <2>1, <2>3 DEF ChainInv, ChainTyped
  <2>6. QED
    BY <2>2, <2>3, <2>4, <2>5 DEF ChainInv
<1>3. CASE minedAt # 0 /\ NewBlock
  BY <1>3, OthersKeepChainInv
     DEF NewBlock, watcher, heads, polls, ChainInv, ChainTyped
<1>4. CASE NewHead
  <2>1. minedAt # 0 /\ seen < head /\ seen' = seen + 1
    BY <1>4 DEF NewHead, ChainInv, NotMinedYet
  <2>2. QED
    BY <1>4, <2>1, OthersKeepChainInv DEF NewHead, chain, polls, ChainInv, ChainTyped
<1>5. CASE \/ HeadsSubscribed \/ HeadsRefused \/ HeadsError \/ HeadsRemoved
           \/ HeadsNotRemoved \/ HeadsLeft \/ HeadsTimeout
  <2>1. minedAt # 0
    BY <1>5 DEF HeadsSubscribed, HeadsRefused, HeadsError, HeadsRemoved,
                HeadsNotRemoved, HeadsLeft, HeadsTimeout, ChainInv, NotMinedYet
  <2>2. /\ UNCHANGED <<head, minedAt, counted, asks, confirmed>>
        /\ seen' \in {seen, head}
    BY <1>5 DEF HeadsSubscribed, HeadsRefused, HeadsError, HeadsRemoved,
                HeadsNotRemoved, HeadsLeft, HeadsTimeout, chain, polls
  <2>3. QED
    BY <2>1, <2>2, OthersKeepChainInv DEF ChainInv, ChainTyped
<1>6. QED
  BY <1>1, <1>2, <1>3, <1>4, <1>5 DEF ConfirmationsNext

(* A confirmation number is ahead of the chain by no more than the number  *)
(* of questions a polling loop can have open beside the one answered, for  *)
(* any number of them: with one at a time, never.                          *)
THEOREM ConfirmationsAreReal == Spec => []ConfirmationsExist
<1>1. ASSUME ChainInv, Next
      PROVE  ChainInv'
  <2>1. CASE Mine
    BY <1>1, <2>1, MineKeepsChainInv
  <2>2. CASE Confirm
    BY <1>1, <2>2, ConfirmKeepsChainInv DEF Confirm
  <2>3. QED
    BY <1>1, <2>1, <2>2, StepsOnlyStart, StartKeepsChainInv
<1>2. ASSUME ChainInv, UNCHANGED vars
      PROVE  ChainInv'
  <2>1. CountedExist'
    BY <1>2, UnchangedAhead DEF vars, chain, watcher, polls, ChainInv, CountedExist
  <2>2. QED
    BY <1>2, <2>1 DEF vars, chain, watcher, heads, polls, receipt, ChainInv,
                      ChainTyped, NotMinedYet, ConfirmationsExist
<1>3. ChainInv => ConfirmationsExist
  BY DEF ChainInv
<1>4. QED
  BY <1>1, <1>2, <1>3, ChainInitially, PTL DEF Spec

-----------------------------------------------------------------------------
(***************************************************************************)
(* What the block timeout rests on.  The number of the block a race began  *)
(* with is known before the race, the second race begins after the first,  *)
(* and the race that is blamed is the one that ran.                        *)
(***************************************************************************)
WatchStates == {"off", "subscribing", "subscribed", "polling"}

LimitTyped ==
    /\ head \in Nat \ {0}
    /\ startAt \in [Races -> Nat]
    /\ watch \in [Races -> WatchStates]

StartsKnown ==
    /\ stage \in {"preparing", "signing", "sendStart", "sending"} => startAt["wait"] = 0
    /\ stage = "waiting" \/ watch["wait"] = "subscribing" => startAt["wait"] # 0

LimitInv ==
    /\ LimitTyped
    /\ StartsKnown
    /\ promise = "blockTimeout" => stage = "done" /\ LimitReached(LastRace)

(* Most steps leave the starts of the races alone, and the stage moves on. *)
Onward ==
    \/ stage' = stage \/ stage' = "done"
    \/ stage = "preparing" /\ stage' = "signing"
    \/ stage = "signing" /\ stage' = "sendStart"
    \/ stage = "sending" /\ stage' = "waitStart"

LEMMA LimitInitially == Init => LimitInv
  BY DEF Init, ConfirmationsInit, LimitInv, LimitTyped, StartsKnown, Races, WatchStates

LEMMA OnwardKeepsLimitInv ==
    ASSUME LimitInv, Onward, UNCHANGED <<head, startAt>>,
           watch' \in [Races -> WatchStates],
           watch'["wait"] = "subscribing" => watch["wait"] = "subscribing",
           promise' = "blockTimeout" =>
               \/ UNCHANGED <<promise, stage>>
               \/ stage' = "done" /\ LimitReached(LastRace)
    PROVE  LimitInv'
<1>1. LimitTyped' /\ StartsKnown'
  BY DEF LimitInv, LimitTyped, StartsKnown, Onward
<1>2. LimitReached(LastRace) => LimitReached(LastRace)'
  BY DEF LimitReached, LastRace
<1>3. promise' = "blockTimeout" => stage' = "done" /\ LimitReached(LastRace)
  BY DEF LimitInv, Onward
<1>4. QED
  BY <1>1, <1>2, <1>3 DEF LimitInv

(* A race that ends at its limit is the last one, and it has reached it.   *)
LEMMA LimitKeepsLimitInv ==
    ASSUME LimitInv, NEW r \in Races, BlockLimit(r), LimitReached(r),
           UNCHANGED <<head, startAt>>
    PROVE  LimitInv'
<1>1. /\ watch' \in [Races -> WatchStates]
      /\ watch'["wait"] = "subscribing" => watch["wait"] = "subscribing"
  <2>1. watch' = [watch EXCEPT ![r] = "off"] /\ watch \in [Races -> WatchStates]
    BY DEF BlockLimit, NoWatch, LimitInv, LimitTyped
  <2>2. QED
    BY <2>1 DEF Races, WatchStates
<1>2. CASE stage = Race(r)
  <2>1. LastRace = r
    BY <1>2 DEF LastRace, Race, Races, LimitInv, StartsKnown
  <2>2. stage' = "done"
    BY <1>2 DEF BlockLimit, Reject
  <2>3. QED
    BY <1>1, <2>1, <2>2, OnwardKeepsLimitInv DEF Onward
<1>3. CASE stage # Race(r)
  <2>1. UNCHANGED <<stage, promise>>
    BY <1>3 DEF BlockLimit
  <2>2. QED
    BY <1>1, <2>1, OnwardKeepsLimitInv DEF Onward
<1>4. QED
  BY <1>2, <1>3

(* A race begins once the block it began with is known.                    *)
LEMMA EnterKeepsLimitInv ==
    ASSUME LimitInv, NEW r \in Races, NEW how \in {"polling", "subscribed"}, Enter(r, how),
           stage = Start(r), head' = head, startAt' \in [Races -> Nat],
           r = "wait" => startAt'["wait"] # 0,
           \A q \in Races \ {r} : startAt'[q] = startAt[q]
    PROVE  LimitInv'
<1>1. watch' = [watch EXCEPT ![r] = IF stage' = Race(r) THEN how ELSE "off"]
  BY DEF Enter
<1>2. stage' = Race(r) \/ stage' = "done"
  BY DEF Enter, EnterSend, EnterWait, Reject, TakeReceipt, Race
<1>3. promise' # "blockTimeout"
  <2>1. promise # "blockTimeout"
    BY DEF LimitInv, Start, Races
  <2>2. QED
    BY <2>1 DEF Enter, EnterSend, EnterWait, Reject, TakeReceipt
<1>4. LimitTyped'
  <2>1. (IF stage' = Race(r) THEN how ELSE "off") \in WatchStates
    BY DEF WatchStates
  <2>2. watch' \in [Races -> WatchStates]
    BY <1>1, <2>1 DEF LimitInv, LimitTyped
  <2>3. QED
    BY <2>2 DEF LimitInv, LimitTyped
<1>5. StartsKnown'
  BY <1>1, <1>2 DEF LimitInv, LimitTyped, StartsKnown, Races, Race, Start
<1>6. QED
  BY <1>3, <1>4, <1>5 DEF LimitInv

(* A step that blames no limit.                                            *)
LEMMA QuietKeepsLimitInv ==
    ASSUME LimitInv, Onward, UNCHANGED <<head, startAt>>,
           promise' = promise \/ promise' # "blockTimeout",
           \/ UNCHANGED watch
           \/ \E q \in Races, to \in {"off", "polling"} : watch' = [watch EXCEPT ![q] = to]
    PROVE  LimitInv'
<1>1. /\ watch' \in [Races -> WatchStates]
      /\ watch'["wait"] = "subscribing" => watch["wait"] = "subscribing"
  BY DEF LimitInv, LimitTyped, Races, WatchStates
<1>2. promise' = "blockTimeout" => UNCHANGED <<promise, stage>>
  BY DEF LimitInv, Onward
<1>3. QED
  BY <1>1, <1>2, OnwardKeepsLimitInv

LEMMA GrowthKeepsLimitInv ==
    ASSUME LimitInv, head' = head \/ head' = head + 1,
           UNCHANGED <<startAt, watch, stage, promise>>
    PROVE  LimitInv'
  BY SendAssumption DEF SendAssumption, LimitInv, LimitTyped, StartsKnown, LimitReached,
                        LastRace, Races

LEMMA StepsKeepLimitInv ==
    ASSUME LimitInv, Next
    PROVE  LimitInv'
<1>1. CASE Prepare \/ PrepareFails \/ Sign
  <2>1. /\ Onward /\ UNCHANGED <<head, startAt, watch>>
        /\ promise' = promise \/ promise' # "blockTimeout"
    BY <1>1 DEF Prepare, PrepareFails, Sign, Reject, Onward, chain, watches
  <2>2. QED
    BY <2>1, QuietKeepsLimitInv
<1>2. CASE SendAnswered \/ SendFails \/ SendTimeout
  <2>1. /\ Onward /\ UNCHANGED <<head, startAt>>
        /\ promise' = promise \/ promise' # "blockTimeout"
        /\ UNCHANGED watch \/ watch' = NoWatch("send")
    BY <1>2 DEF SendAnswered, SendFails, SendTimeout, Reject, Onward, chain
  <2>2. QED
    BY <2>1, QuietKeepsLimitInv DEF NoWatch, Races
<1>3. ASSUME PollTimeout \/ \E what \in {"receipt", "error"} : PollSettles(what)
      PROVE  LimitInv'
  <2>1. /\ Onward /\ UNCHANGED <<head, startAt>>
        /\ promise' = promise \/ promise' # "blockTimeout"
        /\ UNCHANGED watch \/ watch' = NoWatch("wait")
    BY <1>3 DEF PollTimeout, PollSettles, TakeReceipt, Reject, Onward, chain
  <2>2. QED
    BY <2>1, QuietKeepsLimitInv DEF NoWatch, Races
<1>4. ASSUME NEW r \in Races, BlockNumber(r)
      PROVE  LimitInv'
  <2>1. /\ stage = Start(r) /\ head' = head
        /\ startAt' = [startAt EXCEPT ![r] = head]
    BY <1>4 DEF BlockNumber, chain
  <2>2. /\ startAt' \in [Races -> Nat] /\ startAt'[r] # 0
        /\ \A q \in Races \ {r} : startAt'[q] = startAt[q]
    BY <2>1 DEF LimitInv, LimitTyped
  <2>3. CASE Enter(r, "polling")
    BY <2>1, <2>2, <2>3, EnterKeepsLimitInv
  <2>4. CASE /\ watch' = [watch EXCEPT ![r] = "subscribing"]
             /\ UNCHANGED <<stage, promise>>
    <3>1. watch' \in [Races -> WatchStates]
      BY <2>4 DEF LimitInv, LimitTyped, WatchStates
    <3>2. StartsKnown'
      BY <2>1, <2>2, <2>4 DEF LimitInv, LimitTyped, StartsKnown, Races, Start
    <3>3. promise' # "blockTimeout"
      BY <2>1, <2>4 DEF LimitInv, Start
    <3>4. QED
      BY <2>1, <2>2, <3>1, <3>2, <3>3 DEF LimitInv, LimitTyped
  <2>5. QED
    BY <1>4, <2>3, <2>4 DEF BlockNumber
<1>5. ASSUME NEW r \in Races, BlockNumberFails(r)
      PROVE  LimitInv'
  <2>1. /\ Onward /\ UNCHANGED <<head, startAt, watch>> /\ promise' # "blockTimeout"
    BY <1>5 DEF BlockNumberFails, Reject, Onward, chain, watches
  <2>2. QED
    BY <2>1, QuietKeepsLimitInv
<1>6. ASSUME NEW r \in Races, Subscribed(r) \/ SubscribeFails(r)
      PROVE  LimitInv'
  <2>1. /\ stage = Start(r) /\ watch[r] = "subscribing"
        /\ \E how \in {"polling", "subscribed"} : Enter(r, how)
        /\ UNCHANGED <<head, startAt>>
    BY <1>6 DEF Subscribed, SubscribeFails, chain
  <2>2. stage = "waitStart" => startAt["wait"] # 0
    BY <2>1 DEF Start, Races, LimitInv, StartsKnown
  <2>3. QED
    BY <2>1, <2>2, EnterKeepsLimitInv DEF Start, Races, LimitInv, LimitTyped
<1>7. ASSUME NEW r \in Races, WatchHead(r) \/ WatchPoll(r)
      PROVE  LimitInv'
  <2>1. UNCHANGED <<head, startAt>>
    BY <1>7 DEF WatchHead, WatchPoll, chain
  <2>2. CASE LimitReached(r) /\ BlockLimit(r)
    BY <2>1, <2>2, LimitKeepsLimitInv
  <2>3. CASE UNCHANGED <<stage, promise, watch>>
    BY <2>1, <2>3, QuietKeepsLimitInv DEF Onward
  <2>4. QED
    BY <1>7, <2>2, <2>3 DEF WatchHead, WatchPoll
<1>8. ASSUME NEW r \in Races, WatchFails(r) \/ WatchTimeout(r)
      PROVE  LimitInv'
  <2>1. /\ UNCHANGED <<stage, promise, head, startAt>>
        /\ \/ watch' = [watch EXCEPT ![r] = "polling"]
           \/ watch' = [watch EXCEPT ![r] = @]
    BY <1>8 DEF WatchFails, WatchTimeout, chain
  <2>2. watch = [watch EXCEPT ![r] = @]
    BY DEF LimitInv, LimitTyped
  <2>3. QED
    BY <2>1, <2>2, QuietKeepsLimitInv DEF Onward
<1>9. CASE Mine \/ Confirm
  <2>1. head' = head \/ head' = head + 1
    BY <1>9 DEF Mine, Confirm, ConfirmationsNext, HeadsSubscribed, HeadsRefused,
                HeadsError, HeadsRemoved, HeadsNotRemoved, NewHead, HeadsLeft,
                HeadsTimeout, PollTurn, PollAnswered, NewBlock, chain
  <2>2. UNCHANGED <<startAt, watch, stage, promise>>
    BY <1>9 DEF Mine, Confirm, watches
  <2>3. QED
    BY <2>1, <2>2, GrowthKeepsLimitInv
<1>10. QED
  BY <1>1, <1>2, <1>3, <1>4, <1>5, <1>6, <1>7, <1>8, <1>9 DEF Next

(* A transaction is rejected for its block timeout only if that many       *)
(* blocks came since the race it lost began, for every timeout, every      *)
(* chain and every set of calls that never return.                         *)
THEOREM BlockTimeoutIsHonest == Spec => []BlockTimeoutHonest
<1>1. LimitInv /\ UNCHANGED vars => LimitInv'
  BY DEF vars, chain, watches, LimitInv, LimitTyped, StartsKnown, LimitReached, LastRace
<1>2. LimitInv => BlockTimeoutHonest
  BY DEF LimitInv, BlockTimeoutHonest
<1>3. QED
  BY <1>1, <1>2, LimitInitially, StepsKeepLimitInv, PTL DEF Spec
=============================================================================
