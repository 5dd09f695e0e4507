---------------------------- MODULE Confirmations ----------------------------
(***************************************************************************)
(* The confirmations of a mined transaction                                *)
(* (web3-eth/src/utils/watch_transaction_for_confirmations.ts,             *)
(* watch_transaction_by_subscription.ts, watch_transaction_by_pooling.ts): *)
(* new heads are subscribed to where the provider can, with a fall back to *)
(* polling when the subscription fails, errs or stays silent.              *)
(*                                                                         *)
(* The chain only grows.  A polling loop asks for the next block on every  *)
(* turn of its interval, whether or not its last question was answered:    *)
(* MaxAsks of them may be open at a time.                                  *)
(***************************************************************************)
EXTENDS Integers

CONSTANTS
    ConfirmationBlocks, \* transactionConfirmationBlocks
    MaxHead,            \* bound: blocks of the chain
    MaxAsks             \* bound: unanswered questions of a polling loop

ASSUME ConfirmationsAssumption ==
    /\ ConfirmationBlocks \in Nat \ {0}
    /\ MaxHead \in Nat \ {0}
    /\ MaxAsks \in Nat \ {0}

VARIABLES
    supports,  \* provider.supportsSubscriptions()
    head,      \* number of the latest block
    minedAt,   \* block of the transaction, 0 while there is none
    headsSub,  \* the newHeads subscription
    seen,      \* last block it has announced
    silent,    \* needToWatchLater
    fallback,  \* the timeout of blockHeaderTimeout is set
    looping,   \* the polling loops whose interval is set
    counted,   \* confirmations counted by every polling loop
    asks,      \* its open questions: the count of the time, 0 where there is none
    confirmed  \* numbers of the `confirmation` events so far

chain   == <<head, minedAt>>
heads   == <<headsSub, seen, silent, fallback>>
polls   == <<looping, counted, asks>>
watcher == <<heads, polls, confirmed>>

(* Polling is started at most once by the timeout and once by an error.    *)
Pollers == {"timeout", "error"}
Asks    == 1 .. MaxAsks
Subscribing == {"none", "asked", "on", "failing", "leaving", "off"}

ConfirmationsInit ==
    /\ supports \in BOOLEAN
    /\ head = 1 /\ minedAt = 0
    /\ headsSub = "none" /\ seen = 0
    /\ silent = TRUE /\ fallback = FALSE
    /\ looping = {}
    /\ counted = [p \in Pollers |-> 1]
    /\ asks = [a \in Pollers \X Asks |-> 0]
    /\ confirmed = {}

Watching == confirmed # {}

-----------------------------------------------------------------------------
(* Faults, put in the place of the operations below by the checks.         *)
FaultTimeoutIgnored ==
    /\ fallback
    /\ fallback' = FALSE
    /\ UNCHANGED <<supports, chain, headsSub, seen, silent, polls, confirmed>>

FaultAnswerUnchecked(p, i) ==
    /\ asks[<<p, i>>] # 0
    /\ asks' = [asks EXCEPT ![<<p, i>>] = 0]
    /\ counted' = [counted EXCEPT ![p] = @ + 1]
    /\ confirmed' = confirmed \union {counted'[p]}
    /\ UNCHANGED <<supports, chain, heads, looping>>

-----------------------------------------------------------------------------
(* watchTransactionForConfirmations(): the receipt is the first            *)
(* confirmation, and then the watch starts.                                *)
StartWatching ==
    /\ confirmed' = {1}
    /\ \/ /\ supports
          /\ headsSub' = "asked"
          /\ fallback' = TRUE
          /\ UNCHANGED looping
       \/ /\ ~supports
          /\ looping' = looping \union {"error"}
          /\ UNCHANGED <<headsSub, fallback>>
    /\ UNCHANGED <<seen, silent, counted, asks>>

HeadsSubscribed ==
    /\ headsSub = "asked"
    /\ headsSub' = "on"
    /\ seen' = head
    /\ UNCHANGED <<supports, chain, silent, fallback, polls, confirmed>>

(* subscribe() rejects: polling begins.                                    *)
HeadsRefused ==
    /\ headsSub = "asked"
    /\ headsSub' = "off"
    /\ silent' = FALSE
    /\ looping' = looping \union {"error"}
    /\ UNCHANGED <<supports, chain, seen, fallback, counted, asks, confirmed>>

(* The subscription emits an error: removeSubscription() is awaited before *)
(* the polling begins, which it never does if the removal fails.           *)
HeadsError ==
    /\ headsSub = "on"
    /\ headsSub' = "failing"
    /\ UNCHANGED <<supports, chain, seen, silent, fallback, polls, confirmed>>

HeadsRemoved ==
    /\ headsSub = "failing"
    /\ headsSub' = "off"
    /\ silent' = FALSE
    /\ looping' = looping \union {"error"}
    /\ UNCHANGED <<supports, chain, seen, fallback, counted, asks, confirmed>>

HeadsNotRemoved ==
    /\ headsSub = "failing"
    /\ headsSub' = "on"
    /\ UNCHANGED <<supports, chain, seen, silent, fallback, polls, confirmed>>

(* The subscription announces the next block; when it is the last one      *)
(* needed the subscription is given up, if it is not already.              *)
NewHead ==
    /\ headsSub \in {"on", "failing", "leaving"}
    /\ seen < head
    /\ seen' = seen + 1
    /\ silent' = FALSE
    /\ confirmed' = confirmed \union {seen' - minedAt + 1}
    /\ headsSub' = IF /\ headsSub = "on"
                      /\ seen' - minedAt + 1 >= ConfirmationBlocks
                   THEN "leaving" ELSE headsSub
    /\ UNCHANGED <<supports, chain, fallback, polls>>

HeadsLeft ==
    /\ headsSub = "leaving"
    /\ headsSub' = "off"
    /\ UNCHANGED <<supports, chain, seen, silent, fallback, polls, confirmed>>

(* blockHeaderTimeout is over: polling starts beside the subscription.     *)
HeadsTimeout ==
    /\ fallback
    /\ fallback' = FALSE
    /\ looping' = IF silent THEN looping \union {"timeout"} ELSE looping
    /\ UNCHANGED <<supports, chain, headsSub, seen, silent, counted, asks,
                   confirmed>>

(* A turn of a polling loop: when it has counted enough it is the last     *)
(* one, and asks for the next block all the same.                          *)
PollTurn(p, i) ==
    /\ p \in looping
    /\ asks[<<p, i>>] = 0
    /\ looping' = IF counted[p] >= ConfirmationBlocks THEN looping \ {p}
                                                      ELSE looping
    /\ asks' = [asks EXCEPT ![<<p, i>>] = counted[p]]
    /\ UNCHANGED <<supports, chain, heads, counted, confirmed>>

(* The answer counts if the block asked for is there, whatever was counted *)
(* since the question.                                                     *)
PollAnswered(p, i) ==
    /\ asks[<<p, i>>] # 0
    /\ asks' = [asks EXCEPT ![<<p, i>>] = 0]
    /\ \/ /\ head >= minedAt + asks[<<p, i>>]
          /\ counted' = [counted EXCEPT ![p] = @ + 1]
          /\ confirmed' = confirmed \union {counted'[p]}
       \/ /\ head < minedAt + asks[<<p, i>>]
          /\ UNCHANGED <<counted, confirmed>>
    /\ UNCHANGED <<supports, chain, heads, looping>>

NewBlock ==
    /\ head < MaxHead
    /\ head' = head + 1
    /\ UNCHANGED <<supports, minedAt, watcher>>

ConfirmationsNext ==
    \/ HeadsSubscribed \/ HeadsRefused
    \/ HeadsError \/ HeadsRemoved \/ HeadsNotRemoved
    \/ NewHead \/ HeadsLeft \/ HeadsTimeout
    \/ \E p \in Pollers, i \in Asks : PollTurn(p, i) \/ PollAnswered(p, i)
    \/ NewBlock

-----------------------------------------------------------------------------
(* How far a confirmation number may be ahead of the chain: by one block   *)
(* for every further question its polling loop has open, since an answer   *)
(* adds one to the count of now and not to that of the time it asked.  A   *)
(* number for which no block is there does come, but no worse one; where   *)
(* answers come within the interval, none.                                 *)
ConfirmationsExist ==
    \A n \in confirmed : minedAt + n - 1 <= head + (MaxAsks - 1)

(* If the chain grows far enough, transactionConfirmationBlocks            *)
(* confirmations are announced and polling stops, whatever became of the   *)
(* subscription.                                                           *)
Reachable == minedAt + ConfirmationBlocks - 1 <= MaxHead

Confirmed ==
    (Watching /\ Reachable)
        ~> /\ \E n \in confirmed : n >= ConfirmationBlocks
           /\ looping = {}
=============================================================================
