--------------------------- MODULE SendTransaction ---------------------------
(***************************************************************************)
(* sendTransaction() (web3-eth/src/rpc_method_wrappers.ts with             *)
(* utils/send_tx_helper.ts, try_send_transaction.ts,                       *)
(* wait_for_transaction_receipt.ts and reject_if_block_timeout.ts): one    *)
(* transaction from its preparation to its receipt, and from there to its  *)
(* confirmations (Confirmations).                                          *)
(*                                                                         *)
(* Sending and waiting are two races of the same shape: an answer, a       *)
(* timeout, and a watch that counts blocks.  Each watch starts with a call *)
(* of getBlockNumber() that is awaited before the race begins.             *)
(***************************************************************************)
EXTENDS Confirmations

CONSTANTS
    BlockTimeout, \* transactionBlockTimeout
    Hangs         \* calls the node need never answer, a subset of AllCalls

Races    == {"send", "wait"}
AllCalls == {"blockNumber", "subscribe", "send"}

ASSUME SendAssumption ==
    /\ BlockTimeout \in Nat \ {0}
    /\ Hangs \subseteq AllCalls

VARIABLES
    bySubscription, \* useSubscriptionWhenCheckingBlockTimeout
    stage,          \* where the async function of sendTransaction() waits
    promise,        \* the Web3PromiEvent
    requested,      \* eth_sendTransaction has been called
    sendTimer,      \* timeout of transactionSendTimeout
    pollTimer,      \* timeout of transactionPollingTimeout
    polling,        \* the receipt is being polled for
    polled,         \* what the polling has come to
    watch,          \* block watch of every race
    startAt,        \* starterBlockNumber of every race
    headsSilent,    \* needToWatchLater of every race
    headsTimer      \* the timeout of blockHeaderTimeout of every race is set

timers == <<sendTimer, pollTimer>>
receipt == <<polling, polled>>
watches == <<watch, startAt, headsSilent, headsTimer>>
vars == <<supports, chain, watcher, bySubscription, stage, promise, requested,
          timers, receipt, watches>>

Start(r) == IF r = "send" THEN "sendStart" ELSE "waitStart"
Race(r)  == IF r = "send" THEN "sending" ELSE "waiting"

Init ==
    /\ ConfirmationsInit
    /\ bySubscription \in BOOLEAN
    /\ stage = "preparing" /\ promise = "pending"
    /\ requested = FALSE
    /\ sendTimer = "off" /\ pollTimer = "off"
    /\ polling = FALSE /\ polled = "nothing"
    /\ watch = [r \in Races |-> "off"]
    /\ startAt = [r \in Races |-> 0]
    /\ headsSilent = [r \in Races |-> TRUE]
    /\ headsTimer = [r \in Races |-> FALSE]

-----------------------------------------------------------------------------
(* The `finally` of a race: its timeout, its polling and its block watch   *)
(* are cleared, but not the timeout of blockHeaderTimeout.                 *)
Cleared(timer) == IF timer = "set" THEN "off" ELSE timer

CleanSend ==
    /\ sendTimer' = Cleared(sendTimer)
    /\ UNCHANGED <<pollTimer, receipt>>

CleanWait ==
    /\ pollTimer' = Cleared(pollTimer)
    /\ polling' = FALSE
    /\ UNCHANGED <<sendTimer, polled>>

Clean(r) == (r = "send" /\ CleanSend) \/ (r = "wait" /\ CleanWait)

NoWatch(r) == [watch EXCEPT ![r] = "off"]

-----------------------------------------------------------------------------
(* Faults, put in the place of the operations below by the checks.         *)
FaultPollTimeout ==
    /\ pollTimer = "set"
    /\ pollTimer' = "fired"
    /\ UNCHANGED <<supports, chain, watcher, bySubscription, stage, promise,
                   requested, sendTimer, receipt, watches>>

-----------------------------------------------------------------------------
(* The end of the async function.  handleError() leaves the error as it is *)
(* with handleRevert off, the default.                                     *)
Reject(reason) ==
    /\ stage' = "done"
    /\ promise' = reason
    /\ UNCHANGED watcher

(* The receipt: handleResolve(), and emitConfirmation() if it succeeded    *)
(* and somebody listens.                                                   *)
TakeReceipt ==
    \/ Reject("reverted")
    \/ /\ stage' = "done"
       /\ promise' = "resolved"
       /\ StartWatching \/ UNCHANGED watcher

-----------------------------------------------------------------------------
(* populateGasPrice() and checkRevertBeforeSending() succeed; `sending`.   *)
Prepare ==
    /\ stage = "preparing"
    /\ stage' = "signing"
    /\ UNCHANGED <<supports, chain, watcher, bySubscription, promise, requested,
                   timers, receipt, watches>>

(* One of them fails, the transaction would revert, or it is not signed.   *)
PrepareFails ==
    /\ stage \in {"preparing", "signing"}
    /\ Reject("failed")
    /\ UNCHANGED <<supports, chain, bySubscription, requested, timers, receipt,
                   watches>>

(* trySendTransaction(): the send timeout is set.                          *)
Sign ==
    /\ stage = "signing"
    /\ stage' = "sendStart"
    /\ sendTimer' = "set"
    /\ UNCHANGED <<supports, chain, watcher, bySubscription, promise, requested,
                   pollTimer, receipt, watches>>

(* The race begins.  What has settled while getBlockNumber() was awaited   *)
(* decides it at once, the transaction being sent all the same.            *)
EnterSend ==
    /\ requested' = TRUE
    /\ \/ /\ sendTimer = "fired"
          /\ Reject("sendTimeout")
       \/ /\ sendTimer # "fired"
          /\ stage' = "sending"
          /\ UNCHANGED <<promise, watcher>>
    /\ UNCHANGED <<timers, receipt>>

EnterWait ==
    /\ \/ polled = "receipt" /\ TakeReceipt /\ CleanWait
       \/ polled = "error" /\ Reject("failed") /\ CleanWait
       \/ /\ polled = "nothing" /\ pollTimer = "fired"
          /\ Reject("pollTimeout") /\ CleanWait
       \/ /\ polled = "nothing" /\ pollTimer # "fired"
          /\ stage' = "waiting"
          /\ UNCHANGED <<promise, watcher, timers, receipt>>
    /\ UNCHANGED requested

Enter(r, how) ==
    /\ (r = "send" /\ EnterSend) \/ (r = "wait" /\ EnterWait)
    /\ watch' = [watch EXCEPT ![r] = IF stage' = Race(r) THEN how ELSE "off"]

(* rejectIfBlockTimeout(), once getBlockNumber() is answered.              *)
BlockNumber(r) ==
    /\ stage = Start(r) /\ watch[r] = "off"
    /\ startAt' = [startAt EXCEPT ![r] = head]
    /\ \/ /\ supports /\ bySubscription
          /\ watch' = [watch EXCEPT ![r] = "subscribing"]
          /\ UNCHANGED <<stage, promise, requested, timers, receipt, watcher>>
       \/ /\ ~(supports /\ bySubscription)
          /\ Enter(r, "polling")
    /\ UNCHANGED <<supports, chain, bySubscription, headsSilent, headsTimer>>

(* It fails outside the `try`: the timeout and the polling stay.           *)
BlockNumberFails(r) ==
    /\ stage = Start(r) /\ watch[r] = "off"
    /\ Reject("failed")
    /\ UNCHANGED <<supports, chain, bySubscription, requested, timers, receipt,
                   watches>>

Subscribed(r) ==
    /\ stage = Start(r) /\ watch[r] = "subscribing"
    /\ Enter(r, "subscribed")
    /\ headsTimer' = [headsTimer EXCEPT ![r] = TRUE]
    /\ UNCHANGED <<supports, chain, bySubscription, startAt, headsSilent>>

SubscribeFails(r) ==
    /\ stage = Start(r) /\ watch[r] = "subscribing"
    /\ Enter(r, "polling")
    /\ UNCHANGED <<supports, chain, bySubscription, startAt, headsSilent,
                   headsTimer>>

(* The node answers with the hash, or fails.                               *)
SendAnswered ==
    /\ stage = "sending"
    /\ stage' = "waitStart"
    /\ sendTimer' = Cleared(sendTimer)
    /\ watch' = NoWatch("send")
    /\ pollTimer' = "set"
    /\ polling' = TRUE
    /\ UNCHANGED <<supports, chain, watcher, bySubscription, promise, requested,
                   polled, startAt, headsSilent, headsTimer>>

SendFails ==
    /\ stage = "sending"
    /\ Reject("failed")
    /\ CleanSend
    /\ watch' = NoWatch("send")
    /\ UNCHANGED <<supports, chain, bySubscription, requested, startAt,
                   headsSilent, headsTimer>>

(* A timeout fires: while its race runs it decides it.                     *)
SendTimeout ==
    /\ sendTimer = "set"
    /\ sendTimer' = "fired"
    /\ IF stage = "sending"
       THEN Reject("sendTimeout") /\ watch' = NoWatch("send")
       ELSE UNCHANGED <<stage, promise, watcher, watch>>
    /\ UNCHANGED <<supports, chain, bySubscription, requested, pollTimer,
                   receipt, startAt, headsSilent, headsTimer>>

PollTimeout ==
    /\ pollTimer = "set"
    /\ pollTimer' = "fired"
    /\ IF stage = "waiting"
       THEN Reject("pollTimeout") /\ watch' = NoWatch("wait") /\ polling' = FALSE
       ELSE UNCHANGED <<stage, promise, watcher, watch, polling>>
    /\ UNCHANGED <<supports, chain, bySubscription, requested, sendTimer,
                   polled, startAt, headsSilent, headsTimer>>

(* A poll finds the receipt, or fails: the `try` around the call does not  *)
(* await it, so one failure ends the polling.                              *)
PollSettles(what) ==
    /\ polling
    /\ what = "receipt" => minedAt # 0
    /\ polled' = what
    /\ polling' = FALSE
    /\ IF stage = "waiting"
       THEN /\ IF what = "receipt" THEN TakeReceipt ELSE Reject("failed")
            /\ pollTimer' = Cleared(pollTimer)
            /\ watch' = NoWatch("wait")
       ELSE UNCHANGED <<stage, promise, watcher, pollTimer, watch>>
    /\ UNCHANGED <<supports, chain, bySubscription, requested, sendTimer,
                   startAt, headsSilent, headsTimer>>

(* Faults, put in the place of BlockLimit by the checks.                   *)
FaultLimitKeepsPolling(r) ==
    /\ stage = Race(r)
    /\ Reject("blockTimeout") /\ Clean(r)
    /\ watch' = NoWatch(r)

FaultLimitAnyRace(r) ==
    /\ IF stage \in {Race(q) : q \in Races}
       THEN Reject("blockTimeout") /\ Clean(r)
       ELSE UNCHANGED <<stage, promise, watcher, timers, receipt>>
    /\ watch' = NoWatch(r)

(* The blocks that are too many.                                           *)
LimitReached(r) == head - startAt[r] >= BlockTimeout

BlockLimit(r) ==
    /\ IF stage = Race(r)
       THEN Reject("blockTimeout") /\ Clean(r)
       ELSE UNCHANGED <<stage, promise, watcher, timers, receipt>>
    /\ watch' = NoWatch(r)

(* A new head is announced to the watch of a race.                         *)
WatchHead(r) ==
    /\ watch[r] = "subscribed"
    /\ headsSilent' = [headsSilent EXCEPT ![r] = FALSE]
    /\ \/ LimitReached(r) /\ BlockLimit(r)
       \/ /\ ~LimitReached(r) /\ headsSilent[r]
          /\ UNCHANGED <<stage, promise, watcher, timers, receipt, watch>>
    /\ UNCHANGED <<supports, chain, bySubscription, requested, startAt,
                   headsTimer>>

(* revertToPolling(), after an error of the subscription.                  *)
WatchFails(r) ==
    /\ watch[r] = "subscribed"
    /\ watch' = [watch EXCEPT ![r] = "polling"]
    /\ headsSilent' = [headsSilent EXCEPT ![r] = FALSE]
    /\ UNCHANGED <<supports, chain, watcher, bySubscription, stage, promise,
                   requested, timers, receipt, startAt, headsTimer>>

(* The timeout of blockHeaderTimeout, which runs on after the race: a      *)
(* watch that heard nothing then polls for a race that is over.            *)
WatchTimeout(r) ==
    /\ headsTimer[r]
    /\ headsTimer' = [headsTimer EXCEPT ![r] = FALSE]
    /\ watch' = [watch EXCEPT ![r] = IF headsSilent[r] THEN "polling" ELSE @]
    /\ headsSilent' = [headsSilent EXCEPT ![r] = FALSE]
    /\ UNCHANGED <<supports, chain, watcher, bySubscription, stage, promise,
                   requested, timers, receipt, startAt>>

(* A poll of the block number that reaches the limit ends its own loop.    *)
WatchPoll(r) ==
    /\ watch[r] = "polling"
    /\ LimitReached(r)
    /\ BlockLimit(r)
    /\ UNCHANGED <<supports, chain, bySubscription, requested, startAt,
                   headsSilent, headsTimer>>

(* The transaction is mined, whether or not its hash has arrived.          *)
Mine ==
    /\ requested /\ minedAt = 0
    /\ head < MaxHead
    /\ head' = head + 1
    /\ minedAt' = head + 1
    /\ UNCHANGED <<supports, watcher, bySubscription, stage, promise, requested,
                   timers, receipt, watches>>

Confirm ==
    /\ ConfirmationsNext
    /\ UNCHANGED <<bySubscription, stage, promise, requested, timers, receipt,
                   watches>>

Next ==
    \/ Prepare \/ PrepareFails \/ Sign
    \/ SendAnswered \/ SendFails \/ SendTimeout \/ PollTimeout
    \/ \E what \in {"receipt", "error"} : PollSettles(what)
    \/ \E r \in Races :
          \/ BlockNumber(r) \/ BlockNumberFails(r)
          \/ Subscribed(r) \/ SubscribeFails(r)
          \/ WatchHead(r) \/ WatchFails(r) \/ WatchTimeout(r) \/ WatchPoll(r)
    \/ Mine
    \/ Confirm

Spec == Init /\ [][Next]_vars

(* Timeouts fire, loops go round, the chain grows to its bound, and the    *)
(* node answers the calls that it must not leave hanging.  It need never   *)
(* answer the subscription of the confirmations, nor announce a head; but  *)
(* a subscription that has announced one goes on.                          *)
Fairness ==
    /\ WF_vars(Prepare \/ PrepareFails)
    /\ WF_vars(Sign \/ PrepareFails)
    /\ WF_vars(SendTimeout) /\ WF_vars(PollTimeout)
    /\ WF_vars(PollSettles("receipt"))
    /\ "send" \notin Hangs => WF_vars(SendAnswered \/ SendFails)
    /\ "blockNumber" \notin Hangs =>
          \A r \in Races : WF_vars(BlockNumber(r) \/ BlockNumberFails(r))
    /\ "subscribe" \notin Hangs =>
          \A r \in Races : WF_vars(Subscribed(r) \/ SubscribeFails(r))
    /\ \A r \in Races :
          /\ WF_vars(WatchTimeout(r)) /\ WF_vars(WatchPoll(r))
          /\ WF_vars(LimitReached(r) /\ WatchHead(r))
    /\ WF_vars(Confirm /\ NewBlock)
    /\ WF_vars(Confirm /\ ~silent /\ NewHead)
    /\ WF_vars(Confirm /\ HeadsTimeout)
    /\ \A p \in Pollers :
          /\ WF_vars(Confirm /\ \E i \in Asks : PollTurn(p, i))
          /\ WF_vars(Confirm /\ \E i \in Asks : PollAnswered(p, i))

FairSpec == Spec /\ Fairness

-----------------------------------------------------------------------------
(* The promise of sendTransaction() settles: each wait is bounded by its   *)
(* timeout, also when the node never answers or never mines.               *)
Settles == <>(promise # "pending")

(* The block timeout is never blamed for a wait that was shorter: the      *)
(* blocks are counted from the start of the race they end, also when the   *)
(* watch of the race before still polls.                                   *)
LastRace == IF startAt["wait"] # 0 THEN "wait" ELSE "send"

BlockTimeoutHonest == promise = "blockTimeout" => LimitReached(LastRace)

(* Nothing keeps running for a transaction that is settled and mined: no   *)
(* timeout, no polling for its receipt, and no block watch that the chain  *)
(* can still end.                                                          *)
Watched(r) == watch[r] # "off" /\ startAt[r] + BlockTimeout <= MaxHead

WatchersEnd ==
    (promise # "pending" /\ minedAt # 0)
        ~> /\ sendTimer # "set" /\ pollTimer # "set" /\ ~polling
           /\ \A r \in Races : ~headsTimer[r] /\ ~Watched(r)
=============================================================================
