----------------------------- MODULE BatchRequest -----------------------------
(***************************************************************************)
(* Web3BatchRequest (web3-core/src/web3_batch_request.ts) on the deferred  *)
(* promises of web3-utils/src/web3_deferred_promise.ts: requests are added *)
(* to a batch, execute() sends what is there, and the answer races the     *)
(* batch timeout.                                                          *)
(*                                                                         *)
(* A Web3DeferredPromise is two things that can part ways: the JavaScript  *)
(* promise, which keeps its first outcome, and the field _state, which     *)
(* resolve() and reject() overwrite every time.                            *)
(***************************************************************************)
EXTENDS Integers, Sequences, FiniteSets

CONSTANTS
    Reqs,          \* requests that may be added, each with its own id
    Stray,         \* an id no request of the batch has
    Kinds,         \* entries in an answer: a subset of AllKinds
    NumericIds,    \* setRequestIdStart is used; otherwise ids are UUIDs
    MaxExecutions, \* bound: calls of execute()
    MaxEntries     \* bound: entries in the answer to a batch

AllKinds == {"result", "error", "neither"}

ASSUME BatchAssumption ==
    /\ Stray \notin Reqs
    /\ Kinds \subseteq AllKinds
    /\ NumericIds \in BOOLEAN
    /\ MaxExecutions \in Nat
    /\ MaxEntries \in Nat

Executions == 1 .. MaxExecutions

VARIABLES
    requests,    \* keys of _requests
    state,       \* _state of the promise of every request
    promise,     \* JavaScript promise of every request
    started,     \* calls of execute() so far
    payload,     \* what each execution sent
    outstanding, \* executions whose sendBatch has not come back
    timers,      \* executions whose timeout is set
    execState,   \* _state of the promise execute() returned
    execPromise  \* JavaScript promise execute() returned, with the reason

vars == <<requests, state, promise, started, payload, outstanding, timers,
          execState, execPromise>>

States  == {"pending", "fulfilled", "rejected"}
Reasons == {"timedOut", "invalid", "failed"}

TypeOK ==
    /\ requests \subseteq Reqs
    /\ state \in [Reqs -> States]
    /\ promise \in [Reqs -> States]
    /\ started \in 0 .. MaxExecutions
    /\ payload \in [Executions -> SUBSET Reqs]
    /\ outstanding \subseteq Executions
    /\ timers \subseteq Executions
    /\ execState \in [Executions -> States]
    /\ execPromise \in [Executions -> {"pending", "fulfilled"} \union Reasons]

Init ==
    /\ requests = {}
    /\ state = [r \in Reqs |-> "pending"]
    /\ promise = [r \in Reqs |-> "pending"]
    /\ started = 0
    /\ payload = [e \in Executions |-> {}]
    /\ outstanding = {}
    /\ timers = {}
    /\ execState = [e \in Executions |-> "pending"]
    /\ execPromise = [e \in Executions |-> "pending"]

-----------------------------------------------------------------------------
(* resolve() or reject() on a JavaScript promise: the first one counts.    *)
First(now, verdict) == IF now = "pending" THEN verdict ELSE now

(* _abortAllRequests: every request of the batch, sent or not.             *)
AbortAll ==
    /\ state' = [r \in Reqs |-> IF r \in requests THEN "rejected" ELSE state[r]]
    /\ promise' = [r \in Reqs |-> IF r \in requests
                                  THEN First(promise[r], "rejected")
                                  ELSE promise[r]]

(* The end of an execution: its promise is settled and its timeout         *)
(* cleared, a second time too when the timeout came first.                 *)
Fulfil(e) ==
    /\ execState' = [execState EXCEPT ![e] = "fulfilled"]
    /\ execPromise' = [execPromise EXCEPT ![e] = First(@, "fulfilled")]
    /\ timers' = timers \ {e}

Reject(e, reason) ==
    /\ execState' = [execState EXCEPT ![e] = "rejected"]
    /\ execPromise' = [execPromise EXCEPT ![e] = First(@, reason)]
    /\ timers' = timers \ {e}

(* An answer: entries with the id of a request, or of none.                *)
Entries == [id : Reqs \union {Stray}, kind : Kinds]
Answers == UNION {[1 .. n -> Entries] : n \in 0 .. MaxEntries}

(* The ids are compared after Number(): of a UUID that is NaN, which       *)
(* JSON.stringify writes as null, so two lists of one length are equal.    *)
SameSize(answer) == Len(answer) = Cardinality(requests)
SameIds(answer) ==
    NumericIds => {answer[k].id : k \in DOMAIN answer} = requests

(* The entries that settle a request, and what the first and the last of   *)
(* some entries say.                                                       *)
EntriesOf(answer, r) ==
    {k \in DOMAIN answer : answer[k].id = r /\ answer[k].kind # "neither"}
Verdict(entry) == IF entry.kind = "result" THEN "fulfilled" ELSE "rejected"
FirstOf(answer, S) == Verdict(answer[CHOOSE k \in S : \A j \in S : k <= j])
LastOf(answer, S)  == Verdict(answer[CHOOSE k \in S : \A j \in S : j <= k])

(* Every entry settles the request it names, in order.                     *)
SettleEach(answer) ==
    LET entries(r) == IF r \in requests THEN EntriesOf(answer, r) ELSE {}
    IN  /\ state' = [r \in Reqs |-> IF entries(r) = {} THEN state[r]
                                    ELSE LastOf(answer, entries(r))]
        /\ promise' = [r \in Reqs |-> IF entries(r) = {} THEN promise[r]
                                      ELSE First(promise[r],
                                                 FirstOf(answer, entries(r)))]

-----------------------------------------------------------------------------
(* Faults, put in the place of the operations below by the checks.         *)
FaultTimeoutAbortsNone(e) ==
    /\ e \in timers
    /\ execState[e] = "pending"
    /\ Reject(e, "timedOut")
    /\ UNCHANGED <<requests, state, promise, started, payload, outstanding>>

FaultExecuteWithoutTimer ==
    /\ requests # {}
    /\ started < MaxExecutions
    /\ started' = started + 1
    /\ payload' = [payload EXCEPT ![started + 1] = requests]
    /\ outstanding' = outstanding \union {started + 1}
    /\ UNCHANGED <<requests, state, promise, timers, execState, execPromise>>

-----------------------------------------------------------------------------
(* add() *)
Add(r) ==
    /\ r \notin requests
    /\ requests' = requests \union {r}
    /\ UNCHANGED <<state, promise, started, payload, outstanding, timers,
                   execState, execPromise>>

(* execute(): with no requests it returns at once.                         *)
Execute ==
    /\ requests # {}
    /\ started < MaxExecutions
    /\ started' = started + 1
    /\ payload' = [payload EXCEPT ![started + 1] = requests]
    /\ outstanding' = outstanding \union {started + 1}
    /\ timers' = timers \union {started + 1}
    /\ UNCHANGED <<requests, state, promise, execState, execPromise>>

(* _checkTimeout, and the handler execute() put on the rejection.          *)
Timeout(e) ==
    /\ e \in timers
    /\ execState[e] = "pending"
    /\ AbortAll
    /\ Reject(e, "timedOut")
    /\ UNCHANGED <<requests, started, payload, outstanding>>

(* sendBatch rejects: the provider failed, or the answer is no batch.  The *)
(* promises of the requests are left alone.                                *)
SendFails(e) ==
    /\ e \in outstanding
    /\ outstanding' = outstanding \ {e}
    /\ Reject(e, "failed")
    /\ UNCHANGED <<requests, state, promise, started, payload>>

(* sendBatch resolves: the rest of _processBatchRequest.  The answer is    *)
(* measured against the requests there are now, not against those sent.    *)
AnswerMismatch(e, answer) ==
    /\ ~(SameSize(answer) /\ SameIds(answer))
    /\ AbortAll
    /\ Reject(e, "invalid")

AnswerTaken(e, answer) ==
    /\ SameSize(answer) /\ SameIds(answer)
    /\ SettleEach(answer)
    /\ Fulfil(e)

Answer(e, answer) ==
    /\ e \in outstanding
    /\ outstanding' = outstanding \ {e}
    /\ AnswerMismatch(e, answer) \/ AnswerTaken(e, answer)
    /\ UNCHANGED <<requests, started, payload>>

Next ==
    \/ \E r \in Reqs : Add(r)
    \/ Execute
    \/ \E e \in Executions :
          \/ Timeout(e)
          \/ SendFails(e)
          \/ \E answer \in Answers : Answer(e, answer)

Spec == Init /\ [][Next]_vars

(* Timeouts fire; the node need never answer.                              *)
FairSpec == Spec /\ \A e \in Executions : WF_vars(Timeout(e))

-----------------------------------------------------------------------------
(* An execution that ended by an answer or by the timeout has left none of *)
(* the requests it sent with an open promise.                              *)
NoneLeftOpen ==
    \A e \in Executions :
        execPromise[e] \in {"fulfilled", "timedOut", "invalid"}
            => \A r \in payload[e] : promise[r] # "pending"

(* Every execution ends, whether the node answers or not.                  *)
ExecutionsEnd ==
    \A e \in Executions : started >= e ~> execPromise[e] # "pending"
=============================================================================
