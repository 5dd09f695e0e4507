----------------------- MODULE SocketProviderRefinement -----------------------
(***************************************************************************)
(* The socket provider implements RequestLifecycle: the phase of a request *)
(* is read off the queue it stands in and off its promise.                 *)
(***************************************************************************)
EXTENDS SocketProvider

(* The conditions under which no request is dropped with its promise open. *)
(* Each names a path of the code that drops one: a second call with an id  *)
(* that is still pending replaces the first, a send that throws and a      *)
(* reply that is neither result nor error delete the entry, and reset()    *)
(* empties the queues.                                                     *)
Lossless ==
    /\ \A q, r \in Reqs : IdOf[q] = IdOf[r] => q = r
    /\ Unsendable = {}
    /\ "malformed" \notin Kinds
    /\ "reset" \notin AppCalls

PhaseOf(i) ==
    IF outcome[i] = "idle" THEN "idle"
    ELSE IF outcome[i] = "answered" THEN "answered"
    ELSE IF outcome[i] \in Rejections THEN "rejected"
    ELSE IF i \in pending THEN "queued"
    ELSE IF i \in sent THEN "sent"
    ELSE "forgotten"

phase == [i \in Items |-> PhaseOf(i)]

Lifecycle == INSTANCE RequestLifecycle
    WITH Requests <- Items, MayForget <- ~Lossless, phase <- phase

(* No request is sent twice, answered without having been sent, settled    *)
(* twice or revived; and none is forgotten where Lossless holds.           *)
ImplementsLifecycle == Lifecycle!Spec
=============================================================================
