--------------------------- MODULE RequestLifecycle ---------------------------
(***************************************************************************)
(* What a socket provider promises about one request: it is sent at most   *)
(* once, it is answered only after it was sent, its promise is settled at  *)
(* most once, and - where MayForget is FALSE - it is never dropped with    *)
(* its promise left open.  Any number of requests may move in one step: a  *)
(* closed connection rejects all of them.                                  *)
(***************************************************************************)
CONSTANTS
    Requests,   \* the requests the provider is ever given
    MayForget   \* whether a request may be dropped with its promise open

VARIABLE phase

Phases == {"idle", "queued", "sent", "answered", "rejected", "forgotten"}

Moves ==
    {<<"idle", "queued">>, <<"idle", "sent">>, <<"idle", "rejected">>,
     <<"queued", "sent">>, <<"queued", "rejected">>,
     <<"sent", "answered">>, <<"sent", "rejected">>}

Forgets ==
    {<<"idle", "forgotten">>, <<"queued", "forgotten">>, <<"sent", "forgotten">>}

May(from, to) ==
    \/ from = to
    \/ <<from, to>> \in Moves
    \/ MayForget /\ <<from, to>> \in Forgets

Init == phase = [r \in Requests |-> "idle"]

Next ==
    /\ phase' \in [Requests -> Phases]
    /\ \A r \in Requests : May(phase[r], phase'[r])

Spec == Init /\ [][Next]_phase
=============================================================================
