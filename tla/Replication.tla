------------------------------ MODULE Replication ------------------------------
(***************************************************************************)
(* What the HTTP relay promises its clients, with no goroutines, channel   *)
(* or buffers: a write is offered to every backend, each of which accepts  *)
(* it, rejects it, fails or stays silent, and the client gets one reply,   *)
(* which what the backends have said by then calls for.  A request that    *)
(* the relay refuses itself is offered to none of them.                    *)
(***************************************************************************)
EXTENDS Integers

CONSTANTS
    Requests,
    Backends,
    Classes        \* StatusCode/100 of the answers backends may give

VARIABLES
    outcome,       \* what each backend said of each request
    reply          \* what the client was told: the status, and by whom

Error == 0
Pending == -1
NoReply == [code |-> 0, from |-> "nobody"]

Outcomes(r) == {outcome[r][b] : b \in Backends}

Init ==
    /\ outcome = [r \in Requests |-> [b \in Backends |-> Pending]]
    /\ reply = [r \in Requests |-> NoReply]

\* A backend may be slow: the client may have its reply already.
Settle(r, b) ==
    /\ reply[r].from \in {"nobody", "backend"}
    /\ outcome[r][b] = Pending
    /\ \E a \in Classes \cup {Error} : outcome' = [outcome EXCEPT ![r][b] = a]
    /\ UNCHANGED reply

\* The replies to a request that the relay refuses, or panics on.
Refusals ==
    [code : {204, 400, 404, 405, 500}, from : {"relay"}] \cup [code : {0}, from : {"panic"}]

\* The replies of the backends, and the one when there is none.
Verdicts == [code : {204} \cup {100 * c : c \in Classes}, from : {"backend"}]
                \cup [code : {503}, from : {"relay"}]

\* A success or a rejection of one backend decides, a failure takes all of them.
Justified(r, verdict) ==
    \/ 2 \in Outcomes(r) /\ verdict.code = 204
    \/ 4 \in Outcomes(r) /\ verdict.code = 400
    \/ Outcomes(r) \subseteq {Error} /\ verdict.code = 503
    \/ /\ Outcomes(r) \cap {Pending, 2, 4} = {}
       /\ verdict.code \in {100 * a : a \in Outcomes(r) \ {Error}}

Unanswered(r) == reply[r] = NoReply /\ UNCHANGED outcome

Decide(r) ==
    /\ Unanswered(r)
    /\ \E verdict \in Verdicts :
          Justified(r, verdict) /\ reply' = [reply EXCEPT ![r] = verdict]

Refuse(r) ==
    /\ Unanswered(r)
    /\ Outcomes(r) \subseteq {Pending}
    /\ \E refusal \in Refusals : reply' = [reply EXCEPT ![r] = refusal]

Next ==
    \E r \in Requests : Decide(r) \/ Refuse(r) \/ \E b \in Backends : Settle(r, b)

\* Nothing is promised of backends, but a decisive outcome is passed on, also if
\* others never come.
Spec ==
    /\ Init /\ [][Next]_<<outcome, reply>>
    /\ \A r \in Requests : WF_<<outcome, reply>>(Decide(r))
=============================================================================
