------------------------------- MODULE KeyedQueue -------------------------------
(***************************************************************************)
(* What the retry buffer promises about the writes it accepts, with no     *)
(* batches, sizes, retries or locks: for each key (query and credentials)  *)
(* a FIFO queue, delivered in groups from its front, each write once.      *)
(***************************************************************************)
EXTENDS Sequences, Integers

CONSTANTS
    Writes,
    Key         \* the key of each write

VARIABLES
    pending,    \* accepted and not delivered, for each key
    delivered   \* delivered to the backend, for each key

Keys == {Key[w] : w \in Writes}

Contains(s, w) == \E i \in 1..Len(s) : s[i] = w

Init ==
    /\ pending = [k \in Keys |-> <<>>]
    /\ delivered = [k \in Keys |-> <<>>]

Accept(w) ==
    /\ ~Contains(pending[Key[w]], w)
    /\ ~Contains(delivered[Key[w]], w)
    /\ pending' = [pending EXCEPT ![Key[w]] = Append(@, w)]
    /\ UNCHANGED delivered

Deliver(k, n) ==
    /\ delivered' = [delivered EXCEPT ![k] = @ \o SubSeq(pending[k], 1, n)]
    /\ pending' = [pending EXCEPT ![k] = SubSeq(@, n + 1, Len(@))]

Next ==
    \/ \E w \in Writes : Accept(w)
    \/ \E k \in Keys : \E n \in 1..Len(pending[k]) : Deliver(k, n)

Spec == Init /\ [][Next]_<<pending, delivered>>
=============================================================================
