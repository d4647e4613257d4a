----------------------------- MODULE MCRelaySystem -----------------------------
(***************************************************************************)
(* Small instances of RelaySystem for TLC.                                 *)
(***************************************************************************)
EXTENDS RelaySystem, TLC

CONSTANTS r1, r2, b1, b2

GoodWrite == [path |-> "/write", method |-> "POST", db |-> TRUE, gzip |-> "no",
              body |-> "points"]

\* Writes, and requests that only take and return a buffer.
PoolKinds == {GoodWrite, [GoodWrite EXCEPT !.body = "malformed"]}
WriteKinds == {GoodWrite}

\* One user, one database; neither fits into the batch of the other.
OneKey == [r \in Requests |-> "k"]
RequestsAlike == Permutations(Requests)

UnitSize == [r \in Requests |-> 1]

\* r2 has no points; r1 is larger than a batch, so that the two are not merged.
OneEmpty == [r \in Requests |-> IF r = r2 THEN 0 ELSE 2]
=============================================================================
