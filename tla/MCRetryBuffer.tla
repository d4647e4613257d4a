----------------------------- MODULE MCRetryBuffer -----------------------------
(***************************************************************************)
(* Small instances of RetryBuffer for TLC.                                 *)
(***************************************************************************)
EXTENDS RetryBuffer, TLC

CONSTANTS w1, w2, w3, w4

\* Three writes of one user and one of another, all to the same database.
MCQuery == [w \in Writes |-> "db"]
MCAuth == [w \in Writes |-> IF w = w4 THEN "bob" ELSE "alice"]

\* w1 and w2 do not fit into one batch of 3, w1 and w3 do.
MCSize == [w \in Writes |-> IF w \in {w1, w2} THEN 2 ELSE 1]

\* w1 and w2 differ in their names only.
MCSymmetry == Permutations({w1, w2})

\* w1 alone is larger than a buffer of 5, and w4 has no points.
MCSizeTooLarge == [w \in Writes |-> CASE w = w1 -> 6 [] w \in {w2, w3} -> 2 [] w = w4 -> 0]

=============================================================================
