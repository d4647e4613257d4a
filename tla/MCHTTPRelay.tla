------------------------------ MODULE MCHTTPRelay ------------------------------
(***************************************************************************)
(* Small instances of HTTPRelay for TLC.                                   *)
(***************************************************************************)
EXTENDS HTTPRelay

CONSTANTS r1, r2, b1, b2, b3

GoodWrite == [path |-> "/write", method |-> "POST", db |-> TRUE, gzip |-> "good",
              body |-> "points"]

\* Every way through ServeHTTP.
AllKinds ==
    {GoodWrite,
     [GoodWrite EXCEPT !.path = "/ping", !.method = "GET"],
     [GoodWrite EXCEPT !.path = "/ping"],
     [GoodWrite EXCEPT !.method = "OPTIONS"],
     [GoodWrite EXCEPT !.method = "GET"],
     [GoodWrite EXCEPT !.db = FALSE],
     [GoodWrite EXCEPT !.gzip = "bad"],
     [GoodWrite EXCEPT !.body = "unreadable"],
     [GoodWrite EXCEPT !.body = "malformed"]}
=============================================================================
