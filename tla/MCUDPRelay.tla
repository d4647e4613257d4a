------------------------------ MODULE MCUDPRelay -------------------------------
(***************************************************************************)
(* A small instance of UDPRelay for TLC.                                   *)
(***************************************************************************)
EXTENDS UDPRelay

CONSTANTS p1, p2, p3

\* p1 needs several datagrams everywhere, p2 has a line that exceeds the
\* smaller MTU, p3 does not parse.
MCLineSizes == (p1 :> <<1, 2, 1, 2>>) @@ (p2 :> <<1, 4>>) @@ (p3 :> <<>>)

MCMTU == <<3, 4>>
=============================================================================
