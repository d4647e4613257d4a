----------------------------- MODULE MCInitScript ------------------------------
(***************************************************************************)
(* A small instance of InitScript for TLC.                                 *)
(***************************************************************************)
EXTENDS InitScript

MCPids == 1..MaxCalls + MaxOthers
BothTools == {"start-stop-daemon", "su"}
=============================================================================
