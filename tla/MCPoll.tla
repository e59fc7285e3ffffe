------------------------------- MODULE MCPoll -------------------------------
(* Instances of Poll for TLC: its bounds are numbers, set in the cfg files. *)
EXTENDS Poll
=============================================================================
