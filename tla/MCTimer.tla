------------------------------- MODULE MCTimer -------------------------------
(* A heartbeat every three ticks, a loop that may take two ticks for a      *)
(* round, and a counter that wraps after eleven.                            *)
EXTENDS Timer

MCVectors == {8, 13, 32, 255}
=============================================================================
