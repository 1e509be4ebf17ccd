---------------------------- MODULE MCFaultEntry -----------------------------
(* System calls and exceptions in any order, two turns told apart.  The     *)
(* user's stack has room for all of a system call, for its entry but not    *)
(* for syscall_dispatch, or for three words.                                *)
(* Vectors 7 and 12 have no gate, and 12 is one on which another exception  *)
(* is a double fault at once.                                               *)
EXTENDS FaultEntry

MCResults == {1, 2}
MCUserRooms == {3, 12, 20}
MCUserFaults == {0, 1, 3, 6, 7, 12, 13, 14}
=============================================================================
