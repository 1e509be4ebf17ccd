---------------------------- MODULE MCSyscalls ------------------------------
(* The scheduler as the boot uses it, with three slots, and two of the calls *)
(* that change or show more than one step of Scheduler does: sleep, getpid, *)
(* read, a number without a handler and one out of range.  The other calls  *)
(* are steps of Scheduler, which are in the model anyway; MCBoot makes them. *)
EXTENDS Syscalls

MCSizes == {8000}
MCNumbers == {2, 5, 7, 8, 12}
MCSleeps == {5, 25}
=============================================================================
