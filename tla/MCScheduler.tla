---------------------------- MODULE MCScheduler ----------------------------
(* Scheduler for TLC: a table of three slots, a heap for a few stacks.      *)
EXTENDS Scheduler

\* The last one wraps the exhaustion check of kmalloc.
MCSizes == {8000, 8185, 131070}
=============================================================================
