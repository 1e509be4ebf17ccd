---------------------------- MODULE MCPmmSimple ----------------------------
(* PmmSimple for TLC: a pool of a few pages and a free stack smaller than it,*)
(* so that the stack fills up and the pool runs out.                        *)
EXTENDS PmmSimple

MCCounts == 0 .. 3
=============================================================================
