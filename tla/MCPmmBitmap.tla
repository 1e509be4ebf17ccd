---------------------------- MODULE MCPmmBitmap -----------------------------
(* A bitmap of nine pages and runs of up to three.                           *)
EXTENDS PmmBitmap

MCCounts == 1 .. 3
=============================================================================
