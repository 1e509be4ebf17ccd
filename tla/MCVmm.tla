------------------------------- MODULE MCVmm --------------------------------
(* The mapping functions on the memory of MCMemory.                         *)
EXTENDS Vmm, MCMemory

\* 179 ends a table that exists, 180 begins one that does not; 192 is in slot 3.
\* 147 is where vmm.c uses page 19, the first of the allocator.
MCKVas == {147, 179, 180, 192}
MCKFlags == {{"W", "G"}}
MCCounts == {1, 2, 3}
=============================================================================
