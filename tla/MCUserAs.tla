------------------------------ MODULE MCUserAs ------------------------------
(* Address spaces in the memory of MCMemory.                                *)
EXTENDS UserAs, MCMemory

\* 180 begins a table under a PML4 entry that is in the template.  192 comes under
\* one that is not, when it is mapped after the template was taken.
MCKVas == {180, 192}
MCKFlags == {{"W", "G"}}
MCCounts == {1}
=============================================================================
