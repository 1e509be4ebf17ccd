-------------------------- MODULE MCKernelPaging ----------------------------
(* Tables of two entries.  Text, read-only data and .data have a page each,  *)
(* .bss has two, the second partly used and in another "1 GB" page, and      *)
(* .percpu with the TSS has one.                                             *)
EXTENDS KernelPaging
=============================================================================
