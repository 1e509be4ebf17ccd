------------------------------ MODULE MCMemory ------------------------------
(* Physical memory for the models of the mapping functions, with tables of  *)
(* four entries, two of them in the high half.  Pages 1 to 18 are the boot  *)
(* loader's tables.  Slot 2 of the root maps the first Reached pages of     *)
(* memory from page 128 on, and page 178; slot 3 is empty.  The last three  *)
(* pages are the ones that the kernel maps.  They and the allocator's pages *)
(* hold arbitrary data: entries that point back to the root.                *)
EXTENDS Integers

CONSTANTS
  LastFrame,   \* the pages of physical memory are 1 to LastFrame
  Reached      \* the pages that vmm.c reaches

MCFrames == 1 .. LastFrame
MCPool == [k \in 1 .. (LastFrame - 21) |-> k + 18]
MCPAddrs == {LastFrame - 2}

MCEntry(f, flags) == [frame |-> f, flags |-> flags]
MCZero == MCEntry(0, {})
MCPoint(f) == MCEntry(f, {"P", "W"})
MCTable(Has(_), To(_)) == [i \in 0 .. 3 |-> IF Has(i) THEN MCPoint(To(i)) ELSE MCZero]

MCBootMem ==
  [f \in 1 .. LastFrame |->
    CASE f = 1 -> MCTable(LAMBDA i : i = 2, LAMBDA i : 2)
      [] f = 2 -> MCTable(LAMBDA i : TRUE, LAMBDA i : 3 + i)
      [] f \in 3 .. 5 -> MCTable(LAMBDA i : 4 * (f - 3) + i <= 10, LAMBDA i : 4 * (f - 1) + i)
      [] f = 6 -> MCTable(LAMBDA i : i = 0, LAMBDA i : 7)
      [] f = 7 -> [i \in 0 .. 3 |-> IF i = 2 THEN MCEntry(LastFrame, {"P", "W", "G"}) ELSE MCZero]
      [] f \in 8 .. 18 -> MCTable(LAMBDA i : 4 * (f - 8) + i \in 1 .. Reached,
                                  LAMBDA i : 4 * (f - 8) + i)
      [] OTHER -> [i \in 0 .. 3 |-> MCEntry(1, {"P", "W", "U"})]]
=============================================================================
