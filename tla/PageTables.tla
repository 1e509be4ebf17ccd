---------------------------- MODULE PageTables -----------------------------
(***************************************************************************)
(* The four-level page tables that mm/vmm.c, mm/user_as.c and              *)
(* mm/user_mapping.c build in physical memory.  Addresses are page         *)
(* numbers.  A table is a function from indices to entries, an entry a     *)
(* page number with a set of flags: "P", "W", "U", "G" and "NX".           *)
(*                                                                         *)
(* The operators take and return a record of the physical memory: mem, the *)
(* tables; pool, the free pages in the order in which pmm_alloc_page will  *)
(* return them; at, the table a walk has come to, or NoPage if it failed.  *)
(* Huge pages are left out.                                                *)
(***************************************************************************)
EXTENDS Integers, Sequences

CONSTANTS
  B,         \* entries of a table, 512 in the code
  Frames     \* the page numbers of physical memory

NoPage == 0

ASSUME TableAssumption ==
  /\ B \in Nat \ {0, 1}
  /\ Frames \subseteq Nat \ {NoPage}

Idx == 0 .. (B - 1)

\* The high half of a PML4, entries 256 to 511, belongs to the kernel.
High == (B \div 2) .. (B - 1)

PML4_INDEX(va) == (va \div (B * B * B)) % B
PDPT_INDEX(va) == (va \div (B * B)) % B
PD_INDEX(va) == (va \div B) % B
PT_INDEX(va) == va % B

Entries ==
  [frame : Nat, flags : SUBSET {"P", "W", "U", "G", "NX"}]

Zero == [frame |-> NoPage, flags |-> {}]
EmptyTable == [i \in Idx |-> Zero]

Present(e) == "P" \in e.flags

-----------------------------------------------------------------------------
\* The entry at index i of the table that entry e points to.
Below(m, e, i) == IF Present(e) THEN m[e.frame][i] ELSE Zero

\* The entries that the walk from root to va meets.
Path(m, root, va) ==
  LET e4 == m[root][PML4_INDEX(va)]
      e3 == Below(m, e4, PDPT_INDEX(va))
      e2 == Below(m, e3, PD_INDEX(va))
      e1 == Below(m, e2, PT_INDEX(va))
  IN  <<e4, e3, e2, e1>>

\* The last entry of the walk: where va is mapped to.
Leaf(m, root, va) == Path(m, root, va)[4]

\* What the processor makes of the walk: U and W must be set on every level,
\* NX on one.
Access(m, root, va) ==
  LET p == Path(m, root, va) IN
  [frame |-> p[4].frame,
   user  |-> \A k \in 1 .. 4 : "U" \in p[k].flags,
   write |-> \A k \in 1 .. 4 : "W" \in p[k].flags,
   exec  |-> \A k \in 1 .. 4 : "NX" \notin p[k].flags,
   global |-> "G" \in p[4].flags]

\* The pages that the tables in ts point to with at least these flags.
Children(m, ts, flags) ==
  UNION {{m[t][i].frame : i \in {j \in Idx : flags \subseteq m[t][j].flags}} : t \in ts}

\* The tables below root, by level.
Pdpts(m, root) == Children(m, {root}, {"P"})
Pds(m, root) == Children(m, Pdpts(m, root), {"P"})
Pts(m, root) == Children(m, Pds(m, root), {"P"})
Tables(m, root) == {root} \cup Pdpts(m, root) \cup Pds(m, root) \cup Pts(m, root)

\* The level of each page: 4 for root down to 1 for the page tables, 0 for the
\* others.
Levels(m, root) ==
  [f \in Frames |-> IF f = root THEN 4
                    ELSE IF f \in Pdpts(m, root) THEN 3
                    ELSE IF f \in Pds(m, root) THEN 2
                    ELSE IF f \in Pts(m, root) THEN 1 ELSE 0]

\* With the levels lv the tables form a tree, in which roots may have the tables
\* of the high half in common, and the pages in free are not part of it.
IsTree(m, free, lv) ==
  /\ \A f \in free : lv[f] = 0
  /\ \A t \in Frames, i \in Idx :
       lv[t] >= 2 /\ Present(m[t][i]) =>
         m[t][i].frame \in Frames /\ lv[m[t][i].frame] = lv[t] - 1
  /\ \A t, u \in Frames, i, j \in Idx :
       /\ lv[t] >= 2 /\ Present(m[t][i])
       /\ lv[u] >= 2 /\ Present(m[u][j])
       /\ m[t][i].frame = m[u][j].frame
       => i = j /\ (t = u \/ (lv[t] = 4 /\ lv[u] = 4 /\ i \in High))

\* The pages that user mode can reach below root.
UserPages(m, root) ==
  LET down(ts) == Children(m, ts, {"P", "U"}) IN down(down(down(down({root}))))

-----------------------------------------------------------------------------
MakeTableNoZeroing(s, i, new) ==
  LET t == Head(s.pool)
  IN  [mem  |-> [s.mem EXCEPT ![s.at][i] = [frame |-> t, flags |-> new]],
       pool |-> Tail(s.pool),
       at   |-> t]

\* A missing table is allocated, zeroed and entered with the flags new.
MakeTable(s, i, new) ==
  LET t == Head(s.pool)
  IN  [mem  |-> [s.mem EXCEPT ![t] = EmptyTable,
                              ![s.at][i] = [frame |-> t, flags |-> new]],
       pool |-> Tail(s.pool),
       at   |-> t]

\* A present entry gets the flags add and is followed.
Follow(s, i, add) ==
  [s EXCEPT !.mem[s.at][i].flags = @ \cup add, !.at = s.mem[s.at][i].frame]

DescendKeepsFlags(s, i, new, add) ==
  CASE s.at = NoPage -> s
    [] s.at # NoPage /\ Present(s.mem[s.at][i]) -> Follow(s, i, {})
    [] s.at # NoPage /\ ~Present(s.mem[s.at][i]) /\ s.pool = <<>> -> [s EXCEPT !.at = NoPage]
    [] OTHER -> MakeTable(s, i, {"P", "W"})

\* One level down, as get_or_make_table and its likes do.
Descend(s, i, new, add) ==
  CASE s.at = NoPage -> s
    [] s.at # NoPage /\ Present(s.mem[s.at][i]) -> Follow(s, i, add)
    [] s.at # NoPage /\ ~Present(s.mem[s.at][i]) /\ s.pool = <<>> -> [s EXCEPT !.at = NoPage]
    [] OTHER -> MakeTable(s, i, new)

\* Down to the page table of va, then its entry is set to leaf.  When a table
\* cannot be allocated the ones made before stay.
MapIn(s, root, va, leaf, new, add) ==
  LET pdpt == Descend([s EXCEPT !.at = root], PML4_INDEX(va), new, add)
      pd   == Descend(pdpt, PDPT_INDEX(va), new, add)
      pt   == Descend(pd, PD_INDEX(va), new, add)
  IN  IF pt.at = NoPage THEN pt ELSE [pt EXCEPT !.mem[pt.at][PT_INDEX(va)] = leaf]

Ok(s) == s.at # NoPage

\* The mappings ms, a sequence of pages with their entries, made in order up to
\* the first that fails; done counts the ones that succeeded.
MapSeq(s, root, ms, new, add) ==
  LET step(r, i) ==
        LET t == MapIn(r.s, root, ms[i].va, ms[i].leaf, new, add)
        IN  [s |-> t, done |-> IF Ok(t) THEN i ELSE i - 1]
      loop[i \in 0 .. Len(ms)] ==
        CASE i = 0 -> [s |-> s, done |-> 0]
          [] i > 0 /\ loop[i - 1].done < i - 1 -> loop[i - 1]
          [] OTHER -> step(loop[i - 1], i)
  IN  loop[Len(ms)]
=============================================================================
