------------------------------ MODULE VmmProofs ------------------------------
(***************************************************************************)
(* The proofs about PageTables and Vmm, for tables of any size, any tables *)
(* that the boot loader may leave and any sequence of calls.               *)
(*                                                                         *)
(* The invariant behind them is IsTree: every page has a level, an entry   *)
(* of a table points to a table one level down that no other entry points  *)
(* to, and the free pages have level 0.  The lemmas say what writing one   *)
(* entry does to such a tree, then what Descend, MapIn and UnmapPage do,   *)
(* then what their loops do.                                               *)
(***************************************************************************)
EXTENDS Vmm, WellFoundedInduction, TLAPS

-----------------------------------------------------------------------------
(* Induction, as a fact about a set of numbers. *)

\* The loops of vmm_map_pages and vmm_unmap_pages are followed from one
\* iteration to the next.
LEMMA Induction ==
  ASSUME NEW S \in SUBSET Nat, 0 \in S, \A n \in S : n + 1 \in S
  PROVE  S = Nat
<1> DEFINE less == {ss \in Nat \X Nat : ss[1] < ss[2]}
           rest == Nat \ S
<1>1. IsWellFoundedOn(less, Nat)
  <2>1. OpToRel(<, Nat) = less
    BY Zenon DEF OpToRel
  <2> QED
    BY <2>1, NatLessThanWellFounded, Zenon
<1>2. \A a, b \in Nat : a < b => <<a, b>> \in less
  BY Zenon
<1>3. rest \in SUBSET Nat
  BY Zenon
<1> HIDE DEF less
<1>4. ASSUME rest # {} PROVE FALSE
  <2> HIDE DEF rest
  <2>1. PICK x \in rest : \A y \in rest : ~(<<y, x>> \in less)
    BY <1>1, <1>3, <1>4, WFMin, Zenon
  <2>2. x \in Nat /\ x # 0 /\ x - 1 \in Nat /\ x - 1 < x /\ (x - 1) + 1 = x
    BY DEF rest
  <2>3. x - 1 \notin rest
    BY <1>2, <2>1, <2>2, Zenon
  <2>4. x - 1 \in S
    BY <2>2, <2>3, Zenon DEF rest
  <2> QED
    BY <2>2, <2>4, Zenon DEF rest
<1> QED
  BY <1>4, Zenon

-----------------------------------------------------------------------------
(* The indices of an address. *)

\* The quotient and the remainder that an index is made of.
LEMMA DivisionFacts ==
  \A a \in Nat, d \in Nat \ {0} :
         /\ a \div d \in Nat
         /\ a % d \in 0 .. (d - 1)
         /\ a = d * (a \div d) + (a % d)
         /\ d * (a \div d) <= a
         /\ a < d * (a \div d) + d
OBVIOUS

\* Shifting an address twice, as PDPT_INDEX and PML4_INDEX do in one step.
LEMMA DivisionTwice ==
  ASSUME NEW a \in Nat, NEW d \in Nat \ {0}, NEW c \in Nat \ {0}
  PROVE  a \div (d * c) = (a \div d) \div c
<1> DEFINE q == a \div d
           r == q \div c
<1>1. q \in Nat /\ d * q <= a /\ a < d * q + d
  BY DivisionFacts, Zenon
<1>2. r \in Nat /\ c * r <= q /\ q < c * r + c
  <2> HIDE DEF q
  <2> QED
    BY <1>1, DivisionFacts, Zenon
<1> HIDE DEF q, r
<1>3. d * (c * r) <= d * q
  <2>1. PICK k \in Nat : q = c * r + k
    BY <1>1, <1>2
  <2>2. d * q = d * (c * r) + d * k /\ d * k \in Nat /\ d * (c * r) \in Nat
    BY <1>2, <2>1
  <2> QED
    BY <2>2
<1>4. d * q + d <= d * (c * r) + d * c
  <2>1. PICK k \in Nat : c * r + c = q + 1 + k
    BY <1>1, <1>2
  <2>2. d * (c * r + c) = d * q + d + d * k /\ d * k \in Nat /\ d * q \in Nat
    BY <1>1, <2>1
  <2>3. d * (c * r + c) = d * (c * r) + d * c
    BY <1>2
  <2> QED
    BY <2>2, <2>3
<1> DEFINE e == d * c
<1>5. e \in Nat \ {0} /\ d * (c * r) = e * r
  BY <1>2
<1>6. e * r \in Nat /\ e * r <= a /\ a < e * r + e
  BY <1>1, <1>2, <1>3, <1>4, <1>5
<1> HIDE DEF e
<1>7. a \div e = r
  BY <1>2, <1>5, <1>6
<1> QED
  BY <1>7, Zenon DEF e, r, q

\* Each index is one of a table.
LEMMA IndexTypes ==
  ASSUME NEW va \in Nat
  PROVE  /\ PML4_INDEX(va) \in Idx /\ PDPT_INDEX(va) \in Idx
         /\ PD_INDEX(va) \in Idx /\ PT_INDEX(va) \in Idx
<1>1. B \in Nat \ {0} /\ B * B \in Nat \ {0} /\ B * B * B \in Nat \ {0}
  BY TableAssumption
<1>2. va \div B \in Nat /\ va \div (B * B) \in Nat /\ va \div (B * B * B) \in Nat
  BY <1>1, DivisionFacts, Zenon
<1> QED
  BY <1>1, <1>2, DivisionFacts, Zenon DEF PML4_INDEX, PDPT_INDEX, PD_INDEX, PT_INDEX, Idx

\* Two addresses of 48 bits with the same four indices are the same.
LEMMA IndicesDetermine ==
  ASSUME NEW v \in 0 .. (B * B * B * B - 1), NEW w \in 0 .. (B * B * B * B - 1),
         PML4_INDEX(v) = PML4_INDEX(w), PDPT_INDEX(v) = PDPT_INDEX(w),
         PD_INDEX(v) = PD_INDEX(w), PT_INDEX(v) = PT_INDEX(w)
  PROVE  v = w
<1>1. B \in Nat \ {0} /\ B * B \in Nat \ {0} /\ B * B * B \in Nat \ {0} /\ B * B * B * B \in Nat
  BY TableAssumption
<1>2. v \in Nat /\ w \in Nat
  BY <1>1
<1> DEFINE x1(a) == a \div B
           x2(a) == a \div (B * B)
           x3(a) == a \div (B * B * B)
<1>3. ASSUME NEW a \in 0 .. (B * B * B * B - 1)
      PROVE  /\ a = B * x1(a) + PT_INDEX(a)
             /\ x1(a) = B * x2(a) + PD_INDEX(a)
             /\ x2(a) = B * x3(a) + PDPT_INDEX(a)
             /\ x3(a) = PML4_INDEX(a)
  <2>1. x1(a) \in Nat /\ x2(a) \in Nat /\ x3(a) \in Nat /\ a \in Nat
    BY <1>1, DivisionFacts
  <2>2. x2(a) = x1(a) \div B
    BY <1>1, <2>1, DivisionTwice, Zenon
  <2>3. x3(a) = x2(a) \div B
    BY <1>1, <2>1, DivisionTwice, Zenon
  <2>4. x3(a) < B
    <3> DEFINE c == B * B * B
               q == x3(a)
    <3>1. c \in Nat \ {0} /\ q \in Nat /\ c * q <= a /\ a < c * B
      <4>1. a < c * B
        BY <1>1
      <4>2. c * q <= a
        BY <1>1, <2>1, DivisionFacts, Zenon
      <4> QED
        BY <1>1, <2>1, <4>1, <4>2, Zenon
    <3> HIDE DEF c, q
    <3>2. ASSUME q >= B PROVE FALSE
      <4>1. PICK k \in Nat : q = B + k
        BY <1>1, <3>1, <3>2
      <4>2. c * q = c * B + c * k /\ c * k \in Nat /\ c * B \in Nat
        BY <1>1, <3>1, <4>1
      <4> QED
        BY <2>1, <3>1, <4>2
    <3>3. q < B
      BY <1>1, <3>1, <3>2
    <3> QED
      BY <3>3, Zenon DEF q
  <2>5. x3(a) % B = x3(a)
    <3> HIDE DEF x3
    <3> QED
      BY <1>1, <2>1, <2>4
  <2> QED
    BY <1>1, <2>1, <2>2, <2>3, <2>5, DivisionFacts, Zenon
       DEF PML4_INDEX, PDPT_INDEX, PD_INDEX, PT_INDEX
<1> HIDE DEF x1, x2, x3
<1>4. x3(v) = x3(w)
  BY <1>3, Zenon
<1>5. x2(v) = x2(w)
  BY <1>3, <1>4, Zenon
<1>6. x1(v) = x1(w)
  BY <1>3, <1>5, Zenon
<1> QED
  BY <1>3, <1>6, Zenon

-----------------------------------------------------------------------------
(* A walk through a tree of tables. *)

Sound(m, free, lv) ==
  /\ m \in Memories
  /\ free \subseteq Frames
  /\ lv \in [Frames -> 0 .. 4]
  /\ IsTree(m, free, lv)

\* The entries of the walk from r to va, one by one.
Entry4(m, r, va) == m[r][PML4_INDEX(va)]
Entry3(m, r, va) == Below(m, Entry4(m, r, va), PDPT_INDEX(va))
Entry2(m, r, va) == Below(m, Entry3(m, r, va), PD_INDEX(va))
Entry1(m, r, va) == Below(m, Entry2(m, r, va), PT_INDEX(va))

\* They are the path that vmm_get_physical and the processor follow.
LEMMA PathEntries ==
  ASSUME NEW m, NEW r, NEW va
  PROVE  /\ Path(m, r, va) = <<Entry4(m, r, va), Entry3(m, r, va),
                               Entry2(m, r, va), Entry1(m, r, va)>>
         /\ Path(m, r, va)[3] = Entry2(m, r, va)
         /\ Leaf(m, r, va) = Entry1(m, r, va)
  BY Zenon DEF Path, Leaf, Entry4, Entry3, Entry2, Entry1

LEMMA ZeroFacts == Zero \in Entries /\ ~Present(Zero) /\ Zero.frame = NoPage /\ NoPage \notin Frames
  BY TableAssumption, Zenon DEF Zero, Entries, Present, NoPage

\* In a tree the walk comes to a table of each level, or ends at an entry that
\* is not present.
LEMMA WalkFacts ==
  ASSUME NEW m, NEW free, NEW lv, Sound(m, free, lv),
         NEW r \in Frames, lv[r] = 4, NEW va \in Nat
  PROVE  /\ Entry4(m, r, va) \in Entries /\ Entry3(m, r, va) \in Entries
         /\ Entry2(m, r, va) \in Entries /\ Entry1(m, r, va) \in Entries
         /\ Present(Entry4(m, r, va)) =>
              Entry4(m, r, va).frame \in Frames /\ lv[Entry4(m, r, va).frame] = 3
         /\ Present(Entry3(m, r, va)) =>
              /\ Present(Entry4(m, r, va))
              /\ Entry3(m, r, va).frame \in Frames /\ lv[Entry3(m, r, va).frame] = 2
         /\ Present(Entry2(m, r, va)) =>
              /\ Present(Entry3(m, r, va))
              /\ Entry2(m, r, va).frame \in Frames /\ lv[Entry2(m, r, va).frame] = 1
         /\ Present(Entry1(m, r, va)) => Present(Entry2(m, r, va))
<1>1. /\ PML4_INDEX(va) \in Idx /\ PDPT_INDEX(va) \in Idx
      /\ PD_INDEX(va) \in Idx /\ PT_INDEX(va) \in Idx
  BY IndexTypes, Zenon
<1>2. \A t \in Frames, i \in Idx : m[t][i] \in Entries
  BY Zenon DEF Sound, Memories
<1>3. ASSUME NEW t \in Frames, NEW i \in Idx, lv[t] >= 2, Present(m[t][i])
      PROVE  m[t][i].frame \in Frames /\ lv[m[t][i].frame] = lv[t] - 1
  BY <1>3, Zenon DEF Sound, IsTree
<1> DEFINE e4 == Entry4(m, r, va)
           e3 == Entry3(m, r, va)
           e2 == Entry2(m, r, va)
           e1 == Entry1(m, r, va)
<1>4. /\ e4 \in Entries
      /\ Present(e4) => e4.frame \in Frames /\ lv[e4.frame] = 3
  BY <1>1, <1>2, <1>3 DEF Entry4
<1>5. e3 = IF Present(e4) THEN m[e4.frame][PDPT_INDEX(va)] ELSE Zero
  BY Zenon DEF Entry3, Below
<1>6. e2 = IF Present(e3) THEN m[e3.frame][PD_INDEX(va)] ELSE Zero
  BY Zenon DEF Entry2, Below
<1>7. e1 = IF Present(e2) THEN m[e2.frame][PT_INDEX(va)] ELSE Zero
  BY Zenon DEF Entry1, Below
<1> HIDE DEF e4, e3, e2, e1
<1>8. /\ e3 \in Entries
      /\ Present(e3) => Present(e4) /\ e3.frame \in Frames /\ lv[e3.frame] = 2
  BY <1>1, <1>2, <1>3, <1>4, <1>5, ZeroFacts
<1>9. /\ e2 \in Entries
      /\ Present(e2) => Present(e3) /\ e2.frame \in Frames /\ lv[e2.frame] = 1
  BY <1>1, <1>2, <1>3, <1>8, <1>6, ZeroFacts
<1>10. e1 \in Entries /\ (Present(e1) => Present(e2))
  BY <1>1, <1>2, <1>9, <1>7, ZeroFacts, Zenon
<1> QED
  BY <1>4, <1>8, <1>9, <1>10, Zenon DEF e4, e3, e2, e1

\* Two walks that come to the same page table have the same indices on the way,
\* and start from the same root unless they are in the high half.
LEMMA SameTable ==
  ASSUME NEW m, NEW free, NEW lv, Sound(m, free, lv),
         NEW r \in Frames, lv[r] = 4, NEW va \in Nat,
         NEW q \in Frames, lv[q] = 4, NEW w \in Nat,
         Present(Entry2(m, r, va)), Present(Entry2(m, q, w)),
         Entry2(m, r, va).frame = Entry2(m, q, w).frame
  PROVE  /\ PML4_INDEX(va) = PML4_INDEX(w) /\ PDPT_INDEX(va) = PDPT_INDEX(w)
         /\ PD_INDEX(va) = PD_INDEX(w)
         /\ r = q \/ PML4_INDEX(va) \in High
<1>1. /\ PML4_INDEX(va) \in Idx /\ PDPT_INDEX(va) \in Idx /\ PD_INDEX(va) \in Idx
      /\ PML4_INDEX(w) \in Idx /\ PDPT_INDEX(w) \in Idx /\ PD_INDEX(w) \in Idx
  BY IndexTypes, Zenon
<1>2. ASSUME NEW t \in Frames, NEW u \in Frames, NEW i \in Idx, NEW j \in Idx,
             lv[t] >= 2, Present(m[t][i]), lv[u] >= 2, Present(m[u][j]),
             m[t][i].frame = m[u][j].frame
      PROVE  i = j /\ (t = u \/ (lv[t] = 4 /\ i \in High))
  BY <1>2, Zenon DEF Sound, IsTree
<1>3. /\ Present(Entry4(m, r, va)) /\ Present(Entry4(m, q, w))
      /\ Present(Entry3(m, r, va)) /\ Present(Entry3(m, q, w))
      /\ Entry4(m, r, va).frame \in Frames /\ lv[Entry4(m, r, va).frame] = 3
      /\ Entry4(m, q, w).frame \in Frames /\ lv[Entry4(m, q, w).frame] = 3
      /\ Entry3(m, r, va).frame \in Frames /\ lv[Entry3(m, r, va).frame] = 2
      /\ Entry3(m, q, w).frame \in Frames /\ lv[Entry3(m, q, w).frame] = 2
  BY WalkFacts
<1>4. /\ Entry2(m, r, va) = m[Entry3(m, r, va).frame][PD_INDEX(va)]
      /\ Entry2(m, q, w) = m[Entry3(m, q, w).frame][PD_INDEX(w)]
  BY <1>3, Zenon DEF Entry2, Below
<1>5. /\ Entry3(m, r, va) = m[Entry4(m, r, va).frame][PDPT_INDEX(va)]
      /\ Entry3(m, q, w) = m[Entry4(m, q, w).frame][PDPT_INDEX(w)]
  BY <1>3, Zenon DEF Entry3, Below
<1>6. PD_INDEX(va) = PD_INDEX(w) /\ Entry3(m, r, va).frame = Entry3(m, q, w).frame
  BY <1>1, <1>2, <1>3, <1>4
<1>7. PDPT_INDEX(va) = PDPT_INDEX(w) /\ Entry4(m, r, va).frame = Entry4(m, q, w).frame
  BY <1>1, <1>2, <1>3, <1>5, <1>6
<1>8. PML4_INDEX(va) = PML4_INDEX(w) /\ (r = q \/ PML4_INDEX(va) \in High)
  BY <1>1, <1>2, <1>3, <1>7 DEF Entry4
<1> QED
  BY <1>6, <1>7, <1>8, Zenon

-----------------------------------------------------------------------------
(* Writing one entry. *)

\* A page that is no table may be overwritten: alloc_page_table zeroes a page
\* that the allocator gave it.
LEMMA WriteFree ==
  ASSUME NEW m, NEW free, NEW lv, Sound(m, free, lv),
         NEW t \in Frames, lv[t] = 0, NEW x \in [Idx -> Entries]
  PROVE  LET m2 == [m EXCEPT ![t] = x] IN
         /\ Sound(m2, free, lv)
         /\ \A f \in Frames : f # t => m2[f] = m[f]
         /\ \A r \in Frames, va \in Nat : lv[r] = 4 => Path(m2, r, va) = Path(m, r, va)
<1> DEFINE m2 == [m EXCEPT ![t] = x]
<1>1. m2 \in Memories /\ m2[t] = x /\ \A f \in Frames : f # t => m2[f] = m[f]
  BY Zenon DEF Sound, Memories
<1> HIDE DEF m2
<1>2. \A f \in Frames : lv[f] >= 1 => m2[f] = m[f]
  BY <1>1
<1>3. IsTree(m2, free, lv)
  BY <1>2 DEF Sound, IsTree
<1>4. ASSUME NEW r \in Frames, NEW va \in Nat, lv[r] = 4
      PROVE  Path(m2, r, va) = Path(m, r, va)
  <2>1. Entry4(m2, r, va) = Entry4(m, r, va)
    BY <1>2, <1>4 DEF Entry4
  <2>2. Entry3(m2, r, va) = Entry3(m, r, va)
    BY <1>2, <1>4, <2>1, WalkFacts DEF Entry3, Below
  <2>3. Entry2(m2, r, va) = Entry2(m, r, va)
    BY <1>2, <1>4, <2>2, WalkFacts DEF Entry2, Below
  <2>4. Entry1(m2, r, va) = Entry1(m, r, va)
    BY <1>2, <1>4, <2>3, WalkFacts DEF Entry1, Below
  <2> QED
    BY <2>1, <2>2, <2>3, <2>4, PathEntries, Zenon
<1> QED
  BY <1>1, <1>3, <1>4, Zenon DEF Sound, m2

Flags == {"P", "W", "U", "G", "NX"}

\* m2 is m with the entry at index i of table u set to e.
Written(m, u, i, e, m2) ==
  /\ m2 \in Memories
  /\ m2[u][i] = e
  /\ \A f \in Frames, j \in Idx : f # u \/ j # i => m2[f][j] = m[f][j]

LEMMA WriteEntry ==
  ASSUME NEW m \in Memories, NEW u \in Frames, NEW i \in Idx, NEW e \in Entries
  PROVE  /\ Written(m, u, i, e, [m EXCEPT ![u][i] = e])
         /\ e = m[u][i] => [m EXCEPT ![u][i] = e] = m
  BY Zenon DEF Memories, Written

\* A zeroed page entered as a table, as after alloc_page_table: the tree has one
\* more table and no address is mapped differently.
LEMMA AddTable ==
  ASSUME NEW m, NEW free, NEW lv, Sound(m, free, lv),
         NEW u \in Frames, lv[u] >= 2, NEW i \in Idx, ~Present(m[u][i]),
         NEW t \in Frames \ free, lv[t] = 0, m[t] = EmptyTable,
         NEW e \in Entries, Present(e), e.frame = t,
         NEW m2, Written(m, u, i, e, m2),
         NEW lv2 \in [Frames -> 0 .. 4], lv2[t] = lv[u] - 1,
         \A f \in Frames : f # t => lv2[f] = lv[f]
  PROVE  /\ Sound(m2, free, lv2)
         /\ \A r \in Frames, va \in Nat : lv[r] = 4 =>
              /\ Leaf(m2, r, va) = Leaf(m, r, va)
              /\ Present(Leaf(m, r, va)) => Path(m2, r, va) = Path(m, r, va)
<1>1. e \in Entries /\ Present(e) /\ e.frame = t
  BY Zenon
<1>2. t # u
  BY DEF Sound
<1>3. /\ m2 \in Memories /\ m2[u][i] = e
      /\ \A f \in Frames, j \in Idx : f # u \/ j # i => m2[f][j] = m[f][j]
  BY Zenon DEF Written
<1>4. \A j \in Idx : m2[t][j] = Zero
  BY <1>2, <1>3 DEF EmptyTable
<1>5. /\ lv2 \in [Frames -> 0 .. 4] /\ lv2[t] = lv[u] - 1
      /\ \A f \in Frames : f # t => lv2[f] = lv[f]
  BY Zenon
<1>6. ASSUME NEW f \in Frames, NEW j \in Idx, lv[f] >= 2, Present(m[f][j])
      PROVE  m[f][j].frame \in Frames /\ lv[m[f][j].frame] = lv[f] - 1 /\ m[f][j].frame # t
  <2>1. m[f][j].frame \in Frames /\ lv[m[f][j].frame] = lv[f] - 1
    BY <1>6, Zenon DEF Sound, IsTree
  <2> QED
    BY <1>6, <2>1 DEF Sound
<1>7. ASSUME NEW f \in Frames, NEW j \in Idx, lv2[f] >= 2, Present(m2[f][j])
      PROVE  \/ f = u /\ j = i /\ m2[f][j] = e
             \/ /\ m2[f][j] = m[f][j] /\ lv2[f] = lv[f] /\ (f # u \/ j # i)
                /\ m[f][j].frame \in Frames /\ lv[m[f][j].frame] = lv[f] - 1
                /\ m[f][j].frame # t
  <2>1. f # t
    BY <1>4, <1>7, ZeroFacts, Zenon
  <2>2. lv2[f] = lv[f]
    BY <1>5, <2>1, Zenon
  <2> QED
    BY <1>3, <1>6, <1>7, <2>2
<1>8. IsTree(m2, free, lv2)
  <2>1. \A f \in free : lv2[f] = 0
    BY <1>5, Zenon DEF Sound, IsTree
  <2>2. ASSUME NEW f \in Frames, NEW j \in Idx, lv2[f] >= 2, Present(m2[f][j])
        PROVE  m2[f][j].frame \in Frames /\ lv2[m2[f][j].frame] = lv2[f] - 1
    BY <1>1, <1>2, <1>5, <1>7, <2>2
  <2>3. ASSUME NEW f \in Frames, NEW g \in Frames, NEW j \in Idx, NEW k \in Idx,
               lv2[f] >= 2, Present(m2[f][j]), lv2[g] >= 2, Present(m2[g][k]),
               m2[f][j].frame = m2[g][k].frame
        PROVE  j = k /\ (f = g \/ (lv2[f] = 4 /\ lv2[g] = 4 /\ j \in High))
    <3>1. CASE f = u /\ j = i /\ m2[f][j] = e
      BY <1>1, <1>7, <2>3, <3>1
    <3>2. CASE g = u /\ k = i /\ m2[g][k] = e
      BY <1>1, <1>7, <2>3, <3>2
    <3>3. CASE /\ m2[f][j] = m[f][j] /\ lv2[f] = lv[f]
               /\ m2[g][k] = m[g][k] /\ lv2[g] = lv[g]
      BY <2>3, <3>3 DEF Sound, IsTree
    <3> QED
      BY <1>7, <2>3, <3>1, <3>2, <3>3
  <2> QED
    BY <2>1, <2>2, <2>3, Zenon DEF IsTree
<1>9. Sound(m2, free, lv2)
  BY <1>3, <1>5, <1>8, Zenon DEF Sound
<1>10. ASSUME NEW r \in Frames, NEW va \in Nat, lv[r] = 4
       PROVE  /\ Leaf(m2, r, va) = Leaf(m, r, va)
              /\ Present(Leaf(m, r, va)) => Path(m2, r, va) = Path(m, r, va)
  <2> DEFINE same(a, b) == a = b \/ (~Present(b) /\ Present(a) /\ a.frame = t)
  <2>1. /\ PML4_INDEX(va) \in Idx /\ PDPT_INDEX(va) \in Idx
        /\ PD_INDEX(va) \in Idx /\ PT_INDEX(va) \in Idx
    BY IndexTypes, Zenon
  <2>2. ASSUME NEW f \in Frames, NEW j \in Idx PROVE same(m2[f][j], m[f][j])
    BY <1>1, <1>3, Zenon
  <2>3. same(Entry4(m2, r, va), Entry4(m, r, va))
    BY <2>1, <2>2, Zenon DEF Entry4
  <2>4. same(Entry3(m2, r, va), Entry3(m, r, va))
    BY <1>4, <1>10, <2>1, <2>2, <2>3, WalkFacts DEF Entry3, Below
  <2>5. same(Entry2(m2, r, va), Entry2(m, r, va))
    BY <1>4, <1>10, <2>1, <2>2, <2>4, WalkFacts DEF Entry2, Below
  <2>6. Entry1(m2, r, va) = Entry1(m, r, va)
    <3>1. CASE Entry2(m2, r, va) = Entry2(m, r, va) /\ Present(Entry2(m, r, va))
      <4>1. Entry2(m, r, va).frame \in Frames /\ Entry2(m, r, va).frame # u
        BY <1>10, <3>1, WalkFacts
      <4> QED
        BY <1>3, <2>1, <3>1, <4>1 DEF Entry1, Below
    <3>2. CASE ~Present(Entry2(m, r, va))
      BY <1>4, <2>1, <2>5, <3>2, Zenon DEF Entry1, Below
    <3> QED
      BY <2>5, <3>1, <3>2, Zenon
  <2> QED
    BY <1>10, <2>3, <2>4, <2>5, <2>6, WalkFacts, PathEntries
<1> QED
  BY <1>9, <1>10, Zenon

\* An entry of a page table written, as the last line of vmm_map_page or the
\* clearing in vmm_unmap_page does: the walks that come to it, and no other, see
\* the new entry.
LEMMA WriteLeaf ==
  ASSUME NEW m, NEW free, NEW lv, Sound(m, free, lv),
         NEW u \in Frames, lv[u] = 1, NEW i \in Idx, NEW e \in Entries,
         NEW m2, Written(m, u, i, e, m2)
  PROVE  /\ Sound(m2, free, lv)
         /\ \A r \in Frames, va \in Nat : lv[r] = 4 =>
              /\ Entry4(m2, r, va) = Entry4(m, r, va)
              /\ Entry3(m2, r, va) = Entry3(m, r, va)
              /\ Entry2(m2, r, va) = Entry2(m, r, va)
              /\ Entry1(m2, r, va) =
                   IF /\ Present(Entry2(m, r, va)) /\ Entry2(m, r, va).frame = u
                      /\ PT_INDEX(va) = i
                   THEN e ELSE Entry1(m, r, va)
<1>2. /\ m2 \in Memories /\ m2[u][i] = e
      /\ \A f \in Frames, j \in Idx : f # u \/ j # i => m2[f][j] = m[f][j]
  BY Zenon DEF Written
<1>3. \A f \in Frames, j \in Idx : lv[f] >= 2 => m2[f][j] = m[f][j]
  BY <1>2
<1>4. IsTree(m2, free, lv)
  BY <1>3 DEF Sound, IsTree
<1>5. ASSUME NEW r \in Frames, NEW va \in Nat, lv[r] = 4
      PROVE  /\ Entry4(m2, r, va) = Entry4(m, r, va)
             /\ Entry3(m2, r, va) = Entry3(m, r, va)
             /\ Entry2(m2, r, va) = Entry2(m, r, va)
             /\ Entry1(m2, r, va) =
                  IF /\ Present(Entry2(m, r, va)) /\ Entry2(m, r, va).frame = u
                     /\ PT_INDEX(va) = i
                  THEN e ELSE Entry1(m, r, va)
  <2>1. /\ PML4_INDEX(va) \in Idx /\ PDPT_INDEX(va) \in Idx
        /\ PD_INDEX(va) \in Idx /\ PT_INDEX(va) \in Idx
    BY IndexTypes, Zenon
  <2>2. Entry4(m2, r, va) = Entry4(m, r, va)
    BY <1>3, <1>5, <2>1 DEF Entry4
  <2>3. Entry3(m2, r, va) = Entry3(m, r, va)
    BY <1>3, <1>5, <2>1, <2>2, WalkFacts DEF Entry3, Below
  <2>4. Entry2(m2, r, va) = Entry2(m, r, va)
    BY <1>3, <1>5, <2>1, <2>3, WalkFacts DEF Entry2, Below
  <2>5. Entry1(m2, r, va) =
          IF /\ Present(Entry2(m, r, va)) /\ Entry2(m, r, va).frame = u
             /\ PT_INDEX(va) = i
          THEN e ELSE Entry1(m, r, va)
    BY <1>2, <1>5, <2>1, <2>4, WalkFacts DEF Entry1, Below
  <2> QED
    BY <2>2, <2>3, <2>4, <2>5, Zenon
<1> QED
  BY <1>2, <1>4, <1>5, Zenon DEF Sound

\* An entry of an upper table with other flags, as user_as.c sets U on the way
\* down: the same tables, and the same page table entries.
LEMMA AddFlags ==
  ASSUME NEW m, NEW free, NEW lv, Sound(m, free, lv),
         NEW u \in Frames, lv[u] >= 2, NEW i \in Idx, Present(m[u][i]),
         NEW e \in Entries, Present(e), e.frame = m[u][i].frame,
         NEW m2, Written(m, u, i, e, m2)
  PROVE  /\ Sound(m2, free, lv)
         /\ \A r \in Frames, va \in Nat : lv[r] = 4 => Leaf(m2, r, va) = Leaf(m, r, va)
<1>1. ASSUME NEW f \in Frames, NEW j \in Idx
      PROVE  /\ Present(m2[f][j]) <=> Present(m[f][j])
             /\ m2[f][j].frame = m[f][j].frame
             /\ lv[f] = 1 => m2[f][j] = m[f][j]
  BY DEF Written
<1>2. IsTree(m2, free, lv)
  <2>1. \A f \in free : lv[f] = 0
    BY Zenon DEF Sound, IsTree
  <2>2. ASSUME NEW f \in Frames, NEW j \in Idx, lv[f] >= 2, Present(m2[f][j])
        PROVE  m2[f][j].frame \in Frames /\ lv[m2[f][j].frame] = lv[f] - 1
    BY <1>1, <2>2 DEF Sound, IsTree
  <2>3. ASSUME NEW f \in Frames, NEW g \in Frames, NEW j \in Idx, NEW k \in Idx,
               lv[f] >= 2, Present(m2[f][j]), lv[g] >= 2, Present(m2[g][k]),
               m2[f][j].frame = m2[g][k].frame
        PROVE  j = k /\ (f = g \/ (lv[f] = 4 /\ lv[g] = 4 /\ j \in High))
    BY <1>1, <2>3 DEF Sound, IsTree
  <2> QED
    BY <2>1, <2>2, <2>3, Zenon DEF IsTree
<1>3. ASSUME NEW r \in Frames, NEW va \in Nat, lv[r] = 4
      PROVE  Leaf(m2, r, va) = Leaf(m, r, va)
  <2> DEFINE same(a, b) == (Present(a) <=> Present(b)) /\ (Present(b) => a.frame = b.frame)
  <2>1. /\ PML4_INDEX(va) \in Idx /\ PDPT_INDEX(va) \in Idx
        /\ PD_INDEX(va) \in Idx /\ PT_INDEX(va) \in Idx
    BY IndexTypes, Zenon
  <2>2. same(Entry4(m2, r, va), Entry4(m, r, va))
    BY <1>1, <2>1, Zenon DEF Entry4
  <2>3. same(Entry3(m2, r, va), Entry3(m, r, va))
    BY <1>1, <1>3, <2>1, <2>2, WalkFacts DEF Entry3, Below
  <2>4. same(Entry2(m2, r, va), Entry2(m, r, va))
    BY <1>1, <1>3, <2>1, <2>3, WalkFacts DEF Entry2, Below
  <2>5. Entry1(m2, r, va) = Entry1(m, r, va)
    BY <1>1, <1>3, <2>1, <2>4, WalkFacts DEF Entry1, Below
  <2> QED
    BY <2>5, PathEntries, Zenon
<1> QED
  BY <1>2, <1>3, Zenon DEF Sound, Written

-----------------------------------------------------------------------------
(* The pages of the allocator. *)

IsPool(p) ==
  /\ p \in Seq(Frames)
  /\ \A j, k \in DOMAIN p : p[j] = p[k] => j = k

\* pmm_alloc_page takes one page out of the free ones.
LEMMA TakePage ==
  ASSUME NEW p, IsPool(p), p # <<>>
  PROVE  /\ Head(p) \in Frames /\ Head(p) \in PagesOf(p)
         /\ IsPool(Tail(p))
         /\ PagesOf(Tail(p)) = PagesOf(p) \ {Head(p)}
<1>1. /\ Len(p) \in Nat /\ Len(p) >= 1 /\ DOMAIN p = 1 .. Len(p)
      /\ Head(p) = p[1] /\ p[1] \in Frames
      /\ \A k \in 1 .. Len(p) : p[k] \in Frames
      /\ \A j, k \in 1 .. Len(p) : p[j] = p[k] => j = k
  BY DEF IsPool
<1>2. /\ Tail(p) \in Seq(Frames) /\ DOMAIN Tail(p) = 1 .. (Len(p) - 1)
      /\ \A k \in 1 .. (Len(p) - 1) : Tail(p)[k] = p[k + 1]
  BY <1>1 DEF IsPool
<1>3. IsPool(Tail(p))
  BY <1>1, <1>2 DEF IsPool
<1>4. ASSUME NEW x \in PagesOf(Tail(p)) PROVE x \in PagesOf(p) \ {Head(p)}
  <2>1. PICK k \in 1 .. (Len(p) - 1) : x = p[k + 1]
    BY <1>2, Zenon DEF PagesOf
  <2>2. k + 1 \in 1 .. Len(p) /\ k + 1 # 1 /\ 1 \in 1 .. Len(p)
    BY <1>1
  <2> QED
    BY <1>1, <2>1, <2>2, Zenon DEF PagesOf
<1>5. ASSUME NEW x \in PagesOf(p) \ {Head(p)} PROVE x \in PagesOf(Tail(p))
  <2>1. PICK k \in 1 .. Len(p) : x = p[k]
    BY <1>1, Zenon DEF PagesOf
  <2>2. k - 1 \in 1 .. (Len(p) - 1) /\ (k - 1) + 1 = k
    BY <1>1, <2>1
  <2>3. x = Tail(p)[k - 1]
    BY <1>2, <2>1, <2>2, Zenon
  <2> QED
    BY <1>2, <2>2, <2>3, Zenon DEF PagesOf
<1>6. PagesOf(Tail(p)) = PagesOf(p) \ {Head(p)}
  BY <1>4, <1>5, Zenon
<1>7. Head(p) \in PagesOf(p)
  BY <1>1 DEF PagesOf
<1> QED
  BY <1>1, <1>3, <1>6, <1>7, Zenon

-----------------------------------------------------------------------------
(* A level down, and a page mapped. *)

States == [mem : Memories, pool : Seq(Frames), at : Frames \cup {NoPage}]

Valid(s, lv) ==
  /\ s \in States
  /\ IsPool(s.pool)
  /\ Sound(s.mem, PagesOf(s.pool), lv)

\* t comes from s by making tables of free pages: the levels of the tables stay,
\* the entries that point to them too, and the pages are mapped as they were.
Grown(s, lv, t, lv2, add) ==
  /\ Valid(t, lv2)
  /\ PagesOf(t.pool) \subseteq PagesOf(s.pool)
  /\ \A f \in Frames : lv2[f] # lv[f] => lv2[f] \in 1 .. 3 /\ f \in PagesOf(s.pool)
  /\ \A f \in Frames, j \in Idx : lv[f] >= 2 /\ Present(s.mem[f][j]) =>
       Present(t.mem[f][j]) /\ t.mem[f][j].frame = s.mem[f][j].frame
  /\ \A r \in Frames, va \in Nat : lv[r] = 4 =>
       /\ Leaf(t.mem, r, va) = Leaf(s.mem, r, va)
       /\ add = {} /\ Present(Leaf(s.mem, r, va)) => Path(t.mem, r, va) = Path(s.mem, r, va)

LEMMA GrownReflexive ==
  ASSUME NEW s, NEW lv, Valid(s, lv), NEW add, NEW at \in Frames \cup {NoPage}
  PROVE  Grown(s, lv, [s EXCEPT !.at = at], lv, add)
<1> DEFINE t == [s EXCEPT !.at = at]
<1>1. t \in States /\ t.mem = s.mem /\ t.pool = s.pool
  BY Zenon DEF Valid, States
<1> HIDE DEF t
<1>2. Grown(s, lv, t, lv, add)
  BY <1>1, Zenon DEF Grown, Valid
<1> QED
  BY <1>2, Zenon DEF t

LEMMA GrownTransitive ==
  ASSUME NEW s, NEW lv, Valid(s, lv), NEW add, NEW t, NEW lv2, NEW u, NEW lv3,
         Grown(s, lv, t, lv2, add), Grown(t, lv2, u, lv3, add)
  PROVE  Grown(s, lv, u, lv3, add)
<1>1. /\ lv \in [Frames -> 0 .. 4] /\ lv2 \in [Frames -> 0 .. 4] /\ lv3 \in [Frames -> 0 .. 4]
      /\ Valid(u, lv3)
      /\ \A f \in PagesOf(s.pool) : lv[f] = 0
      /\ PagesOf(u.pool) \subseteq PagesOf(s.pool)
  BY Zenon DEF Grown, Valid, Sound, IsTree
<1>2. \A f \in Frames : lv[f] # 0 => lv2[f] = lv[f]
  BY <1>1, Zenon DEF Grown
<1>3. ASSUME NEW f \in Frames, lv3[f] # lv[f]
      PROVE  lv3[f] \in 1 .. 3 /\ f \in PagesOf(s.pool)
  BY <1>1, <1>3, Zenon DEF Grown
<1>4. ASSUME NEW f \in Frames, NEW j \in Idx, lv[f] >= 2, Present(s.mem[f][j])
      PROVE  Present(u.mem[f][j]) /\ u.mem[f][j].frame = s.mem[f][j].frame
  <2>1. lv2[f] >= 2
    BY <1>1, <1>2, <1>4
  <2> QED
    BY <1>4, <2>1, Zenon DEF Grown
<1>5. ASSUME NEW r \in Frames, NEW va \in Nat, lv[r] = 4
      PROVE  /\ Leaf(u.mem, r, va) = Leaf(s.mem, r, va)
             /\ add = {} /\ Present(Leaf(s.mem, r, va)) =>
                  Path(u.mem, r, va) = Path(s.mem, r, va)
  <2>1. lv2[r] = 4
    BY <1>2, <1>5
  <2> QED
    BY <1>5, <2>1, Zenon DEF Grown
<1> QED
  BY <1>1, <1>3, <1>4, <1>5, Zenon DEF Grown

\* The entries that a level down writes, from s to d: one that is present gets
\* more flags, or a page of the pool is emptied and entered, or nothing happens.
Descended(s, lv, i, new, add, d, lv2) ==
  \/ /\ Present(s.mem[s.at][i]) /\ lv2 = lv
     /\ Written(s.mem, s.at, i, [frame |-> s.mem[s.at][i].frame,
                                 flags |-> s.mem[s.at][i].flags \cup add], d.mem)
  \/ d.at = NoPage /\ d.mem = s.mem /\ lv2 = lv
  \/ /\ ~Present(s.mem[s.at][i])
     /\ d.at \in PagesOf(s.pool) /\ lv2 = [lv EXCEPT ![d.at] = lv[s.at] - 1]
     /\ d.mem[d.at] = EmptyTable
     /\ d.mem[s.at][i] = [frame |-> d.at, flags |-> new]
     /\ \A f \in Frames, j \in Idx : f # d.at /\ (f # s.at \/ j # i) =>
          d.mem[f][j] = s.mem[f][j]

\* get_or_make_table and its likes: the next table down is there, or was made
\* and is empty, or there was no page for it.
LEMMA DescendStep ==
  ASSUME NEW s, NEW lv, Valid(s, lv), s.at \in Frames, lv[s.at] >= 2, NEW i \in Idx,
         NEW new \in SUBSET Flags, "P" \in new, NEW add \in SUBSET Flags
  PROVE  LET d == Descend(s, i, new, add) IN
         \E lv2 :
           /\ Grown(s, lv, d, lv2, add)
           /\ Descended(s, lv, i, new, add, d, lv2)
           /\ d.at # NoPage =>
                /\ d.at \in Frames /\ lv2[d.at] = lv[s.at] - 1
                /\ Present(d.mem[s.at][i]) /\ d.mem[s.at][i].frame = d.at
<1> DEFINE d == Descend(s, i, new, add)
           e == s.mem[s.at][i]
           t == Head(s.pool)
<1>1. /\ s.at # NoPage /\ s.mem \in Memories /\ lv \in [Frames -> 0 .. 4]
      /\ Sound(s.mem, PagesOf(s.pool), lv)
      /\ \A f \in PagesOf(s.pool) : lv[f] = 0
  BY ZeroFacts, Zenon DEF Valid, States, Sound, IsTree
<1>5. e \in Entries
  BY <1>1, Zenon DEF Memories
<1>2. CASE Present(e)
  <2> DEFINE x == [frame |-> e.frame, flags |-> e.flags \cup add]
             m2 == [s.mem EXCEPT ![s.at][i] = x]
  <2>1. d = [mem |-> m2, pool |-> s.pool, at |-> e.frame]
    <3>0. d = Follow(s, i, add)
      BY <1>1, <1>2, Zenon DEF Descend
    <3>1. d = [s EXCEPT !.mem[s.at][i].flags = @ \cup add, !.at = e.frame]
      BY <3>0, Zenon DEF Follow
    <3>2. d = [mem |-> [s.mem EXCEPT ![s.at][i].flags = @ \cup add],
               pool |-> s.pool, at |-> e.frame]
      BY <3>1, Zenon DEF Valid, States
    <3>3. [e EXCEPT !.flags = @ \cup add] = x
      BY <1>5 DEF Entries
    <3>4. [s.mem EXCEPT ![s.at][i].flags = @ \cup add]
            = [s.mem EXCEPT ![s.at][i] = [e EXCEPT !.flags = @ \cup add]]
      BY <1>1, Zenon DEF Memories
    <3> QED
      BY <3>2, <3>3, <3>4, Zenon
  <2>2. /\ x \in Entries /\ Present(x) /\ x.frame = e.frame
        /\ add = {} => x = e
    <3> HIDE DEF e
    <3> QED
      BY <1>2, <1>5, Zenon DEF Entries, Flags, Present
  <2> HIDE DEF x
  <2>4. /\ Written(s.mem, s.at, i, x, m2)
        /\ add = {} => m2 = s.mem
    BY <1>1, <2>2, WriteEntry
  <2>3. e.frame \in Frames /\ lv[e.frame] = lv[s.at] - 1
    BY <1>1, <1>2, Zenon DEF Sound, IsTree
  <2> HIDE DEF m2
  <2>5. /\ Sound(m2, PagesOf(s.pool), lv)
        /\ \A r \in Frames, va \in Nat : lv[r] = 4 => Leaf(m2, r, va) = Leaf(s.mem, r, va)
    BY <1>1, <1>2, <2>2, <2>4, AddFlags, Zenon
  <2>6. d \in States /\ d.mem = m2 /\ d.pool = s.pool /\ d.at = e.frame
    BY <2>1, <2>3, <2>5 DEF Valid, States, Sound
  <2> HIDE DEF d
  <2>7. Valid(d, lv)
    BY <2>5, <2>6, Zenon DEF Valid
  <2>8. \A f \in Frames, j \in Idx : Present(s.mem[f][j]) =>
          Present(m2[f][j]) /\ m2[f][j].frame = s.mem[f][j].frame
    BY <2>2, <2>4, Zenon DEF Written
  <2>9. Grown(s, lv, d, lv, add)
    BY <2>4, <2>5, <2>6, <2>7, <2>8, Zenon DEF Grown
  <2>10. Descended(s, lv, i, new, add, d, lv)
    BY <1>2, <2>4, <2>6, Zenon DEF Descended, x
  <2> QED
    BY <1>2, <2>3, <2>6, <2>8, <2>9, <2>10, Zenon DEF d
<1>3. CASE ~Present(e) /\ s.pool = <<>>
  <2>1. d = [s EXCEPT !.at = NoPage]
    BY <1>1, <1>3, Zenon DEF Descend
  <2>2. d.at = NoPage /\ d.mem = s.mem
    BY <2>1, Zenon DEF Valid, States
  <2>3. Grown(s, lv, d, lv, add)
    BY <2>1, GrownReflexive
  <2>4. Descended(s, lv, i, new, add, d, lv)
    BY <2>2, Zenon DEF Descended
  <2> QED
    BY <2>2, <2>3, <2>4, Zenon
<1>4. CASE ~Present(e) /\ s.pool # <<>>
  <2> DEFINE m1 == [s.mem EXCEPT ![t] = EmptyTable]
             x == [frame |-> t, flags |-> new]
             m2 == [m1 EXCEPT ![s.at][i] = x]
             lv2 == [lv EXCEPT ![t] = lv[s.at] - 1]
  <2>1. d = [mem |-> [s.mem EXCEPT ![t] = EmptyTable,
                                   ![s.at][i] = [frame |-> t, flags |-> new]],
             pool |-> Tail(s.pool), at |-> t]
    <3>1. d = MakeTable(s, i, new)
      BY <1>1, <1>4, Zenon DEF Descend
    <3> QED
      BY <3>1, Zenon DEF MakeTable
  <2>2. d = [mem |-> m2, pool |-> Tail(s.pool), at |-> t]
    BY <2>1, Zenon
  <2>3. /\ t \in Frames /\ t \in PagesOf(s.pool) /\ IsPool(Tail(s.pool))
        /\ PagesOf(Tail(s.pool)) = PagesOf(s.pool) \ {t}
    BY <1>4, TakePage, Zenon DEF Valid
  <2> DEFINE free == PagesOf(Tail(s.pool))
  <2>4. lv[t] = 0 /\ t # s.at /\ EmptyTable \in [Idx -> Entries]
    BY <1>1, <2>3, ZeroFacts DEF EmptyTable
  <2> HIDE DEF t
  <2>5. Sound(s.mem, free, lv)
    BY <1>1, <2>3, Zenon DEF Sound, IsTree
  <2>6. /\ Sound(m1, free, lv)
        /\ \A f \in Frames : f # t => m1[f] = s.mem[f]
        /\ \A r \in Frames, va \in Nat : lv[r] = 4 => Path(m1, r, va) = Path(s.mem, r, va)
    BY <2>3, <2>4, <2>5, WriteFree
  <2>7. m1[t] = EmptyTable /\ ~Present(m1[s.at][i]) /\ t \in Frames \ free
    BY <1>1, <1>4, <2>3, <2>4, <2>6, Zenon DEF Memories
  <2>8. m1 \in Memories
    BY <2>6, Zenon DEF Sound
  <2> HIDE DEF m1, free
  <2>9. /\ x \in Entries /\ Present(x) /\ x.frame = t
    BY <2>3, TableAssumption, Zenon DEF Entries, Flags, Present
  <2> HIDE DEF x
  <2>10. Written(m1, s.at, i, x, m2)
    BY <2>8, <2>9, WriteEntry, Zenon
  <2> HIDE DEF m2
  <2>11. /\ lv2 \in [Frames -> 0 .. 4] /\ lv2[t] = lv[s.at] - 1 /\ lv2[t] \in 1 .. 3
         /\ \A f \in Frames : f # t => lv2[f] = lv[f]
    BY <1>1, <2>3
  <2> HIDE DEF lv2
  <2>12. /\ Sound(m2, free, lv2)
         /\ \A r \in Frames, va \in Nat : lv[r] = 4 =>
              /\ Leaf(m2, r, va) = Leaf(m1, r, va)
              /\ Present(Leaf(m1, r, va)) => Path(m2, r, va) = Path(m1, r, va)
    BY <2>4, <2>6, <2>7, <2>9, <2>10, <2>11, AddTable
  <2>13. d \in States /\ d.mem = m2 /\ d.pool = Tail(s.pool) /\ d.at = t
    BY <2>2, <2>3, <2>12 DEF States, IsPool, Sound
  <2> HIDE DEF d
  <2>14. Valid(d, lv2)
    BY <2>3, <2>12, <2>13, Zenon DEF Valid, free
  <2>15. ASSUME NEW f \in Frames, NEW j \in Idx, lv[f] >= 2, Present(s.mem[f][j])
         PROVE  d.mem[f][j] = s.mem[f][j]
    BY <1>4, <2>4, <2>6, <2>10, <2>13, <2>15 DEF Written
  <2>16. ASSUME NEW r \in Frames, NEW va \in Nat, lv[r] = 4
         PROVE  /\ Leaf(d.mem, r, va) = Leaf(s.mem, r, va)
                /\ Present(Leaf(s.mem, r, va)) => Path(d.mem, r, va) = Path(s.mem, r, va)
    BY <2>6, <2>12, <2>13, <2>16 DEF Leaf
  <2>17. Grown(s, lv, d, lv2, add)
    BY <2>3, <2>11, <2>13, <2>14, <2>15, <2>16, Zenon DEF Grown
  <2>18. Present(d.mem[s.at][i]) /\ d.mem[s.at][i].frame = t
    BY <2>9, <2>10, <2>13, Zenon DEF Written
  <2>19. d.mem[t] = EmptyTable
    <3>1. d.mem[t] \in [Idx -> Entries] /\ m1[t] \in [Idx -> Entries]
      BY <2>3, <2>8, <2>10, <2>13, Zenon DEF Memories, Written
    <3>2. \A j \in Idx : d.mem[t][j] = m1[t][j]
      BY <2>3, <2>4, <2>10, <2>13, Zenon DEF Written
    <3>3. d.mem[t] = m1[t]
      BY <3>1, <3>2
    <3> QED
      BY <2>7, <3>3, Zenon
  <2>20. ASSUME NEW f \in Frames, NEW j \in Idx, f # t, f # s.at \/ j # i
         PROVE  d.mem[f][j] = s.mem[f][j]
    BY <2>6, <2>10, <2>13, <2>20, Zenon DEF Written
  <2>21. Descended(s, lv, i, new, add, d, lv2)
    <3>1. d.mem[s.at][i] = [frame |-> t, flags |-> new]
      BY <2>10, <2>13, Zenon DEF Written, x
    <3>2. lv2 = [lv EXCEPT ![t] = lv[s.at] - 1]
      BY Zenon DEF lv2
    <3> QED
      BY <1>4, <2>3, <2>13, <2>19, <2>20, <3>1, <3>2, Zenon DEF Descended
  <2> QED
    BY <2>3, <2>11, <2>13, <2>17, <2>18, <2>21, Zenon DEF d
<1> QED
  BY <1>2, <1>3, <1>4, Zenon

LEMMA DescendFacts ==
  ASSUME NEW s, NEW lv, Valid(s, lv), s.at \in Frames, lv[s.at] >= 2, NEW i \in Idx,
         NEW new \in SUBSET Flags, "P" \in new, NEW add \in SUBSET Flags
  PROVE  LET d == Descend(s, i, new, add) IN
         \E lv2 :
           /\ Grown(s, lv, d, lv2, add)
           /\ d.at # NoPage =>
                /\ d.at \in Frames /\ lv2[d.at] = lv[s.at] - 1
                /\ Present(d.mem[s.at][i]) /\ d.mem[s.at][i].frame = d.at
  BY DescendStep

\* Below a table that could not be made there is none.
LEMMA DescendFails ==
  ASSUME NEW s, s.at = NoPage, NEW i, NEW new, NEW add
  PROVE  Descend(s, i, new, add) = s
  BY Zenon DEF Descend

\* The walks from r to w and from root to va end at the same entry.
Meets(m, r, w, root, va) ==
  /\ Present(Entry2(m, r, w))
  /\ Entry2(m, r, w).frame = Entry2(m, root, va).frame
  /\ PT_INDEX(w) = PT_INDEX(va)

\* vmm_map_page_in and its likes: the page table of va is there at the end, or
\* there was no page for one of the tables; in both cases what was mapped is
\* mapped as before.
LEMMA DownToTable ==
  ASSUME NEW s, NEW lv, Valid(s, lv), NEW root \in Frames, lv[root] = 4, NEW va \in Nat,
         NEW new \in SUBSET Flags, "P" \in new, NEW add \in SUBSET Flags
  PROVE  LET pdpt == Descend([s EXCEPT !.at = root], PML4_INDEX(va), new, add)
             pd   == Descend(pdpt, PDPT_INDEX(va), new, add)
             pt   == Descend(pd, PD_INDEX(va), new, add)
         IN  \E lv2 :
               /\ Grown(s, lv, pt, lv2, add)
               /\ pt.at # NoPage =>
                    /\ pt.at \in Frames /\ lv2[pt.at] = 1
                    /\ Present(Entry2(pt.mem, root, va)) /\ Entry2(pt.mem, root, va).frame = pt.at
<1> DEFINE s0   == [s EXCEPT !.at = root]
           i4   == PML4_INDEX(va)
           i3   == PDPT_INDEX(va)
           i2   == PD_INDEX(va)
           pdpt == Descend(s0, i4, new, add)
           pd   == Descend(pdpt, i3, new, add)
           pt   == Descend(pd, i2, new, add)
<1>1. i4 \in Idx /\ i3 \in Idx /\ i2 \in Idx
  BY IndexTypes, Zenon
<1>2. s0.at = root /\ Grown(s, lv, s0, lv, add) /\ Valid(s0, lv)
  <2>1. s0.at = root
    BY Zenon DEF Valid, States
  <2>2. Grown(s, lv, s0, lv, add)
    BY GrownReflexive, Zenon
  <2> QED
    BY <2>1, <2>2, Zenon DEF Grown
<1> HIDE DEF s0, i4, i3, i2
<1>3. PICK lv3 :
        /\ Grown(s0, lv, pdpt, lv3, add)
        /\ pdpt.at # NoPage =>
             /\ pdpt.at \in Frames /\ lv3[pdpt.at] = 3
             /\ Present(pdpt.mem[root][i4]) /\ pdpt.mem[root][i4].frame = pdpt.at
  BY <1>1, <1>2, DescendFacts
<1> HIDE DEF pdpt
<1>4. Grown(s, lv, pdpt, lv3, add)
  BY <1>2, <1>3, GrownTransitive, Zenon
<1>5. CASE pdpt.at = NoPage
  <2>1. pt = pdpt
    BY <1>5, DescendFails
  <2> QED
    BY <1>4, <1>5, <2>1, Zenon DEF pdpt, s0, i4, i3, i2
<1>6. CASE pdpt.at # NoPage
  <2>1. Valid(pdpt, lv3) /\ lv3[pdpt.at] = 3 /\ pdpt.at \in Frames
    BY <1>3, <1>6, Zenon DEF Grown
  <2>2. PICK lv2 :
          /\ Grown(pdpt, lv3, pd, lv2, add)
          /\ pd.at # NoPage =>
               /\ pd.at \in Frames /\ lv2[pd.at] = 2
               /\ Present(pd.mem[pdpt.at][i3]) /\ pd.mem[pdpt.at][i3].frame = pd.at
    BY <1>1, <2>1, DescendFacts
  <2> HIDE DEF pd
  <2>3. Grown(s, lv, pd, lv2, add)
    BY <1>4, <2>2, GrownTransitive, Zenon
  <2>4. CASE pd.at = NoPage
    <3>1. pt = pd
      BY <2>4, DescendFails, Zenon
    <3> QED
      BY <2>3, <2>4, <3>1, Zenon DEF pd, pdpt, s0, i4, i3, i2
  <2>5. CASE pd.at # NoPage
    <3>1. Valid(pd, lv2) /\ lv2[pd.at] = 2 /\ pd.at \in Frames
      BY <2>2, <2>5, Zenon DEF Grown
    <3>2. PICK lv1 :
            /\ Grown(pd, lv2, pt, lv1, add)
            /\ pt.at # NoPage =>
                 /\ pt.at \in Frames /\ lv1[pt.at] = 1
                 /\ Present(pt.mem[pd.at][i2]) /\ pt.mem[pd.at][i2].frame = pt.at
      BY <1>1, <3>1, DescendFacts
    <3> HIDE DEF pt
    <3>3. Grown(s, lv, pt, lv1, add)
      BY <2>3, <3>2, GrownTransitive, Zenon
    <3>4. ASSUME pt.at # NoPage
          PROVE  Present(Entry2(pt.mem, root, va)) /\ Entry2(pt.mem, root, va).frame = pt.at
      <4>1. lv3[root] = 4 /\ lv2[root] = 4
        <5>1. root \notin PagesOf(s.pool)
          BY DEF Valid, Sound, IsTree
        <5> QED
          BY <1>4, <2>3, <5>1, Zenon DEF Grown
      <4>2. lv2[pdpt.at] = 3
        <5>1. pdpt.at \notin PagesOf(pdpt.pool)
          BY <2>1 DEF Valid, Sound, IsTree
        <5> QED
          BY <2>1, <2>2, <5>1, Zenon DEF Grown
      <4>3. Present(pd.mem[root][i4]) /\ pd.mem[root][i4].frame = pdpt.at
        BY <1>1, <1>3, <1>6, <2>2, <4>1 DEF Grown
      <4>4. Present(pt.mem[root][i4]) /\ pt.mem[root][i4].frame = pdpt.at
        BY <1>1, <3>2, <4>1, <4>3 DEF Grown
      <4>5. Present(pt.mem[pdpt.at][i3]) /\ pt.mem[pdpt.at][i3].frame = pd.at
        BY <1>1, <2>1, <2>2, <2>5, <3>2, <4>2 DEF Grown
      <4>6. Present(pt.mem[pd.at][i2]) /\ pt.mem[pd.at][i2].frame = pt.at
        BY <3>2, <3>4, Zenon
      <4> QED
        BY <4>4, <4>5, <4>6, Zenon DEF Entry4, Entry3, Entry2, Below, i4, i3, i2
    <3> QED
      BY <3>2, <3>3, <3>4, Zenon DEF pt, pd, pdpt, s0, i4, i3, i2
  <2> QED
    BY <2>4, <2>5, Zenon
<1> QED
  BY <1>5, <1>6, Zenon

\* A mapping made, or not, on the way from s to t: it is seen by the walks that
\* meet its entry, and the others see what they saw.
MapEffect(s, lv, root, va, leaf, add, t, lv2) ==
  /\ Valid(t, lv2)
  /\ PagesOf(t.pool) \subseteq PagesOf(s.pool)
  /\ \A f \in Frames : lv2[f] # lv[f] => lv2[f] \in 1 .. 3 /\ f \in PagesOf(s.pool)
  /\ Ok(t) => Present(Entry2(t.mem, root, va))
  /\ \A r \in Frames, w \in Nat : lv[r] = 4 =>
       /\ Leaf(t.mem, r, w) =
            IF Ok(t) /\ Meets(t.mem, r, w, root, va) THEN leaf ELSE Leaf(s.mem, r, w)
       /\ add = {} /\ Present(Leaf(s.mem, r, w))
            /\ ~(Ok(t) /\ Meets(t.mem, r, w, root, va)) =>
              Path(t.mem, r, w) = Path(s.mem, r, w)

LEMMA MapInFacts ==
  ASSUME NEW s, NEW lv, Valid(s, lv), NEW root \in Frames, lv[root] = 4, NEW va \in Nat,
         NEW leaf \in Entries,
         NEW new \in SUBSET Flags, "P" \in new, NEW add \in SUBSET Flags,
         NEW t, t = MapIn(s, root, va, leaf, new, add)
  PROVE  \E lv2 : MapEffect(s, lv, root, va, leaf, add, t, lv2)
<1> DEFINE pt == Descend(Descend(Descend([s EXCEPT !.at = root], PML4_INDEX(va), new, add),
                                 PDPT_INDEX(va), new, add), PD_INDEX(va), new, add)
<1>1. t = IF pt.at = NoPage THEN pt ELSE [pt EXCEPT !.mem[pt.at][PT_INDEX(va)] = leaf]
  BY Zenon DEF MapIn
<1>2. PICK lv2 :
        /\ Grown(s, lv, pt, lv2, add)
        /\ pt.at # NoPage =>
             /\ pt.at \in Frames /\ lv2[pt.at] = 1
             /\ Present(Entry2(pt.mem, root, va)) /\ Entry2(pt.mem, root, va).frame = pt.at
  BY DownToTable
<1> HIDE DEF pt
<1>3. CASE pt.at = NoPage
  <2>1. t = pt /\ ~Ok(t)
    BY <1>1, <1>3, Zenon DEF Ok
  <2> QED
    BY <1>2, <2>1, Zenon DEF Grown, MapEffect
<1>4. CASE pt.at # NoPage
  <2> DEFINE m2 == [pt.mem EXCEPT ![pt.at][PT_INDEX(va)] = leaf]
  <2>1. /\ Valid(pt, lv2) /\ pt \in States /\ Sound(pt.mem, PagesOf(pt.pool), lv2)
        /\ pt.mem \in Memories /\ PT_INDEX(va) \in Idx
    BY <1>2, IndexTypes, Zenon DEF Grown, Valid, Sound
  <2>2. t = [mem |-> m2, pool |-> pt.pool, at |-> pt.at]
    BY <1>1, <1>4, <2>1, Zenon DEF States
  <2>3. Written(pt.mem, pt.at, PT_INDEX(va), leaf, m2)
    BY <1>2, <1>4, <2>1, WriteEntry, Zenon
  <2> HIDE DEF m2
  <2>4. /\ Sound(m2, PagesOf(pt.pool), lv2)
        /\ \A r \in Frames, w \in Nat : lv2[r] = 4 =>
             /\ Entry4(m2, r, w) = Entry4(pt.mem, r, w)
             /\ Entry3(m2, r, w) = Entry3(pt.mem, r, w)
             /\ Entry2(m2, r, w) = Entry2(pt.mem, r, w)
             /\ Entry1(m2, r, w) =
                  IF /\ Present(Entry2(pt.mem, r, w)) /\ Entry2(pt.mem, r, w).frame = pt.at
                     /\ PT_INDEX(w) = PT_INDEX(va)
                  THEN leaf ELSE Entry1(pt.mem, r, w)
    BY <1>2, <1>4, <2>1, <2>3, WriteLeaf
  <2>5. /\ t \in States /\ t.mem = m2 /\ t.pool = pt.pool /\ Ok(t)
    BY <1>4, <2>1, <2>2, <2>4 DEF States, Sound, Ok
  <2>6. Valid(t, lv2)
    BY <2>1, <2>4, <2>5, Zenon DEF Valid
  <2>7. \A r \in Frames : lv[r] = 4 => lv2[r] = 4
    <3>1. \A r \in Frames : lv[r] = 4 => r \notin PagesOf(s.pool)
      BY DEF Valid, Sound, IsTree
    <3> QED
      BY <1>2, <3>1, Zenon DEF Grown
  <2>8. Entry2(t.mem, root, va) = Entry2(pt.mem, root, va)
    BY <2>4, <2>5, <2>7, Zenon
  <2>9. ASSUME NEW r \in Frames, NEW w \in Nat, lv[r] = 4
        PROVE  /\ Leaf(t.mem, r, w) =
                    IF Meets(t.mem, r, w, root, va) THEN leaf ELSE Leaf(s.mem, r, w)
               /\ add = {} /\ Present(Leaf(s.mem, r, w)) /\ ~Meets(t.mem, r, w, root, va) =>
                    Path(t.mem, r, w) = Path(s.mem, r, w)
    <3>1. /\ Leaf(pt.mem, r, w) = Leaf(s.mem, r, w)
          /\ add = {} /\ Present(Leaf(s.mem, r, w)) => Path(pt.mem, r, w) = Path(s.mem, r, w)
      BY <1>2, <2>9, Zenon DEF Grown
    <3>2. /\ Entry4(t.mem, r, w) = Entry4(pt.mem, r, w)
          /\ Entry3(t.mem, r, w) = Entry3(pt.mem, r, w)
          /\ Entry2(t.mem, r, w) = Entry2(pt.mem, r, w)
          /\ Entry1(t.mem, r, w) =
               IF Meets(t.mem, r, w, root, va) THEN leaf ELSE Entry1(pt.mem, r, w)
      BY <1>2, <1>4, <2>4, <2>5, <2>7, <2>8, <2>9, Zenon DEF Meets
    <3>3. ~Meets(t.mem, r, w, root, va) => Path(t.mem, r, w) = Path(pt.mem, r, w)
      BY <3>2, PathEntries
    <3> QED
      BY <3>1, <3>2, <3>3, PathEntries
  <2> QED
    BY <1>2, <1>4, <2>5, <2>6, <2>8, <2>9, Zenon DEF Grown, MapEffect
<1> QED
  BY <1>3, <1>4, Zenon

-----------------------------------------------------------------------------
(* The loops. *)

Vas == 0 .. (B * B * B * B - 1)

\* Between m and m2 the mappings of the addresses in S may have changed, and
\* those of no other address in no address space.
Changed(lv, m, m2, S, add) ==
  \A r \in Frames, w \in Vas : lv[r] = 4 /\ w \notin S =>
    /\ Leaf(m2, r, w) = Leaf(m, r, w)
    /\ add = {} /\ Present(Leaf(m, r, w)) => Path(m2, r, w) = Path(m, r, w)

\* Tables were made of pages that were free.
NewTables(lv, lv2, free) ==
  \A f \in Frames : lv2[f] # lv[f] => lv2[f] \in 1 .. 3 /\ f \in free

LEMMA VasAreNumbers == \A w \in Vas : w \in Nat
<1>1. B * B * B * B \in Nat
  BY TableAssumption
<1> QED
  BY <1>1 DEF Vas

\* The roots stay the roots when tables are made.
LEMMA RootsStay ==
  ASSUME NEW m, NEW free, NEW lv, Sound(m, free, lv), NEW lv2, NewTables(lv, lv2, free),
         NEW r \in Frames
  PROVE  lv2[r] = 4 <=> lv[r] = 4
  BY DEF Sound, IsTree, NewTables

LEMMA ChangedTransitive ==
  ASSUME NEW lv, NEW lv2, NEW m, NEW m2, NEW m3, NEW S, NEW T, NEW add,
         \A r \in Frames : lv[r] = 4 => lv2[r] = 4,
         Changed(lv, m, m2, S, add), Changed(lv2, m2, m3, T, add)
  PROVE  Changed(lv, m, m3, S \cup T, add)
<1> SUFFICES ASSUME NEW r \in Frames, NEW w \in Vas, lv[r] = 4, w \notin S \cup T
             PROVE  /\ Leaf(m3, r, w) = Leaf(m, r, w)
                    /\ add = {} /\ Present(Leaf(m, r, w)) => Path(m3, r, w) = Path(m, r, w)
  BY Zenon DEF Changed
<1>1. lv2[r] = 4 /\ w \notin S /\ w \notin T
  BY Zenon
<1> QED
  BY <1>1, Zenon DEF Changed

\* One call of vmm_map_page or of a function like it maps its page or fails, and
\* changes no other mapping.
LEMMA MapOne ==
  ASSUME NEW s, NEW lv, Valid(s, lv), NEW root \in Frames, lv[root] = 4, NEW va \in Vas,
         NEW leaf \in Entries,
         NEW new \in SUBSET Flags, "P" \in new, NEW add \in SUBSET Flags,
         NEW t, t = MapIn(s, root, va, leaf, new, add)
  PROVE  \E lv2 :
           /\ Valid(t, lv2) /\ NewTables(lv, lv2, PagesOf(s.pool))
           /\ PagesOf(t.pool) \subseteq PagesOf(s.pool)
           /\ Ok(t) => Leaf(t.mem, root, va) = leaf
           /\ Changed(lv, s.mem, t.mem, IF Ok(t) THEN {va} ELSE {}, add)
<1>1. va \in Nat
  BY VasAreNumbers, Zenon
<1>2. PICK lv2 : MapEffect(s, lv, root, va, leaf, add, t, lv2)
  BY <1>1, MapInFacts, Zenon
<1>3. NewTables(lv, lv2, PagesOf(s.pool))
  BY <1>2, Zenon DEF NewTables, MapEffect
<1>4. \A r \in Frames : lv2[r] = 4 <=> lv[r] = 4
  BY <1>3, RootsStay DEF Valid
<1>5. ASSUME Ok(t) PROVE Leaf(t.mem, root, va) = leaf
  <2>1. Meets(t.mem, root, va, root, va)
    BY <1>2, <1>5, Zenon DEF Meets, MapEffect
  <2> QED
    BY <1>1, <1>2, <1>5, <2>1, Zenon DEF MapEffect
<1>6. ASSUME Ok(t), NEW r \in Frames, lv[r] = 4, NEW w \in Vas, Meets(t.mem, r, w, root, va)
      PROVE  w = va
  <2>1. w \in Nat /\ Sound(t.mem, PagesOf(t.pool), lv2) /\ lv2[r] = 4 /\ lv2[root] = 4
    BY <1>2, <1>4, <1>6, VasAreNumbers, Zenon DEF Valid, MapEffect
  <2>2. /\ PML4_INDEX(w) = PML4_INDEX(va) /\ PDPT_INDEX(w) = PDPT_INDEX(va)
        /\ PD_INDEX(w) = PD_INDEX(va)
    BY <1>1, <1>2, <1>6, <2>1, SameTable DEF Meets, MapEffect
  <2> QED
    BY <1>6, <2>2, IndicesDetermine, Zenon DEF Meets, Vas
<1>7. Changed(lv, s.mem, t.mem, IF Ok(t) THEN {va} ELSE {}, add)
  <2> SUFFICES ASSUME NEW r \in Frames, NEW w \in Vas, lv[r] = 4,
                      w \notin (IF Ok(t) THEN {va} ELSE {})
               PROVE  /\ Leaf(t.mem, r, w) = Leaf(s.mem, r, w)
                      /\ add = {} /\ Present(Leaf(s.mem, r, w)) =>
                           Path(t.mem, r, w) = Path(s.mem, r, w)
    BY Zenon DEF Changed
  <2>1. w \in Nat /\ ~(Ok(t) /\ Meets(t.mem, r, w, root, va))
    BY <1>6, VasAreNumbers, Zenon
  <2> QED
    BY <1>2, <2>1, Zenon DEF MapEffect
<1> QED
  BY <1>2, <1>3, <1>5, <1>7, Zenon DEF MapEffect

\* The loop of MapSeq, as the value of each round in terms of the one before.
SeqFirst(s) == [s |-> s, done |-> 0]

SeqRound(x, root, ms, new, add, i) ==
  LET t == MapIn(x.s, root, ms[i].va, ms[i].leaf, new, add)
  IN  IF x.done < i - 1 THEN x ELSE [s |-> t, done |-> IF Ok(t) THEN i ELSE i - 1]

IsSeqLoop(f, n, s, root, ms, new, add) ==
  f = [i \in 0 .. n |-> IF i = 0 THEN SeqFirst(s)
                        ELSE SeqRound(f[i - 1], root, ms, new, add, i)]

LEMMA SeqLoopExists ==
  ASSUME NEW n \in Nat, NEW s, NEW root, NEW ms, NEW new, NEW add
  PROVE  \E f : IsSeqLoop(f, n, s, root, ms, new, add)
<1> DEFINE round(x, i) == SeqRound(x, root, ms, new, add, i)
           first == SeqFirst(s)
           isLoop(f, k) == f = [i \in 0 .. k |-> IF i = 0 THEN first ELSE round(f[i - 1], i)]
           S == {k \in Nat : \E f : isLoop(f, k)}
<1> HIDE DEF round, first
<1>1. 0 \in S
  <2> DEFINE g == [i \in 0 .. 0 |-> first]
  <2>1. isLoop(g, 0)
    OBVIOUS
  <2> QED
    BY <2>1, Zenon
<1>2. ASSUME NEW k \in S PROVE k + 1 \in S
  <2>1. PICK f : isLoop(f, k)
    BY Zenon
  <2> DEFINE g == [i \in 0 .. (k + 1) |-> IF i = k + 1 THEN round(f[k], k + 1) ELSE f[i]]
             h == [i \in 0 .. (k + 1) |-> IF i = 0 THEN first ELSE round(g[i - 1], i)]
  <2>2. ASSUME NEW i \in 0 .. (k + 1) PROVE g[i] = h[i]
    <3>1. CASE i = 0
      BY <2>1, <3>1
    <3>2. CASE i = k + 1
      BY <3>2
    <3>3. CASE i # 0 /\ i # k + 1
      <4>1. i \in 0 .. k /\ i - 1 \in 0 .. k /\ i - 1 # k + 1
        BY <3>3
      <4>2. f[i] = round(f[i - 1], i)
        BY <2>1, <3>3, <4>1, Zenon
      <4> QED
        BY <3>3, <4>1, <4>2
    <3> QED
      BY <3>1, <3>2, <3>3, Zenon
  <2>3. isLoop(g, k + 1)
    BY <2>2, Zenon
  <2>4. \E x : isLoop(x, k + 1)
    BY <2>3, Zenon
  <2> HIDE DEF isLoop
  <2> QED
    BY <2>4
<1>3. S = Nat
  <2>1. S \in SUBSET Nat
    BY Zenon
  <2> HIDE DEF S
  <2> QED
    BY <1>1, <1>2, <2>1, Induction, Zenon
<1>4. PICK f : isLoop(f, n)
  BY <1>3, Zenon
<1> QED
  BY <1>4, Zenon DEF IsSeqLoop, round, first

\* MapSeq is the last round of such a loop.
LEMMA MapSeqLoop ==
  ASSUME NEW s, NEW root, NEW ms, Len(ms) \in Nat, NEW new, NEW add
  PROVE  \E f : /\ IsSeqLoop(f, Len(ms), s, root, ms, new, add)
                /\ MapSeq(s, root, ms, new, add) = f[Len(ms)]
<1> DEFINE step(r, i) ==
             LET t == MapIn(r.s, root, ms[i].va, ms[i].leaf, new, add)
             IN  [s |-> t, done |-> IF Ok(t) THEN i ELSE i - 1]
           body(f) == [i \in 0 .. Len(ms) |->
                        CASE i = 0 -> [s |-> s, done |-> 0]
                          [] i > 0 /\ f[i - 1].done < i - 1 -> f[i - 1]
                          [] OTHER -> step(f[i - 1], i)]
           clean(f) == [i \in 0 .. Len(ms) |-> IF i = 0 THEN SeqFirst(s)
                                   ELSE SeqRound(f[i - 1], root, ms, new, add, i)]
<1>1. ASSUME NEW f PROVE body(f) = clean(f)
  <2>1. ASSUME NEW i \in 0 .. Len(ms) PROVE body(f)[i] = clean(f)[i]
    <3>1. CASE i = 0
      BY <3>1 DEF SeqFirst
    <3>2. CASE i # 0
      BY <3>2 DEF SeqRound
    <3> QED
      BY <3>1, <3>2, Zenon
  <2> QED
    BY <2>1, Zenon
<1>2. PICK g : g = clean(g)
  <2>1. PICK g : IsSeqLoop(g, Len(ms), s, root, ms, new, add)
    BY SeqLoopExists, Zenon
  <2>2. g = clean(g)
    BY <2>1, Zenon DEF IsSeqLoop
  <2> QED
    BY <2>2, Zenon
<1>3. MapSeq(s, root, ms, new, add) = (CHOOSE f : f = body(f))[Len(ms)]
  BY Zenon DEF MapSeq
<1> HIDE DEF body, clean
<1>4. \E f : f = body(f)
  BY <1>1, <1>2, Zenon
<1> DEFINE h == CHOOSE f : f = body(f)
<1>5. h = body(h)
  BY <1>4, Zenon
<1> HIDE DEF h
<1>6. h = clean(h)
  BY <1>1, <1>5, Zenon
<1>7. MapSeq(s, root, ms, new, add) = h[Len(ms)]
  BY <1>3, Zenon DEF h
<1> QED
  BY <1>6, <1>7, Zenon DEF IsSeqLoop, clean

LEMMA NewTablesTransitive ==
  ASSUME NEW lv, NEW lv2, NEW lv3, NEW free, NEW free2, free2 \subseteq free,
         NEW m2, Sound(m2, free2, lv2),
         NewTables(lv, lv2, free), NewTables(lv2, lv3, free2)
  PROVE  NewTables(lv, lv3, free)
<1> SUFFICES ASSUME NEW f \in Frames, lv3[f] # lv[f]
             PROVE  lv3[f] \in 1 .. 3 /\ f \in free
  BY Zenon DEF NewTables
<1>1. CASE lv2[f] = lv[f]
  BY <1>1, Zenon DEF NewTables
<1>2. CASE lv2[f] # lv[f]
  <2>1. lv2[f] \in 1 .. 3 /\ f \in free
    BY <1>2, Zenon DEF NewTables
  <2>2. f \notin free2
    BY <2>1 DEF Sound, IsTree
  <2> QED
    BY <2>1, <2>2, Zenon DEF NewTables
<1> QED
  BY <1>1, <1>2, Zenon

\* Mappings of different pages.
IsMaps(ms) ==
  /\ ms \in Seq([va : Vas, leaf : Entries])
  /\ \A j, k \in DOMAIN ms : ms[j].va = ms[k].va => j = k

\* After a round of the loop: the first mappings, x.done of them, are there, and
\* nothing else is mapped differently.
SeqEffect(s, lv, root, ms, add, x, lv2) ==
  /\ x.done \in Nat
  /\ Valid(x.s, lv2) /\ NewTables(lv, lv2, PagesOf(s.pool))
  /\ PagesOf(x.s.pool) \subseteq PagesOf(s.pool)
  /\ \A k \in 1 .. x.done : Leaf(x.s.mem, root, ms[k].va) = ms[k].leaf
  /\ Changed(lv, s.mem, x.s.mem, {ms[k].va : k \in 1 .. x.done}, add)

LEMMA SeqRoundFacts ==
  ASSUME NEW s, NEW lv, Valid(s, lv), NEW root \in Frames, lv[root] = 4,
         NEW ms, IsMaps(ms), NEW new \in SUBSET Flags, "P" \in new, NEW add \in SUBSET Flags,
         NEW x, NEW lvx, SeqEffect(s, lv, root, ms, add, x, lvx),
         NEW i \in 1 .. Len(ms), x.done <= i - 1,
         NEW y, y = SeqRound(x, root, ms, new, add, i)
  PROVE  y.done <= i /\ \E lv2 : SeqEffect(s, lv, root, ms, add, y, lv2)
<1> DEFINE va == ms[i].va
           t == MapIn(x.s, root, va, ms[i].leaf, new, add)
<1>1. /\ Len(ms) \in Nat /\ DOMAIN ms = 1 .. Len(ms)
      /\ va \in Vas /\ ms[i].leaf \in Entries
      /\ \A k \in 1 .. Len(ms) : ms[k].va \in Vas
      /\ \A j, k \in 1 .. Len(ms) : ms[j].va = ms[k].va => j = k
  <2>1. ms \in Seq([va : Vas, leaf : Entries])
    BY Zenon DEF IsMaps
  <2>2. Len(ms) \in Nat /\ DOMAIN ms = 1 .. Len(ms)
    BY <2>1
  <2>3. \A k \in 1 .. Len(ms) : ms[k] \in [va : Vas, leaf : Entries]
    <3> DEFINE R == [va : Vas, leaf : Entries]
    <3>1. ms \in Seq(R)
      BY <2>1, Zenon
    <3> HIDE DEF R
    <3>2. \A k \in 1 .. Len(ms) : ms[k] \in R
      BY <2>2, <3>1
    <3> QED
      BY <3>2, Zenon DEF R
  <2>4. \A k \in 1 .. Len(ms) : ms[k].va \in Vas /\ ms[k].leaf \in Entries
    BY <2>3, Zenon
  <2> QED
    BY <2>2, <2>4, Zenon DEF IsMaps
<1>2. /\ x.done \in Nat /\ Valid(x.s, lvx) /\ NewTables(lv, lvx, PagesOf(s.pool))
      /\ PagesOf(x.s.pool) \subseteq PagesOf(s.pool)
      /\ \A k \in 1 .. x.done : Leaf(x.s.mem, root, ms[k].va) = ms[k].leaf
      /\ Changed(lv, s.mem, x.s.mem, {ms[k].va : k \in 1 .. x.done}, add)
  BY Zenon DEF SeqEffect
<1>3. y = IF x.done < i - 1 THEN x ELSE [s |-> t, done |-> IF Ok(t) THEN i ELSE i - 1]
  BY Zenon DEF SeqRound
<1>4. CASE x.done < i - 1
  BY <1>2, <1>3, <1>4
<1>5. CASE x.done = i - 1
  <2>1. \A r \in Frames : lv[r] = 4 => lvx[r] = 4
    BY <1>2, RootsStay DEF Valid
  <2>2. PICK lv2 :
          /\ Valid(t, lv2) /\ NewTables(lvx, lv2, PagesOf(x.s.pool))
          /\ PagesOf(t.pool) \subseteq PagesOf(x.s.pool)
          /\ Ok(t) => Leaf(t.mem, root, va) = ms[i].leaf
          /\ Changed(lvx, x.s.mem, t.mem, IF Ok(t) THEN {va} ELSE {}, add)
    <3> HIDE DEF va
    <3> QED
      BY <1>1, <1>2, <2>1, MapOne, Zenon
  <2> HIDE DEF t
  <2>3. y.s = t /\ y.done = IF Ok(t) THEN i ELSE i - 1
    BY <1>3, <1>5
  <2>4. NewTables(lv, lv2, PagesOf(s.pool))
    BY <1>2, <2>2, NewTablesTransitive DEF Valid
  <2>5. Changed(lv, s.mem, t.mem,
                {ms[k].va : k \in 1 .. x.done} \cup (IF Ok(t) THEN {va} ELSE {}), add)
    BY <1>2, <2>1, <2>2, ChangedTransitive, Zenon
  <2>6. {ms[k].va : k \in 1 .. x.done} \cup (IF Ok(t) THEN {va} ELSE {})
          = {ms[k].va : k \in 1 .. y.done}
    BY <1>5, <2>3
  <2>7. ASSUME NEW k \in 1 .. y.done PROVE Leaf(t.mem, root, ms[k].va) = ms[k].leaf
    <3>1. CASE Ok(t) /\ k = i
      BY <2>2, <3>1, Zenon
    <3>2. CASE ~(Ok(t) /\ k = i)
      <4>1. k \in 1 .. x.done /\ k # i /\ k \in 1 .. Len(ms)
        BY <1>1, <1>5, <2>3, <3>2
      <4>2. ms[k].va \in Vas /\ ms[k].va \notin (IF Ok(t) THEN {va} ELSE {})
        BY <1>1, <4>1, Zenon
      <4> QED
        BY <1>2, <2>1, <2>2, <4>1, <4>2, Zenon DEF Changed
    <3> QED
      BY <3>1, <3>2, Zenon
  <2>8. SeqEffect(s, lv, root, ms, add, y, lv2)
    <3>1. y.done \in Nat
      BY <1>1, <2>3
    <3>2. Changed(lv, s.mem, y.s.mem, {ms[k].va : k \in 1 .. y.done}, add)
      BY <2>3, <2>5, <2>6, Zenon
    <3>3. /\ Valid(y.s, lv2) /\ PagesOf(y.s.pool) \subseteq PagesOf(s.pool)
          /\ \A k \in 1 .. y.done : Leaf(y.s.mem, root, ms[k].va) = ms[k].leaf
      BY <1>2, <2>2, <2>3, <2>7, Zenon
    <3> QED
      BY <2>4, <3>1, <3>2, <3>3, Zenon DEF SeqEffect
  <2>9. y.done <= i
    BY <2>3
  <2>10. \E l : SeqEffect(s, lv, root, ms, add, y, l)
    BY <2>8, Zenon
  <2> QED
    BY <2>9, <2>10, Zenon
<1> QED
  BY <1>2, <1>4, <1>5

\* A sequence of mappings, up to the first that fails.
LEMMA MapSeqFacts ==
  ASSUME NEW s, NEW lv, Valid(s, lv), NEW root \in Frames, lv[root] = 4,
         NEW ms, IsMaps(ms), NEW new \in SUBSET Flags, "P" \in new, NEW add \in SUBSET Flags,
         NEW x, x = MapSeq(s, root, ms, new, add)
  PROVE  /\ x.done \in 0 .. Len(ms)
         /\ \E lv2 : SeqEffect(s, lv, root, ms, add, x, lv2)
<1>1. Len(ms) \in Nat
  BY DEF IsMaps
<1>2. PICK f : /\ IsSeqLoop(f, Len(ms), s, root, ms, new, add)
               /\ x = f[Len(ms)]
  BY <1>1, MapSeqLoop
<1> DEFINE good(i) == f[i].done <= i /\ \E lv2 : SeqEffect(s, lv, root, ms, add, f[i], lv2)
           S == {i \in Nat : i <= Len(ms) => good(i)}
<1>3. 0 \in S
  <2>1. f[0].s = s /\ f[0].done = 0
    BY <1>1, <1>2 DEF IsSeqLoop, SeqFirst
  <2>2. SeqEffect(s, lv, root, ms, add, f[0], lv)
    BY <2>1 DEF SeqEffect, NewTables, Changed
  <2> QED
    BY <2>1, <2>2
<1>4. ASSUME NEW i \in S PROVE i + 1 \in S
  <2> SUFFICES ASSUME i + 1 <= Len(ms) PROVE good(i + 1)
    OBVIOUS
  <2>1. i \in Nat /\ i + 1 \in 1 .. Len(ms) /\ (i + 1) - 1 = i /\ i + 1 \in 0 .. Len(ms)
    BY <1>1
  <2>2. good(i)
    BY <1>1, <2>1
  <2>3. f[i + 1] = SeqRound(f[i], root, ms, new, add, i + 1)
    BY <1>2, <2>1 DEF IsSeqLoop
  <2> QED
    BY <2>1, <2>2, <2>3, SeqRoundFacts, Zenon
<1>5. S = Nat
  <2>1. S \in SUBSET Nat
    BY Zenon
  <2> HIDE DEF S
  <2> QED
    BY <1>3, <1>4, <2>1, Induction, Zenon
<1>6. good(Len(ms))
  BY <1>1, <1>5
<1>7. PICK lv2 : SeqEffect(s, lv, root, ms, add, x, lv2)
  BY <1>2, <1>6, Zenon
<1>8. x.done \in 0 .. Len(ms)
  BY <1>1, <1>2, <1>6, <1>7 DEF SeqEffect
<1> QED
  BY <1>7, <1>8, Zenon

-----------------------------------------------------------------------------
(***************************************************************************)
(* vmm_unmap_page and vmm_unmap_pages.                                     *)
(***************************************************************************)

\* The pages S are unmapped in the kernel's tables, and no table is gone.  What
\* changes is the mapping of those for which the code executes invlpg.
UnmapEffect(m, free, lv, S, m2) ==
  /\ Sound(m2, free, lv)
  /\ \A w \in S : Leaf(m2, current_pml4, w) = Zero
  /\ \A w \in Vas : Entry2(m2, current_pml4, w) = Entry2(m, current_pml4, w)
  /\ Changed(lv, m, m2, Flushed(m, S), {})

LEMMA FlushedFacts ==
  ASSUME NEW m, NEW S
  PROVE  Flushed(m, S) = {w \in S : Present(Entry2(m, current_pml4, w))}
  BY PathEntries, Zenon DEF Flushed

\* vmm_unmap_page unmaps its page and leaves the other pages alone.
LEMMA UnmapOne ==
  ASSUME NEW m, NEW free, NEW lv, Sound(m, free, lv),
         current_pml4 \in Frames, lv[current_pml4] = 4, NEW va \in Vas
  PROVE  UnmapEffect(m, free, lv, {va}, UnmapPage(m, va))
<1> DEFINE e == Path(m, current_pml4, va)[3]
           m2 == UnmapPage(m, va)
           i == PT_INDEX(va)
<1>1. va \in Nat /\ \A w \in Vas : w \in Nat
  BY VasAreNumbers, Zenon
<1>2. m2 = IF Present(e) THEN [m EXCEPT ![e.frame][i] = Zero] ELSE m
  BY Zenon DEF UnmapPage
<1>3. e = Entry2(m, current_pml4, va)
  BY PathEntries, Zenon
<1> HIDE DEF e
<1>4. CASE ~Present(e)
  <2>1. m2 = m
    BY <1>2, <1>4, Zenon
  <2>2. Leaf(m, current_pml4, va) = Zero
    BY <1>4, <1>3, PathEntries, Zenon DEF Entry1, Below
  <2> HIDE DEF m2
  <2>3. Changed(lv, m, m2, Flushed(m, {va}), {})
    BY <2>1, Zenon DEF Changed
  <2>4. UnmapEffect(m, free, lv, {va}, m2)
    BY <2>1, <2>2, <2>3, Zenon DEF UnmapEffect
  <2> QED
    BY <2>4, Zenon DEF m2
<1>5. CASE Present(e)
  <2>1. e.frame \in Frames /\ lv[e.frame] = 1
    BY <1>1, <1>5, <1>3, WalkFacts
  <2>2. i \in Idx
    BY <1>1, IndexTypes, Zenon
  <2>3. Written(m, e.frame, i, Zero, m2)
    <3> HIDE DEF i
    <3>1. m \in Memories
      BY Zenon DEF Sound
    <3>2. Written(m, e.frame, i, Zero, [m EXCEPT ![e.frame][i] = Zero])
      BY <2>1, <2>2, <3>1, WriteEntry, ZeroFacts, Zenon
    <3>3. m2 = [m EXCEPT ![e.frame][i] = Zero]
      BY <1>2, <1>5, Zenon
    <3> QED
      BY <3>2, <3>3, Zenon
  <2> HIDE DEF m2
  <2>4. /\ Sound(m2, free, lv)
        /\ \A r \in Frames, w \in Nat : lv[r] = 4 =>
             /\ Entry4(m2, r, w) = Entry4(m, r, w)
             /\ Entry3(m2, r, w) = Entry3(m, r, w)
             /\ Entry2(m2, r, w) = Entry2(m, r, w)
             /\ Entry1(m2, r, w) = IF Meets(m, r, w, current_pml4, va)
                                   THEN Zero ELSE Entry1(m, r, w)
    BY <1>3, <2>1, <2>2, <2>3, WriteLeaf, ZeroFacts DEF Meets
  <2>5. Leaf(m2, current_pml4, va) = Zero
    <3>1. Meets(m, current_pml4, va, current_pml4, va)
      BY <1>5, <1>3, Zenon DEF Meets
    <3> QED
      BY <1>1, <2>4, <3>1, PathEntries, Zenon
  <2>6. ASSUME NEW r \in Frames, NEW w \in Vas, lv[r] = 4, w # va
        PROVE  ~Meets(m, r, w, current_pml4, va)
    <3> SUFFICES ASSUME Meets(m, r, w, current_pml4, va) PROVE w = va
      BY <2>6, Zenon
    <3>1. /\ PML4_INDEX(w) = PML4_INDEX(va) /\ PDPT_INDEX(w) = PDPT_INDEX(va)
          /\ PD_INDEX(w) = PD_INDEX(va)
      BY <1>1, <1>5, <1>3, <2>6, SameTable DEF Meets
    <3> QED
      BY <3>1, IndicesDetermine, Zenon DEF Meets, Vas
  <2>7. Changed(lv, m, m2, Flushed(m, {va}), {})
    <3>1. Flushed(m, {va}) = {va}
      BY <1>5, <1>3, FlushedFacts, Zenon
    <3> SUFFICES ASSUME NEW r \in Frames, NEW w \in Vas, lv[r] = 4, w # va
                 PROVE  /\ Leaf(m2, r, w) = Leaf(m, r, w)
                        /\ Path(m2, r, w) = Path(m, r, w)
      BY <3>1, Zenon DEF Changed
    <3>2. Entry1(m2, r, w) = Entry1(m, r, w)
      BY <1>1, <2>4, <2>6, Zenon
    <3> QED
      BY <1>1, <2>4, <3>2, PathEntries
  <2>8. UnmapEffect(m, free, lv, {va}, m2)
    BY <1>1, <2>4, <2>5, <2>7, Zenon DEF UnmapEffect
  <2> QED
    BY <2>8, Zenon DEF m2
<1> QED
  BY <1>4, <1>5, Zenon

\* The loop of vmm_unmap_pages.
IsUnmapLoop(f, m, va, n) ==
  f = [j \in 0 .. n |-> IF j = 0 THEN m ELSE UnmapPage(f[j - 1], va + j - 1)]

LEMMA UnmapLoopExists ==
  ASSUME NEW n \in Nat, NEW m, NEW va
  PROVE  \E f : IsUnmapLoop(f, m, va, n)
<1> DEFINE round(x, j) == UnmapPage(x, va + j - 1)
           isLoop(f, k) == f = [j \in 0 .. k |-> IF j = 0 THEN m ELSE round(f[j - 1], j)]
           S == {k \in Nat : \E f : isLoop(f, k)}
<1> HIDE DEF round
<1>1. 0 \in S
  <2> DEFINE g == [j \in 0 .. 0 |-> m]
  <2>1. isLoop(g, 0)
    OBVIOUS
  <2> QED
    BY <2>1, Zenon
<1>2. ASSUME NEW k \in S PROVE k + 1 \in S
  <2>1. PICK f : isLoop(f, k)
    BY Zenon
  <2> DEFINE g == [j \in 0 .. (k + 1) |-> IF j = k + 1 THEN round(f[k], k + 1) ELSE f[j]]
             h == [j \in 0 .. (k + 1) |-> IF j = 0 THEN m ELSE round(g[j - 1], j)]
  <2>2. ASSUME NEW j \in 0 .. (k + 1) PROVE g[j] = h[j]
    <3>1. CASE j = 0
      BY <2>1, <3>1
    <3>2. CASE j = k + 1
      BY <3>2
    <3>3. CASE j # 0 /\ j # k + 1
      <4>1. j \in 0 .. k /\ j - 1 \in 0 .. k /\ j - 1 # k + 1
        BY <3>3
      <4>2. f[j] = round(f[j - 1], j)
        BY <2>1, <3>3, <4>1, Zenon
      <4> QED
        BY <3>3, <4>1, <4>2
    <3> QED
      BY <3>1, <3>2, <3>3, Zenon
  <2>3. isLoop(g, k + 1)
    BY <2>2, Zenon
  <2>4. \E x : isLoop(x, k + 1)
    BY <2>3, Zenon
  <2> HIDE DEF isLoop
  <2> QED
    BY <2>4
<1>3. S = Nat
  <2>1. S \in SUBSET Nat
    BY Zenon
  <2> HIDE DEF S
  <2> QED
    BY <1>1, <1>2, <2>1, Induction, Zenon
<1>4. PICK f : isLoop(f, n)
  BY <1>3, Zenon
<1> QED
  BY <1>4, Zenon DEF IsUnmapLoop, round

LEMMA UnmapRunLoop ==
  ASSUME NEW n \in Nat, NEW m, NEW va
  PROVE  \E f : IsUnmapLoop(f, m, va, n) /\ UnmapRun(m, va, n) = f[n]
<1> DEFINE h == CHOOSE f : IsUnmapLoop(f, m, va, n)
<1>1. IsUnmapLoop(h, m, va, n)
  BY UnmapLoopExists, Zenon
<1>2. UnmapRun(m, va, n) = h[n]
  BY Zenon DEF UnmapRun, IsUnmapLoop
<1> QED
  BY <1>1, <1>2, Zenon

\* vmm_unmap_pages unmaps its pages and leaves the other pages alone.
LEMMA UnmapRunFacts ==
  ASSUME NEW m, NEW free, NEW lv, Sound(m, free, lv),
         current_pml4 \in Frames, lv[current_pml4] = 4,
         NEW n \in Nat, NEW va \in Nat, va .. (va + n - 1) \subseteq Vas
  PROVE  UnmapEffect(m, free, lv, va .. (va + n - 1), UnmapRun(m, va, n))
<1>1. PICK f : IsUnmapLoop(f, m, va, n) /\ UnmapRun(m, va, n) = f[n]
  BY UnmapRunLoop, Zenon
<1> DEFINE good(k) == UnmapEffect(m, free, lv, va .. (va + k - 1), f[k])
           S == {k \in Nat : k <= n => good(k)}
<1>2. 0 \in S
  <2>1. f[0] = m
    BY <1>1 DEF IsUnmapLoop
  <2>2. va .. (va + 0 - 1) = {}
    OBVIOUS
  <2>3. UnmapEffect(m, free, lv, {}, m)
    BY Zenon DEF UnmapEffect, Changed
  <2> QED
    BY <2>1, <2>2, <2>3, Zenon
<1>3. ASSUME NEW k \in S PROVE k + 1 \in S
  <2> SUFFICES ASSUME k + 1 <= n PROVE good(k + 1)
    OBVIOUS
  <2> DEFINE done == va .. (va + k - 1)
             next == va + k
             m1 == f[k]
             m2 == f[k + 1]
  <2>1. k \in Nat /\ k <= n /\ k + 1 \in 0 .. n /\ next \in Vas /\ next \in Nat
    <3>1. next \in va .. (va + n - 1)
      OBVIOUS
    <3> QED
      BY <3>1
  <2>2. UnmapEffect(m, free, lv, done, m1)
    BY <2>1, Zenon
  <2>3. m2 = UnmapPage(m1, next)
    <3>1. (k + 1) - 1 = k /\ va + (k + 1) - 1 = next
      OBVIOUS
    <3> QED
      BY <1>1, <2>1, <3>1 DEF IsUnmapLoop
  <2>4. va .. (va + (k + 1) - 1) = done \cup {next}
    BY <2>1
  <2>5. next \notin done
    BY <2>1
  <2> HIDE DEF done, next, m1, m2
  <2>6. UnmapEffect(m1, free, lv, {next}, m2)
    BY <2>1, <2>2, <2>3, UnmapOne, Zenon DEF UnmapEffect
  <2>7. Changed(lv, m, m2, Flushed(m, done \cup {next}), {})
    <3>1. Changed(lv, m, m2, Flushed(m, done) \cup Flushed(m1, {next}), {})
      BY <2>2, <2>6, ChangedTransitive, Zenon DEF UnmapEffect
    <3>2. Flushed(m, done \cup {next}) = Flushed(m, done) \cup Flushed(m1, {next})
      <4>1. Entry2(m1, current_pml4, next) = Entry2(m, current_pml4, next)
        BY <2>1, <2>2, Zenon DEF UnmapEffect
      <4> QED
        BY <4>1, FlushedFacts, Zenon
    <3> QED
      BY <3>1, <3>2, Zenon
  <2>8. ASSUME NEW w \in done PROVE Leaf(m2, current_pml4, w) = Zero
    <3>1. w \in Vas
      BY <2>1 DEF done
    <3> QED
      BY <2>2, <2>5, <2>6, <3>1, FlushedFacts, Zenon DEF UnmapEffect, Changed
  <2>9. UnmapEffect(m, free, lv, done \cup {next}, m2)
    BY <2>2, <2>6, <2>7, <2>8, Zenon DEF UnmapEffect
  <2> QED
    BY <2>4, <2>9, Zenon DEF m2
<1>4. S = Nat
  <2>1. S \in SUBSET Nat
    BY Zenon
  <2> HIDE DEF S
  <2> QED
    BY <1>2, <1>3, <2>1, Induction, Zenon
<1>5. good(n)
  BY <1>4
<1> QED
  BY <1>1, <1>5, Zenon

-----------------------------------------------------------------------------
(***************************************************************************)
(* vmm_map_pages.                                                          *)
(***************************************************************************)

LEMMA CallFacts ==
  ASSUME NEW va \in KVas, NEW n \in Counts
  PROVE  /\ va \in Nat /\ va \in Seen /\ n \in Nat
         /\ va .. (va + n - 1) \subseteq Seen
         /\ Seen \subseteq Vas
<1>1. va \in Nat /\ n \in Nat /\ 1 \in Counts
  BY CallAssumption, Zenon
<1>2. va .. (va + n - 1) \subseteq Seen /\ va .. (va + 1 - 1) \subseteq Seen
  <2>1. ASSUME NEW k \in Counts PROVE va .. (va + k - 1) \subseteq Seen
    <3> DEFINE R == {v .. (v + j - 1) : v \in KVas, j \in Counts}
    <3>1. va .. (va + k - 1) \in R
      OBVIOUS
    <3> HIDE DEF R
    <3>2. va .. (va + k - 1) \subseteq UNION R
      BY <3>1, Zenon
    <3> QED
      BY <3>2 DEF Seen, R
  <2> QED
    BY <1>1, <2>1, Zenon
<1>3. va \in va .. (va + 1 - 1)
  BY <1>1
<1> QED
  BY <1>1, <1>2, <1>3, CallAssumption, Zenon DEF Vas

LEMMA KEntryFacts ==
  ASSUME NEW p \in Nat, NEW f \in KFlags
  PROVE  KEntry(p, f) \in Entries /\ Present(KEntry(p, f))
  BY CallAssumption, Zenon DEF KEntry, Entries, Present

\* What vmm_map_pages leaves in m2: its pages are mapped, or the ones that it
\* mapped before it failed are unmapped again, and no other page is concerned.
RunEffect(s, lv, va, p, n, f, r, m2, lv2) ==
  /\ r.done \in 0 .. n
  /\ r.s.pool \in Seq(Frames) /\ IsPool(r.s.pool)
  /\ Sound(m2, PagesOf(r.s.pool), lv2)
  /\ NewTables(lv, lv2, PagesOf(s.pool))
  /\ PagesOf(r.s.pool) \subseteq PagesOf(s.pool)
  /\ \A v \in va .. (va + r.done - 1) :
       Leaf(m2, current_pml4, v) = IF r.done = n THEN KEntry(p + v - va, f) ELSE Zero
  /\ Changed(lv, s.mem, m2, va .. (va + r.done - 1), {})

LEMMA MapPagesFacts ==
  ASSUME NEW s, NEW lv, Valid(s, lv), current_pml4 \in Frames, lv[current_pml4] = 4,
         NEW va \in KVas, NEW p \in PAddrs, NEW n \in Counts, NEW f \in KFlags,
         NEW r, r = MapRun(s, va, p, n, f)
  PROVE  \E lv2 : RunEffect(s, lv, va, p, n, f, r, CleanedUp(r, va, n), lv2)
<1> DEFINE ms == [i \in 1 .. n |-> [va |-> va + i - 1, leaf |-> KEntry(p + i - 1, f)]]
           S == va .. (va + r.done - 1)
           m2 == CleanedUp(r, va, n)
<1>1. /\ va \in Nat /\ n \in Nat /\ p \in Nat
      /\ va .. (va + n - 1) \subseteq Vas
  BY CallFacts, CallAssumption, Zenon
<1>2. /\ Len(ms) = n
      /\ \A i \in 1 .. n : ms[i].va = va + i - 1 /\ ms[i].leaf = KEntry(p + i - 1, f)
  BY <1>1
<1>3. IsMaps(ms)
  <2>1. ASSUME NEW i \in 1 .. n PROVE ms[i] \in [va : Vas, leaf : Entries]
    <3>1. va + i - 1 \in Vas
      <4>1. va + i - 1 \in va .. (va + n - 1)
        BY <1>1
      <4> QED
        BY <1>1, <4>1, Zenon
    <3>2. KEntry(p + i - 1, f) \in Entries
      <4>1. p + i - 1 \in Nat
        BY <1>1
      <4> QED
        BY <4>1, KEntryFacts, Zenon
    <3> QED
      BY <3>1, <3>2, Zenon
  <2>2. ms \in Seq([va : Vas, leaf : Entries])
    <3> DEFINE R == [va : Vas, leaf : Entries]
    <3>1. \A i \in 1 .. n : ms[i] \in R
      BY <2>1, Zenon
    <3> HIDE DEF R
    <3>2. ms \in Seq(R)
      BY <1>1, <3>1
    <3> QED
      BY <3>2, Zenon DEF R
  <2>3. ASSUME NEW j \in DOMAIN ms, NEW k \in DOMAIN ms, ms[j].va = ms[k].va PROVE j = k
    BY <1>1, <1>2, <2>3
  <2> QED
    BY <2>2, <2>3, Zenon DEF IsMaps
<1>4. r = MapSeq(s, current_pml4, ms, KTable, {})
  BY Zenon DEF MapRun
<1>5. KTable \in SUBSET Flags /\ "P" \in KTable /\ {} \in SUBSET Flags
  BY Zenon DEF KTable, Flags
<1> HIDE DEF ms
<1>6. /\ r.done \in 0 .. n
      /\ \E lv2 : SeqEffect(s, lv, current_pml4, ms, {}, r, lv2)
  BY <1>2, <1>3, <1>4, <1>5, MapSeqFacts
<1>7. PICK lv2 : SeqEffect(s, lv, current_pml4, ms, {}, r, lv2)
  BY <1>6, Zenon
<1>8. {ms[k].va : k \in 1 .. r.done} = S
  <2>1. ASSUME NEW v \in S PROVE \E k \in 1 .. r.done : v = ms[k].va
    <3>1. v - va + 1 \in 1 .. r.done /\ v - va + 1 \in 1 .. n
      BY <1>1, <1>6
    <3> QED
      BY <1>1, <1>2, <3>1
  <2>2. ASSUME NEW k \in 1 .. r.done PROVE ms[k].va \in S
    BY <1>1, <1>2, <1>6
  <2> QED
    BY <2>1, <2>2
<1>9. /\ Valid(r.s, lv2) /\ NewTables(lv, lv2, PagesOf(s.pool))
      /\ PagesOf(r.s.pool) \subseteq PagesOf(s.pool)
      /\ Changed(lv, s.mem, r.s.mem, S, {})
      /\ \A k \in 1 .. r.done : Leaf(r.s.mem, current_pml4, ms[k].va) = ms[k].leaf
  BY <1>7, <1>8, Zenon DEF SeqEffect
<1>10. /\ r.s.pool \in Seq(Frames) /\ IsPool(r.s.pool)
       /\ Sound(r.s.mem, PagesOf(r.s.pool), lv2)
  BY <1>9, Zenon DEF Valid, IsPool
<1>11. CASE r.done = n
  <2>1. m2 = r.s.mem
    BY <1>11, Zenon DEF CleanedUp
  <2>2. ASSUME NEW v \in S PROVE Leaf(m2, current_pml4, v) = KEntry(p + v - va, f)
    <3>1. /\ v - va + 1 \in 1 .. r.done /\ v - va + 1 \in 1 .. n
          /\ va + (v - va + 1) - 1 = v /\ p + (v - va + 1) - 1 = p + v - va
      BY <1>1, <1>6
    <3> QED
      BY <1>2, <1>9, <2>1, <3>1, Zenon
  <2> HIDE DEF m2
  <2>3. RunEffect(s, lv, va, p, n, f, r, m2, lv2)
    BY <1>6, <1>9, <1>10, <1>11, <2>1, <2>2, Zenon DEF RunEffect
  <2> QED
    BY <2>3, Zenon DEF m2
<1>12. CASE r.done # n
  <2>1. m2 = UnmapRun(r.s.mem, va, r.done)
    BY <1>12, Zenon DEF CleanedUp
  <2>2. r.done \in Nat /\ va .. (va + r.done - 1) \subseteq Vas
    BY <1>1, <1>6
  <2>3. lv2[current_pml4] = 4
    BY <1>9, RootsStay DEF Valid
  <2>4. UnmapEffect(r.s.mem, PagesOf(r.s.pool), lv2, S, m2)
    BY <1>1, <1>10, <2>1, <2>2, <2>3, UnmapRunFacts, Zenon
  <2> HIDE DEF m2, S
  <2>5. \A q \in Frames : lv[q] = 4 => lv2[q] = 4
    BY <1>9, RootsStay DEF Valid
  <2>6. Changed(lv, s.mem, m2, S, {})
    <3>1. Changed(lv, s.mem, m2, S \cup Flushed(r.s.mem, S), {})
      BY <1>9, <2>4, <2>5, ChangedTransitive, Zenon DEF UnmapEffect
    <3>2. S \cup Flushed(r.s.mem, S) = S
      BY Zenon DEF Flushed
    <3> QED
      BY <3>1, <3>2, Zenon
  <2>7. RunEffect(s, lv, va, p, n, f, r, m2, lv2)
    <3>1. \A v \in S : Leaf(m2, current_pml4, v) = Zero
      BY <2>4, Zenon DEF UnmapEffect
    <3>2. Sound(m2, PagesOf(r.s.pool), lv2)
      BY <2>4, Zenon DEF UnmapEffect
    <3> QED
      BY <1>6, <1>9, <1>10, <1>12, <2>6, <3>1, <3>2, Zenon DEF RunEffect, S
  <2> QED
    BY <2>7, Zenon DEF m2
<1> QED
  BY <1>11, <1>12, Zenon

-----------------------------------------------------------------------------
(***************************************************************************)
(* The steps of the specification.                                         *)
(***************************************************************************)

\* With the levels lv the tables form a tree, that of the kernel's root among
\* others, and CR3 is the root of one.
Tree(lv) ==
  /\ Sound(mem, PagesOf(pool), lv)
  /\ IsPool(pool)
  /\ current_pml4 \in Frames /\ lv[current_pml4] = 4
  /\ cr3 \in Frames /\ lv[cr3] = 4

\* A cached translation is one of an address that exists.
TlbTyped == tlb = NoTlb \/ tlb.va \in Vas

\* It is the one that the active tables give.
TlbIsCurrent ==
  tlb # NoTlb =>
    /\ Present(Leaf(mem, cr3, tlb.va))
    /\ tlb.access = Access(mem, cr3, tlb.va)

\* A call may change the mappings of the pages S; it makes tables of free pages
\* and invalidates the translations of S.
CallStep(lv, lv2, S) ==
  /\ Sound(mem', PagesOf(pool'), lv2)
  /\ IsPool(pool')
  /\ NewTables(lv, lv2, PagesOf(pool))
  /\ PagesOf(pool') \subseteq PagesOf(pool)
  /\ Changed(lv, mem, mem', S, {})
  /\ Invlpg(S)
  /\ cr3' = cr3

LEMMA PhysValid ==
  ASSUME NEW lv, Tree(lv)
  PROVE  Valid(Phys, lv) /\ Phys.mem = mem /\ Phys.pool = pool
  BY Zenon DEF Tree, Valid, Phys, States, Sound, IsPool

\* vmm_map_page.
LEMMA MapPageStep ==
  ASSUME NEW lv, Tree(lv), NEW va \in KVas, NEW p \in PAddrs, NEW f \in KFlags,
         vmm_map_page(va, p, f), ~strayed'
  PROVE  \E lv2, S :
           /\ CallStep(lv, lv2, S) /\ S \in {{}, {va}}
           /\ S = {va} => Leaf(mem', current_pml4, va) = KEntry(p, f)
<1> DEFINE s == MapIn(Phys, current_pml4, va, KEntry(p, f), KTable, {})
           S == IF Ok(s) THEN {va} ELSE {}
<1>1. /\ mem' = s.mem /\ pool' = s.pool /\ cr3' = cr3
      /\ IF Ok(s) THEN Invlpg({va}) ELSE tlb' = tlb
  BY Zenon DEF vmm_map_page, Becomes, Strays
<1>2. Invlpg(S)
  BY <1>1, Zenon DEF Invlpg
<1>3. /\ KTable \in SUBSET Flags /\ "P" \in KTable /\ {} \in SUBSET Flags
      /\ KEntry(p, f) \in Entries
      /\ va \in Vas
  <2>1. p \in Nat /\ 1 \in Counts
    BY CallAssumption, Zenon
  <2> QED
    BY <2>1, CallFacts, KEntryFacts, Zenon DEF KTable, Flags
<1>4. Valid(Phys, lv) /\ Phys.mem = mem /\ Phys.pool = pool
  BY PhysValid, Zenon
<1>5. PICK lv2 :
        /\ Valid(s, lv2) /\ NewTables(lv, lv2, PagesOf(Phys.pool))
        /\ PagesOf(s.pool) \subseteq PagesOf(Phys.pool)
        /\ Ok(s) => Leaf(s.mem, current_pml4, va) = KEntry(p, f)
        /\ Changed(lv, Phys.mem, s.mem, IF Ok(s) THEN {va} ELSE {}, {})
  BY <1>3, <1>4, MapOne, Zenon DEF Tree
<1> HIDE DEF s
<1>6. CallStep(lv, lv2, S)
  BY <1>1, <1>2, <1>4, <1>5, Zenon DEF CallStep, Valid
<1>7. /\ S \in {{}, {va}}
      /\ S = {va} => Leaf(mem', current_pml4, va) = KEntry(p, f)
  BY <1>1, <1>5, Zenon
<1> HIDE DEF S
<1> QED
  BY <1>6, <1>7, Zenon

\* vmm_unmap_page and vmm_unmap_pages.
LEMMA UnmapPageStep ==
  ASSUME NEW lv, Tree(lv), NEW va \in KVas, vmm_unmap_page(va), ~strayed'
  PROVE  /\ CallStep(lv, lv, Flushed(mem, {va}))
         /\ Leaf(mem', current_pml4, va) = Zero
<1>1. va \in Vas
  BY CallAssumption, CallFacts, Zenon
<1>2. mem' = UnmapPage(mem, va) /\ Invlpg(Flushed(mem, {va})) /\ UNCHANGED <<pool, cr3>>
  BY Zenon DEF vmm_unmap_page, Strays
<1>3. UnmapEffect(mem, PagesOf(pool), lv, {va}, mem')
  BY <1>1, <1>2, UnmapOne, Zenon DEF Tree
<1> QED
  BY <1>2, <1>3, Zenon DEF CallStep, UnmapEffect, NewTables, Tree

LEMMA UnmapPagesStep ==
  ASSUME NEW lv, Tree(lv), NEW va \in KVas, NEW n \in Counts, vmm_unmap_pages(va, n), ~strayed'
  PROVE  /\ CallStep(lv, lv, Flushed(mem, va .. (va + n - 1)))
         /\ \A w \in va .. (va + n - 1) : Leaf(mem', current_pml4, w) = Zero
<1>1. va \in Nat /\ n \in Nat /\ va .. (va + n - 1) \subseteq Vas
  BY CallFacts, Zenon
<1>2. /\ mem' = UnmapRun(mem, va, n) /\ Invlpg(Flushed(mem, va .. (va + n - 1)))
      /\ UNCHANGED <<pool, cr3>>
  BY Zenon DEF vmm_unmap_pages, Strays
<1>3. UnmapEffect(mem, PagesOf(pool), lv, va .. (va + n - 1), mem')
  BY <1>1, <1>2, UnmapRunFacts, Zenon DEF Tree
<1> QED
  BY <1>2, <1>3, Zenon DEF CallStep, UnmapEffect, NewTables, Tree

\* vmm_map_pages, which succeeds or has mapped k < n pages when it fails.
LEMMA MapPagesStep ==
  ASSUME NEW lv, Tree(lv), NEW va \in KVas, NEW p \in PAddrs, NEW n \in Counts,
         NEW f \in KFlags, vmm_map_pages(va, p, n, f), ~strayed'
  PROVE  \E lv2 : \E k \in 0 .. n :
           /\ CallStep(lv, lv2, va .. (va + k - 1))
           /\ \A v \in va .. (va + k - 1) :
                Leaf(mem', current_pml4, v) = IF k = n THEN KEntry(p + v - va, f) ELSE Zero
<1> DEFINE r == MapRun(Phys, va, p, n, f)
           k == r.done
<1>1. /\ mem' = CleanedUp(r, va, n) /\ pool' = r.s.pool /\ cr3' = cr3
      /\ Invlpg(va .. (va + k - 1))
  BY Zenon DEF vmm_map_pages, Strays
<1>2. Valid(Phys, lv) /\ Phys.mem = mem /\ Phys.pool = pool
  BY PhysValid, Zenon
<1>3. PICK lv2 : RunEffect(Phys, lv, va, p, n, f, r, CleanedUp(r, va, n), lv2)
  BY <1>2, MapPagesFacts, Zenon DEF Tree
<1> HIDE DEF r
<1>4. CallStep(lv, lv2, va .. (va + k - 1))
  BY <1>1, <1>2, <1>3, Zenon DEF CallStep, RunEffect
<1>5. /\ k \in 0 .. n
      /\ \A v \in va .. (va + k - 1) :
           Leaf(mem', current_pml4, v) = IF k = n THEN KEntry(p + v - va, f) ELSE Zero
  BY <1>1, <1>3, Zenon DEF RunEffect
<1> HIDE DEF k
<1> QED
  BY <1>4, <1>5, Zenon

\* A call keeps the tree and the translations that it does not invalidate.
LEMMA CallKeeps ==
  ASSUME NEW lv, NEW lv2, NEW S, Tree(lv), CallStep(lv, lv2, S), TlbTyped, TlbIsCurrent
  PROVE  Tree(lv2)' /\ TlbTyped' /\ TlbIsCurrent'
<1>1. Tree(lv2)'
  <2>1. \A q \in Frames : lv2[q] = 4 <=> lv[q] = 4
    BY RootsStay DEF Tree, CallStep
  <2> QED
    BY <2>1, Zenon DEF Tree, CallStep
<1>2. tlb' = NoTlb \/ (tlb' = tlb /\ tlb.va \notin S)
  BY Zenon DEF CallStep, Invlpg
<1>3. TlbTyped'
  BY <1>2, Zenon DEF TlbTyped
<1>4. ASSUME tlb' # NoTlb
      PROVE  Present(Leaf(mem', cr3', tlb'.va)) /\ tlb'.access = Access(mem', cr3', tlb'.va)
  <2>1. /\ tlb' = tlb /\ tlb.va \notin S /\ tlb.va \in Vas
        /\ Present(Leaf(mem, cr3, tlb.va)) /\ tlb.access = Access(mem, cr3, tlb.va)
    BY <1>2, <1>4, Zenon DEF TlbTyped, TlbIsCurrent
  <2>2. Path(mem', cr3, tlb.va) = Path(mem, cr3, tlb.va)
    BY <2>1, Zenon DEF CallStep, Changed, Tree
  <2> QED
    BY <2>1, <2>2, Zenon DEF CallStep, Access, Leaf
<1>5. TlbIsCurrent'
  BY <1>4, Zenon DEF TlbIsCurrent
<1> QED
  BY <1>1, <1>3, <1>5, Zenon

-----------------------------------------------------------------------------
(***************************************************************************)
(* The invariant, for as long as no call has strayed: the tables form a    *)
(* tree, and the processor has cached nothing but what they say.           *)
(***************************************************************************)

Kept ==
  /\ \E lv : Tree(lv)
  /\ cr3 = current_pml4
  /\ TlbTyped
  /\ TlbIsCurrent

VInv == strayed \in BOOLEAN /\ (~strayed => Kept)

LEMMA LevelsType ==
  ASSUME NEW m, NEW root \in Frames
  PROVE  Levels(m, root) \in [Frames -> 0 .. 4] /\ Levels(m, root)[root] = 4
  BY DEF Levels

LEMMA VInitInv == VmmInit => VInv /\ Kept
<1> SUFFICES ASSUME VmmInit PROVE VInv /\ Kept
  BY Zenon
<1> DEFINE lv == Levels(BootMem, current_pml4)
<1>1. lv \in [Frames -> 0 .. 4] /\ lv[current_pml4] = 4
  BY BootAssumption, LevelsType, Zenon
<1>2. IsTree(BootMem, PagesOf(BootPool), lv)
  BY BootAssumption, Zenon
<1> HIDE DEF lv
<1>3. PagesOf(BootPool) \subseteq Frames
  BY BootAssumption DEF PagesOf
<1>4. Tree(lv)
  BY <1>1, <1>2, <1>3, BootAssumption, Zenon DEF Tree, Sound, IsPool, VmmInit
<1>5. \E l : Tree(l)
  BY <1>4, Zenon
<1>6. Kept
  BY <1>5, Zenon DEF Kept, VmmInit, TlbTyped, TlbIsCurrent
<1>7. strayed \in BOOLEAN
  BY Zenon DEF VmmInit
<1> QED
  BY <1>6, <1>7, Zenon DEF VInv

\* The processor caches what the tables say.
LEMMA FillKeeps ==
  ASSUME NEW vas, vas \subseteq Vas, CpuFill(vas)
  PROVE  TlbTyped' /\ TlbIsCurrent' /\ UNCHANGED <<mem, pool, cr3>>
  BY DEF CpuFill, TlbTyped, TlbIsCurrent

\* Every action that does not stray keeps it.
LEMMA KeptNext ==
  ASSUME Kept, VmmNext, ~strayed'
  PROVE  Kept'
<1>1. PICK lv : Tree(lv)
  BY Zenon DEF Kept
<1>2. ASSUME NEW lv2, NEW S, CallStep(lv, lv2, S) PROVE Kept'
  <2>1. Tree(lv2)' /\ TlbTyped' /\ TlbIsCurrent'
    BY <1>1, <1>2, CallKeeps, Zenon DEF Kept
  <2>2. (\E l : Tree(l))'
    BY <2>1, Zenon
  <2>3. cr3' = current_pml4
    BY <1>2, Zenon DEF CallStep, Kept
  <2> QED
    BY <2>1, <2>2, <2>3, Zenon DEF Kept
<1>3. ASSUME CpuFill(KVas) PROVE Kept'
  <2>1. KVas \subseteq Vas
    BY CallAssumption, CallFacts, Zenon
  <2>2. TlbTyped' /\ TlbIsCurrent' /\ UNCHANGED <<mem, pool, cr3>>
    BY <1>3, <2>1, FillKeeps, Zenon
  <2>3. Tree(lv)'
    BY <1>1, <2>2, Zenon DEF Tree
  <2>4. (\E l : Tree(l))'
    BY <2>3, Zenon
  <2> QED
    BY <2>2, <2>4, Zenon DEF Kept
<1>4. ASSUME NEW va \in KVas, vmm_unmap_page(va) PROVE Kept'
  BY <1>1, <1>2, <1>4, UnmapPageStep, Zenon
<1>5. ASSUME NEW va \in KVas, NEW p \in PAddrs, NEW f \in KFlags, vmm_map_page(va, p, f)
      PROVE  Kept'
  BY <1>1, <1>2, <1>5, MapPageStep, Zenon
<1>6. ASSUME NEW va \in KVas, NEW n \in Counts, vmm_unmap_pages(va, n) PROVE Kept'
  BY <1>1, <1>2, <1>6, UnmapPagesStep, Zenon
<1>7. ASSUME NEW va \in KVas, NEW n \in Counts, NEW p \in PAddrs, NEW f \in KFlags,
             vmm_map_pages(va, p, n, f)
      PROVE  Kept'
  BY <1>1, <1>2, <1>7, MapPagesStep, Zenon
<1> QED
  BY <1>3, <1>4, <1>5, <1>6, <1>7, Zenon DEF VmmNext

\* Every step leaves strayed alone or sets it.
LEMMA StrayedNext == VmmNext => strayed' = strayed \/ strayed' = TRUE
  BY Zenon DEF VmmNext, CpuFill, vmm_map_page, vmm_unmap_page, vmm_map_pages,
       vmm_unmap_pages, Strays

LEMMA VNextInv == VInv /\ [VmmNext]_vmmVars => VInv'
<1> SUFFICES ASSUME VInv, [VmmNext]_vmmVars PROVE VInv'
  BY Zenon
<1>1. CASE VmmNext
  <2>1. Kept
    BY <1>1, Zenon DEF VInv, VmmNext
  <2> QED
    BY <1>1, <2>1, KeptNext, StrayedNext, Zenon DEF VInv
<1>2. CASE UNCHANGED vmmVars
  <2>1. ASSUME Kept PROVE Kept'
    <3>1. PICK lv : Tree(lv)
      BY <2>1, Zenon DEF Kept
    <3>2. Tree(lv)'
      BY <1>2, <3>1, Zenon DEF Tree, vmmVars
    <3>3. (\E l : Tree(l))'
      BY <3>2, Zenon
    <3> QED
      BY <1>2, <2>1, <3>3, Zenon DEF Kept, vmmVars, TlbTyped, TlbIsCurrent
  <2> QED
    BY <1>2, <2>1, Zenon DEF VInv, vmmVars
<1> QED
  BY <1>1, <1>2, Zenon

\* The mapping functions of vmm.c keep the kernel's tables a tree made of pages
\* that the allocator no longer has, whatever calls are made and wherever they
\* run out of pages, until a call uses a table at an address, KERNEL_VMA_BASE plus
\* its own, that does not lead to it.
THEOREM VmmInvariant == VmmSpec => []VInv
<1> QED
  BY VInitInv, VNextInv, PTL DEF VmmSpec

\* Every change that vmm.c makes to an entry in use is followed by its invlpg: with
\* the kernel's root in CR3, which none of its functions writes, nothing stale is
\* cached, until a call strays.
THEOREM TlbCoherentTheorem == VmmSpec => []TlbCoherent
<1>1. VInv => TlbCoherent
  BY Zenon DEF VInv, Kept, TlbIsCurrent, TlbCoherent, CachedFrom
<1> QED
  BY <1>1, VmmInvariant, PTL

-----------------------------------------------------------------------------
(***************************************************************************)
(* What follows from the invariant.                                        *)
(***************************************************************************)

\* The entries of tables of one level point to tables of the next.
LEMMA ChildrenLevel ==
  ASSUME NEW m, NEW free, NEW lv, Sound(m, free, lv), NEW l \in 2 .. 4,
         NEW ts, ts \subseteq {f \in Frames : lv[f] = l}
  PROVE  Children(m, ts, {"P"}) \subseteq {f \in Frames : lv[f] = l - 1}
<1> SUFFICES ASSUME NEW t \in Children(m, ts, {"P"}) PROVE t \in Frames /\ lv[t] = l - 1
  BY Zenon
<1>1. PICK u \in ts, i \in Idx : Present(m[u][i]) /\ t = m[u][i].frame
  BY Zenon DEF Children, Present
<1> QED
  BY <1>1 DEF Sound, IsTree

LEMMA OneParent ==
  ASSUME NEW m, NEW free, NEW lv, Sound(m, free, lv),
         NEW u \in Frames, NEW w \in Frames, lv[u] >= 2, lv[w] = lv[u],
         lv[u] = 4 => u = w,
         NEW i \in Idx, NEW j \in Idx,
         Present(m[u][i]), Present(m[w][j]), m[u][i].frame = m[w][j].frame
  PROVE  u = w /\ i = j
  BY DEF Sound, IsTree

\* The tables that vmm_map_page makes hang on one entry each, and a table is
\* never made of a page that is a table already, until a call strays.
THEOREM TablesFormTreeTheorem == VmmSpec => []TablesFormTree
<1>1. ASSUME VInv PROVE TablesFormTree
  <2> SUFFICES ASSUME Kept PROVE TablesFormTree
    BY <1>1, Zenon DEF VInv, TablesFormTree
  <2> DEFINE on(x) == mem[x[1]][x[2]]
             parents(t, ts) == {x \in ts \X Idx : Present(on(x)) /\ on(x).frame = t}
             onlyOn(ts, below) == \A t \in below :
               /\ \A a, b \in parents(t, ts) : a = b
               /\ t \notin ts
             level(lv, l) == {f \in Frames : lv[f] = l}
  <2>1. PICK lv : Tree(lv)
    BY Zenon DEF Kept
  <2>2. Sound(mem, PagesOf(pool), lv) /\ {current_pml4} \subseteq level(lv, 4)
    BY <2>1, Zenon DEF Tree
  <2>3. ASSUME NEW l \in 2 .. 4, NEW ts, ts \subseteq level(lv, l),
               l = 4 => \A u, w \in ts : u = w
        PROVE  onlyOn(ts, Children(mem, ts, {"P"}))
    <3>1. Children(mem, ts, {"P"}) \subseteq level(lv, l - 1)
      BY <2>2, <2>3, ChildrenLevel
    <3>2. ASSUME NEW t \in Children(mem, ts, {"P"}) PROVE t \notin ts
      BY <2>3, <3>1
    <3>3. ASSUME NEW t, NEW a \in parents(t, ts), NEW b \in parents(t, ts)
          PROVE  a = b
      <4>1. /\ a \in ts \X Idx /\ a[1] \in ts /\ a[2] \in Idx
            /\ b \in ts \X Idx /\ b[1] \in ts /\ b[2] \in Idx
        BY Zenon
      <4>2. /\ Present(mem[a[1]][a[2]]) /\ Present(mem[b[1]][b[2]])
            /\ mem[a[1]][a[2]].frame = mem[b[1]][b[2]].frame
        BY Zenon
      <4>3. a[1] = b[1] /\ a[2] = b[2]
        <5> DEFINE u == a[1]
                   i == a[2]
                   w == b[1]
                   j == b[2]
        <5>1. /\ u \in ts /\ i \in Idx /\ w \in ts /\ j \in Idx
              /\ Present(mem[u][i]) /\ Present(mem[w][j]) /\ mem[u][i].frame = mem[w][j].frame
          BY <4>1, <4>2, Zenon
        <5> HIDE DEF u, i, w, j
        <5>2. u = w /\ i = j
          <6>1. /\ u \in Frames /\ w \in Frames /\ lv[u] >= 2 /\ lv[w] = lv[u]
                /\ lv[u] = 4 => u = w
            BY <2>3, <5>1
          <6> QED
            BY <2>2, <5>1, <6>1, OneParent
        <5> QED
          BY <5>2, Zenon DEF u, i, w, j
      <4> QED
        BY <4>1, <4>3
    <3> QED
      BY <3>2, <3>3, Zenon
  <2>4. Pdpts(mem, current_pml4) \subseteq level(lv, 3)
    BY <2>2, ChildrenLevel DEF Pdpts
  <2>5. Pds(mem, current_pml4) \subseteq level(lv, 2)
    BY <2>2, <2>4, ChildrenLevel DEF Pds
  <2>6. onlyOn({current_pml4}, Pdpts(mem, current_pml4))
    BY <2>2, <2>3 DEF Pdpts
  <2>7. onlyOn(Pdpts(mem, current_pml4), Pds(mem, current_pml4))
    BY <2>4, <2>3 DEF Pds
  <2>8. onlyOn(Pds(mem, current_pml4), Pts(mem, current_pml4))
    BY <2>5, <2>3 DEF Pts
  <2> QED
    BY <2>6, <2>7, <2>8, Zenon DEF TablesFormTree
<1> QED
  BY <1>1, VmmInvariant, PTL

\* vmm_map_pages, in every state in which it reaches its tables and wherever the
\* allocator runs out, maps all its pages or leaves those up to the failure
\* unmapped, also the ones that were mapped before, and changes no other page.
THEOREM MapPagesAllOrUnmappedTheorem == VmmSpec => []MapPagesAllOrUnmapped
<1>1. ASSUME VInv, ~strayed,
             NEW va \in KVas, NEW p \in PAddrs, NEW n \in Counts, NEW f \in KFlags,
             NEW v \in Seen, NEW r, r = MapRun(Phys, va, p, n, f),
             NEW m2, m2 = CleanedUp(r, va, n)
      PROVE  Outcome(r, m2, va, p, n, f, v)
  <2>1. PICK lv : Tree(lv)
    BY <1>1, Zenon DEF VInv, Kept
  <2>2. Valid(Phys, lv) /\ Phys.mem = mem
    BY <2>1, PhysValid, Zenon
  <2>3. PICK lv2 : RunEffect(Phys, lv, va, p, n, f, r, m2, lv2)
    BY <1>1, <2>1, <2>2, MapPagesFacts, Zenon DEF Tree
  <2>4. v \in va .. (va + r.done - 1) =>
          Leaf(m2, current_pml4, v) = IF r.done = n THEN KEntry(p + v - va, f) ELSE Zero
    BY <2>3, Zenon DEF RunEffect
  <2>5. v \notin va .. (va + r.done - 1) => Leaf(m2, current_pml4, v) = KMap[v]
    BY <2>1, <2>2, <2>3, CallAssumption, Zenon DEF RunEffect, Changed, Tree, KMap, Vas
  <2>6. Present(KEntry(p + v - va, f)) /\ KEntry(p + v - va, f).frame = p + v - va
    BY DEF KEntry, Present
  <2>7. ~Present(Zero)
    BY DEF Zero, Present
  <2> QED
    BY <2>4, <2>5, <2>6, <2>7, Zenon DEF vmm_get_physical, Outcome
<1>2. ASSUME VInv PROVE MapPagesAllOrUnmapped
  BY <1>1, <1>2, Zenon DEF MapPagesAllOrUnmapped
<1> QED
  BY <1>2, VmmInvariant, PTL

-----------------------------------------------------------------------------
(***************************************************************************)
(* The mapping functions implement the abstract map.                       *)
(***************************************************************************)

LEMMA KMapOutside ==
  ASSUME NEW lv, NEW lv2, NEW S, Tree(lv), CallStep(lv, lv2, S), NEW v \in Seen, v \notin S
  PROVE  Leaf(mem', current_pml4, v) = Leaf(mem, current_pml4, v)
  BY CallAssumption, Zenon DEF Tree, CallStep, Changed, Vas

\* Each call is a step of the map: vmm_map_pages one that maps its pages when it
\* succeeds and one that unmaps the k pages it had mapped when it fails.
LEMMA StepImplements ==
  ASSUME NEW lv, Tree(lv), VmmNext, ~strayed'
  PROVE  KernelMap!Next \/ KMap' = KMap
<1>0. strayed' = strayed
  BY StrayedNext, Zenon
<1>1. KMap' = [v \in Seen |-> Leaf(mem', current_pml4, v)]
  BY Zenon DEF KMap
<1>2. ASSUME NEW va \in Seen, NEW n \in Counts,
             \A v \in Seen : Leaf(mem', current_pml4, v) =
               IF v \in va .. (va + n - 1) THEN Zero ELSE Leaf(mem, current_pml4, v)
      PROVE  KernelMap!Next
  <2>1. KernelMap!Unmap(va, n)
    BY <1>1, <1>2, Zenon DEF KernelMap!Unmap, KMap
  <2> QED
    BY <1>0, <2>1, Zenon DEF KernelMap!Next
<1>3. ASSUME NEW va \in Seen, NEW n \in Counts, NEW p \in PAddrs, NEW f \in KFlags,
             \A v \in Seen : Leaf(mem', current_pml4, v) =
               IF v \in va .. (va + n - 1) THEN KEntry(p + v - va, f)
               ELSE Leaf(mem, current_pml4, v)
      PROVE  KernelMap!Next
  <2>1. KernelMap!Map(va, p, n, f)
    BY <1>1, <1>3, Zenon DEF KernelMap!Map, KMap
  <2> QED
    BY <1>0, <2>1, Zenon DEF KernelMap!Next
<1>4. ASSUME \A v \in Seen : Leaf(mem', current_pml4, v) = Leaf(mem, current_pml4, v)
      PROVE  KMap' = KMap
  BY <1>1, <1>4, Zenon DEF KMap
<1>5. ASSUME NEW va \in KVas
      PROVE  /\ va \in Nat /\ va \in Seen /\ 1 \in Counts
             /\ va .. (va + 1 - 1) = {va}
  <2>1. 1 \in Counts
    BY CallAssumption, Zenon
  <2>2. va \in Nat /\ va \in Seen
    BY <2>1, CallFacts, Zenon
  <2> QED
    BY <2>1, <2>2
<1>6. ASSUME CpuFill(KVas) PROVE KMap' = KMap
  BY <1>6, Zenon DEF CpuFill, KMap
<1>7. ASSUME NEW va \in KVas, vmm_unmap_page(va) PROVE KernelMap!Next
  <2>1. /\ CallStep(lv, lv, Flushed(mem, {va}))
        /\ Leaf(mem', current_pml4, va) = Zero
    BY <1>7, UnmapPageStep, Zenon
  <2>2. ASSUME NEW v \in Seen, v # va
        PROVE  Leaf(mem', current_pml4, v) = Leaf(mem, current_pml4, v)
    <3>1. v \notin Flushed(mem, {va})
      BY <2>2, Zenon DEF Flushed
    <3> QED
      BY <2>1, <3>1, KMapOutside, Zenon
  <2>3. ASSUME NEW v \in Seen
        PROVE  Leaf(mem', current_pml4, v) =
                 IF v \in va .. (va + 1 - 1) THEN Zero ELSE Leaf(mem, current_pml4, v)
    BY <1>5, <2>1, <2>2, Zenon
  <2> QED
    BY <1>2, <1>5, <2>3, Zenon
<1>8. ASSUME NEW va \in KVas, NEW p \in PAddrs, NEW f \in KFlags, vmm_map_page(va, p, f)
      PROVE  KernelMap!Next \/ KMap' = KMap
  <2>1. PICK lv2, S :
          /\ CallStep(lv, lv2, S) /\ S \in {{}, {va}}
          /\ S = {va} => Leaf(mem', current_pml4, va) = KEntry(p, f)
    BY <1>8, MapPageStep
  <2>2. \A v \in Seen : v \notin S =>
          Leaf(mem', current_pml4, v) = Leaf(mem, current_pml4, v)
    BY <2>1, KMapOutside, Zenon
  <2>3. CASE S = {}
    BY <1>4, <2>2, <2>3, Zenon
  <2>4. CASE S = {va}
    <3>1. p + va - va = p
      BY <1>5, CallAssumption
    <3>2. ASSUME NEW v \in Seen
          PROVE  Leaf(mem', current_pml4, v) =
                   IF v \in va .. (va + 1 - 1) THEN KEntry(p + v - va, f)
                   ELSE Leaf(mem, current_pml4, v)
      BY <1>5, <2>1, <2>2, <2>4, <3>1, Zenon
    <3> QED
      BY <1>3, <1>5, <3>2
  <2> QED
    BY <2>1, <2>3, <2>4, Zenon
<1>9. ASSUME NEW va \in KVas, NEW n \in Counts, vmm_unmap_pages(va, n)
      PROVE  KernelMap!Next
  <2> DEFINE S == va .. (va + n - 1)
  <2>1. /\ CallStep(lv, lv, Flushed(mem, S))
        /\ \A v \in S : Leaf(mem', current_pml4, v) = Zero
    BY <1>9, UnmapPagesStep, Zenon
  <2> HIDE DEF S
  <2>2. ASSUME NEW v \in Seen, v \notin S
        PROVE  Leaf(mem', current_pml4, v) = Leaf(mem, current_pml4, v)
    <3>1. v \notin Flushed(mem, S)
      BY <2>2, Zenon DEF Flushed
    <3> QED
      BY <2>1, <3>1, KMapOutside, Zenon
  <2>3. ASSUME NEW v \in Seen
        PROVE  Leaf(mem', current_pml4, v) =
                 IF v \in va .. (va + n - 1) THEN Zero ELSE Leaf(mem, current_pml4, v)
    BY <2>1, <2>2, Zenon DEF S
  <2> QED
    BY <1>2, <1>5, <2>3, Zenon
<1>10. ASSUME NEW va \in KVas, NEW n \in Counts, NEW p \in PAddrs, NEW f \in KFlags,
              vmm_map_pages(va, p, n, f)
       PROVE  KernelMap!Next \/ KMap' = KMap
  <2>1. PICK lv2 : \E k \in 0 .. n :
          /\ CallStep(lv, lv2, va .. (va + k - 1))
          /\ \A v \in va .. (va + k - 1) :
               Leaf(mem', current_pml4, v) = IF k = n THEN KEntry(p + v - va, f) ELSE Zero
    BY <1>10, MapPagesStep
  <2>2. PICK k \in 0 .. n :
          /\ CallStep(lv, lv2, va .. (va + k - 1))
          /\ \A v \in va .. (va + k - 1) :
               Leaf(mem', current_pml4, v) = IF k = n THEN KEntry(p + v - va, f) ELSE Zero
    BY <2>1, Zenon
  <2>3. ASSUME NEW v \in Seen, v \notin va .. (va + k - 1)
        PROVE  Leaf(mem', current_pml4, v) = Leaf(mem, current_pml4, v)
    BY <2>2, <2>3, KMapOutside, Zenon
  <2>4. CASE k = n
    BY <1>3, <1>5, <2>2, <2>3, <2>4
  <2>5. CASE k # n /\ k = 0
    <3>1. va .. (va + k - 1) = {}
      BY <1>5, <2>5
    <3> QED
      BY <1>4, <2>3, <3>1, Zenon
  <2>6. CASE k # n /\ k # 0
    <3>1. k \in Counts
      <4>1. n \in Nat /\ 1 .. n \subseteq Counts
        BY CallAssumption, Zenon
      <4> QED
        BY <2>6, <4>1
    <3>2. ASSUME NEW v \in Seen
          PROVE  Leaf(mem', current_pml4, v) =
                   IF v \in va .. (va + k - 1) THEN Zero ELSE Leaf(mem, current_pml4, v)
      BY <2>2, <2>3, <2>6, Zenon
    <3> QED
      BY <1>2, <1>5, <3>1, <3>2
  <2> QED
    BY <2>4, <2>5, <2>6, Zenon
<1> QED
  BY <1>6, <1>7, <1>8, <1>9, <1>10, Zenon DEF VmmNext

\* vmm.c implements the abstract map: until a call strays, vmm_map_page,
\* vmm_unmap_page and the calls for several pages change the mappings of the pages
\* they name and of no other page, for tables of any size and whatever the boot
\* loader has mapped.
THEOREM ImplementsAddressMapTheorem == VmmSpec => ImplementsAddressMap
<1>1. Kept => KMap \in [Seen -> Entries]
  <2> SUFFICES ASSUME Kept, NEW v \in Seen PROVE Leaf(mem, current_pml4, v) \in Entries
    BY Zenon DEF KMap
  <2>1. PICK lv : Tree(lv)
    BY Zenon DEF Kept
  <2>2. v \in Nat
    BY CallAssumption, VasAreNumbers, Zenon DEF Vas
  <2> QED
    BY <2>1, <2>2, WalkFacts, PathEntries DEF Tree
<1>2. VmmInit => KernelMap!Init
  <2>1. VmmInit => strayed = FALSE
    BY Zenon DEF VmmInit
  <2> QED
    BY <1>1, <2>1, VInitInv, Zenon DEF KernelMap!Init
<1>3. VInv /\ [VmmNext]_vmmVars => [KernelMap!Next]_<<KMap, strayed>>
  <2> SUFFICES ASSUME VInv, [VmmNext]_vmmVars PROVE [KernelMap!Next]_<<KMap, strayed>>
    BY Zenon
  <2>1. CASE VmmNext /\ strayed'
    <3>1. strayed' = TRUE
      BY <2>1, StrayedNext, Zenon
    <3> QED
      BY <3>1, Zenon DEF KernelMap!Next, KernelMap!Lose
  <2>2. CASE VmmNext /\ ~strayed'
    <3>1. PICK lv : Tree(lv)
      BY <2>2, Zenon DEF VInv, Kept, VmmNext
    <3>2. KernelMap!Next \/ KMap' = KMap
      BY <2>2, <3>1, StepImplements, Zenon
    <3>3. strayed' = strayed
      BY <2>2, StrayedNext, Zenon
    <3> QED
      BY <3>2, <3>3, Zenon
  <2>3. CASE UNCHANGED vmmVars
    BY <2>3, Zenon DEF vmmVars, KMap
  <2> QED
    BY <2>1, <2>2, <2>3, Zenon
<1> QED
  BY <1>2, <1>3, VmmInvariant, PTL DEF VmmSpec, ImplementsAddressMap, KernelMap!Spec
=============================================================================
