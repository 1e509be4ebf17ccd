---------------------------- MODULE AddressMap -----------------------------
(***************************************************************************)
(* What the kernel's mapping functions promise: a map from virtual pages   *)
(* to page table entries, in which a call changes the pages it names and   *)
(* no other, until a call loses the map, after which nothing is promised.  *)
(***************************************************************************)
EXTENDS Integers

CONSTANTS
  Vas,          \* virtual pages
  PAddrs,       \* physical pages
  FlagSets,     \* flags of a mapping
  Counts,       \* pages of one call
  Entries,      \* page table entries
  Unmapped,     \* the entry of a page that is not mapped
  Entry(_, _)   \* the entry that maps to a physical page with given flags

VARIABLES
  map,          \* the entry of each page
  lost          \* a call has lost the map

Init == map \in [Vas -> Entries] /\ lost = FALSE

\* The n pages from va on are mapped to the n pages from p on.
Map(va, p, n, f) ==
  map' = [v \in Vas |-> IF v \in va .. (va + n - 1) THEN Entry(p + v - va, f) ELSE map[v]]

\* The n pages from va on are unmapped.
Unmap(va, n) ==
  map' = [v \in Vas |-> IF v \in va .. (va + n - 1) THEN Unmapped ELSE map[v]]

\* A call on tables out of its reach may leave any map.
Lose == lost' = TRUE

Next ==
  \/ /\ \E va \in Vas, n \in Counts :
          \/ Unmap(va, n)
          \/ \E p \in PAddrs, f \in FlagSets : Map(va, p, n, f)
     /\ lost' = lost
  \/ Lose

Spec == Init /\ [][Next]_<<map, lost>>
=============================================================================
