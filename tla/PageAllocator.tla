--------------------------- MODULE PageAllocator ---------------------------
(***************************************************************************)
(* What a physical page allocator promises its clients, whatever it keeps  *)
(* inside: a page that somebody holds is not handed out again.             *)
(* owners[p] is how many clients got page p and did not give it back.      *)
(***************************************************************************)
EXTENDS Integers

CONSTANT Pages

VARIABLE owners

Init == owners = [p \in Pages |-> 0]

\* Consecutive pages that nobody holds get one owner.
Take == \E first, last \in Pages :
          /\ \A p \in first .. last : p \in Pages /\ owners[p] = 0
          /\ owners' = [p \in Pages |-> IF p \in first .. last THEN 1 ELSE owners[p]]

\* The owner of consecutive pages gives them back.  Nothing is promised about
\* when they can be had again.
Give == \E first, last \in Pages :
          /\ \A p \in first .. last : p \in Pages /\ owners[p] = 1
          /\ owners' = [p \in Pages |-> IF p \in first .. last THEN 0 ELSE owners[p]]

Next == Take \/ Give

Spec == Init /\ [][Next]_owners
=============================================================================
