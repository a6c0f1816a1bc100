-------------------------- MODULE MCPhysicalMemory --------------------------
(***************************************************************************)
(* Memory maps and requests for model checking PhysicalMemory.             *)
(***************************************************************************)
EXTENDS PhysicalMemory

Pages(first, number, usable) ==
  [base |-> first * page_size, length |-> number * page_size, usable |-> usable]

(* Eleven pages. Page 0 is reserved; the first usable entry gives its      *)
(* first page to the bitmap; a reserved hole splits usable memory.         *)
SmallMemmap ==
  << Pages(0, 1, FALSE), Pages(1, 6, TRUE), Pages(7, 1, FALSE), Pages(8, 3, TRUE) >>

SmallCounts == {1, 2, 3}

(* The hypotheses of the theorems about PhysicalMemory hold of this map.   *)
ASSUME WithinReach

ASSUME SizesAdd

=============================================================================
