--------------------------- MODULE MCLargeMemory ---------------------------
(***************************************************************************)
(* PhysicalMemory on a machine with 2064 pages, sixteen more than          *)
(* bitmap_t::get can tell apart.                                           *)
(***************************************************************************)
EXTENDS PhysicalMemory

LargeMemmap ==
  << [base |-> 0, length |-> page_size, usable |-> FALSE],
     [base |-> page_size, length |-> 2063 * page_size, usable |-> TRUE] >>

LargeCounts == {1, 2046}

=============================================================================
