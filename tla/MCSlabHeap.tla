----------------------------- MODULE MCSlabHeap -----------------------------
(***************************************************************************)
(* A heap with the two largest classes, on ten pages.                      *)
(***************************************************************************)
EXTENDS SlabHeap

Pages(first, number, usable) ==
  [base |-> first * page_size, length |-> number * page_size, usable |-> usable]

(* Page 0 is reserved and page 1 holds the bitmap.                         *)
HeapMemmap == << Pages(0, 1, FALSE), Pages(1, 9, TRUE) >>

HigherHalf == 2^20

(* Six objects of 672 bytes or three of 1024 fill a page.                  *)
TwoClasses == <<672, 1024>>

(* One request per class and three big ones: two of one page, so that a    *)
(* block can change its size in place, and one of two.                     *)
HeapRequests == {600, 1000, 3000, 4096, 5000}

(* For slabs that fill up and take a second page: one class, one request   *)
(* for it and a big one.                                                   *)
OneClass == <<1024>>

RefillRequests == {1000, 3000}

=============================================================================
