--------------------------- MODULE PageAllocator ---------------------------
(***************************************************************************)
(* What the physical memory manager promises its callers, without the      *)
(* bitmap, the cursor or the order of the search: a caller gets a run of   *)
(* consecutive free pages that is its own until it gives it back, and a    *)
(* request for a single page fails only when no page at all is free.       *)
(* A failed request is final (the kernel halts).                           *)
(***************************************************************************)
EXTENDS Integers

CONSTANTS
  Allocatable,   \* the pages the allocator may hand out
  Counts         \* how many pages callers ask for

VARIABLES
  avail,         \* pages nobody owns
  blocks,        \* runs owned by callers: [page, count] records
  failed         \* a request has failed

avars == <<avail, blocks, failed>>

Run(page, count) == page .. (page + count - 1)

AInit ==
  /\ avail = Allocatable
  /\ blocks = {}
  /\ failed = FALSE

Allocate(page, count) ==
  /\ ~failed
  /\ Run(page, count) \subseteq avail
  /\ avail' = avail \ Run(page, count)
  /\ blocks' = blocks \cup {[page |-> page, count |-> count]}
  /\ UNCHANGED failed

Release(b) ==
  /\ ~failed
  /\ avail' = avail \cup Run(b.page, b.count)
  /\ blocks' = blocks \ {b}
  /\ UNCHANGED failed

Fail(count) ==
  /\ ~failed
  /\ count = 1 => avail = {}
  /\ failed' = TRUE
  /\ UNCHANGED <<avail, blocks>>

ANext ==
  \/ \E count \in Counts : \E page \in avail : Allocate(page, count)
  \/ \E b \in blocks : Release(b)
  \/ \E count \in Counts : Fail(count)

ASpec == AInit /\ [][ANext]_avars

=============================================================================
