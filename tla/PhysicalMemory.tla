--------------------------- MODULE PhysicalMemory ---------------------------
(***************************************************************************)
(* The physical memory manager (kernel/memory/physical.cpp) and the bitmap *)
(* it keeps (kernel/utils/bitmap.cpp).                                     *)
(*                                                                         *)
(* Sizes are the code's own: 4096-byte pages, 8 bits per byte, and the     *)
(* byte index that bitmap_t::get keeps in a uint8_t and bitmap_t::set in a *)
(* uint16_t. Only the memory map and the requests are parameters.          *)
(*                                                                         *)
(* The bitmap's buffer is the set `clear' of the bit positions that hold   *)
(* 0. The contents of pages (alloc zeroes them) are not part of the state. *)
(***************************************************************************)
EXTENDS Integers, Sequences, FiniteSets, FiniteSetsExt

CONSTANTS
  Memmap,    \* the Limine memory map: a sequence of [base, length, usable]
  Counts     \* numbers of pages callers ask for

VARIABLES
  clear,         \* bits of `bitmap' that are 0
  last_index,    \* cursor of the search
  used_memory,   \* in bytes
  blocks,        \* runs handed out and not given back: [page, count] records
  oom            \* 0, or the request that ended in the out-of-memory panic

vars == <<clear, last_index, used_memory, blocks, oom>>

page_size == 4096

-----------------------------------------------------------------------------
(* utils::align_up and utils::div_roundup for a power of two.              *)

align_up(n, a) == ((n + a - 1) \div a) * a

div_roundup(n, a) == (n + a - 1) \div a

(* The bit of the buffer that get and set touch: the byte index is cut to  *)
(* 8 and to 16 bits.                                                       *)
GetBit(index) == ((index \div 8) % 256) * 8 + (index % 8)

SetBit(index) == ((index \div 8) % 65536) * 8 + (index % 8)

get(clr, index) == GetBit(index) \notin clr

SetBits(indices) == {SetBit(i) : i \in indices}

Run(page, count) == page .. (page + count - 1)

(* The loops that set and clear the bits of a run; MarkUsedShort and       *)
(* MarkFreeShort are the variants that stop one page early.                *)
MarkUsedShort(clr, page, count) == clr \ SetBits(Run(page, count - 1))

MarkUsed(clr, page, count) == clr \ SetBits(Run(page, count))

MarkFreeShort(clr, page, count) == clr \cup SetBits(Run(page, count - 1))

MarkFree(clr, page, count) == clr \cup SetBits(Run(page, count))

-----------------------------------------------------------------------------
(* init(), up to the construction of the heap.                             *)

UsableEntries == {i \in DOMAIN Memmap : Memmap[i].usable}

top(i) == Memmap[i].base + Memmap[i].length

mem_usable_top == Max({0} \cup {top(i) : i \in UsableEntries})

PageLimit == mem_usable_top \div page_size

usable_memory == MapThenSumSet(LAMBDA i : Memmap[i].length, UsableEntries)

bitmap_size == align_up(PageLimit \div 8, page_size)

(* The first usable entry the bitmap fits in gives up its first pages.     *)
BitmapHosts == {i \in UsableEntries : Memmap[i].length >= bitmap_size}

BitmapEntry == Min(BitmapHosts)

CarvedSize(i) == IF i = BitmapEntry THEN bitmap_size ELSE 0

CarvedBase(i) == Memmap[i].base + CarvedSize(i)

CarvedLength(i) == Memmap[i].length - CarvedSize(i)

EntryPages(i) ==
  Run(CarvedBase(i) \div page_size, div_roundup(CarvedLength(i), page_size))

Allocatable == UNION {EntryPages(i) : i \in UsableEntries}

(* What the Limine protocol guarantees of the map: usable entries are      *)
(* page-aligned, do not overlap and leave out page 0; and what init()      *)
(* takes for granted: some usable entry can host the bitmap.               *)
ASSUME MemmapAssumption ==
  /\ Memmap \in Seq([base : Nat, length : Nat, usable : BOOLEAN])
  /\ \A i \in UsableEntries :
       /\ Memmap[i].base % page_size = 0 /\ Memmap[i].length % page_size = 0
       /\ Memmap[i].base > 0
  /\ \A i, j \in UsableEntries :
       i # j => top(i) <= Memmap[j].base \/ top(j) <= Memmap[i].base
  /\ BitmapHosts # {}

ASSUME CountsAssumption == Counts \subseteq Nat \ {0}

Init ==
  /\ clear = SetBits(Allocatable)
  /\ last_index = 0
  /\ used_memory = bitmap_size
  /\ blocks = {}
  /\ oom = 0

-----------------------------------------------------------------------------
(* inner_alloc(limit) with the cursor at `from': the ends of the runs of   *)
(* count free pages it would stop at. It takes the first one; without one  *)
(* it returns nullptr with the cursor at the limit.                        *)
(* RunEndsNoReset is the variant that does not restart the count at a used *)
(* page.                                                                   *)
RunEndsNoReset(clr, from, limit, count) ==
  {e \in (from + count) .. limit :
     /\ ~get(clr, e - 1)
     /\ Cardinality({i \in from .. (e - 1) : ~get(clr, i)}) >= count}

RunEnds(clr, from, limit, count) ==
  {e \in (from + count) .. limit : \A i \in Run(e - count, count) : ~get(clr, i)}

inner_alloc(clr, from, limit, count) ==
  LET ends == RunEnds(clr, from, limit, count)
      e == Min(ends)
  IN  IF ends = {}
      THEN [page |-> 0, last |-> Max({from, limit}), clear |-> clr]
      ELSE [page |-> e - count, last |-> e,
            clear |-> MarkUsed(clr, e - count, count)]

(* Both passes of alloc(count): from the cursor up, then from 0 to where   *)
(* the cursor was. Page 0 is nullptr, and so is a failed pass.             *)
(* SearchOnce is the variant without the second pass.                      *)
SearchOnce(count) == inner_alloc(clear, last_index, PageLimit, count)

Search(count) ==
  LET first == inner_alloc(clear, last_index, PageLimit, count)
  IN  IF first.page # 0
      THEN first
      ELSE inner_alloc(first.clear, 0, last_index, count)

(* AllocCharged is the variant that counts the pages before it knows that  *)
(* it has found them.                                                      *)
AllocCharged(count) ==
  LET ret == Search(count)
  IN  /\ oom = 0
      /\ clear' = ret.clear
      /\ last_index' = ret.last
      /\ used_memory' = used_memory + count * page_size
      /\ blocks' = IF ret.page = 0 THEN blocks
                   ELSE blocks \cup {[page |-> ret.page, count |-> count]}
      /\ oom' = IF ret.page = 0 THEN count ELSE oom

alloc(count) ==
  LET ret == Search(count)
  IN  /\ oom = 0
      /\ clear' = ret.clear
      /\ last_index' = ret.last
      /\ IF ret.page # 0
         THEN /\ used_memory' = used_memory + count * page_size
              /\ blocks' = blocks \cup {[page |-> ret.page, count |-> count]}
              /\ oom' = oom
         ELSE /\ oom' = count
              /\ UNCHANGED <<used_memory, blocks>>

(* free(ptr, count), called with what alloc returned and was asked for.    *)
(* FreeUncounted is the variant that takes one page off the books.         *)
FreeUncounted(b) ==
  /\ oom = 0
  /\ clear' = MarkFree(clear, b.page, b.count)
  /\ last_index' = Min({last_index, b.page})
  /\ used_memory' = used_memory - page_size
  /\ blocks' = blocks \ {b}
  /\ UNCHANGED oom

free(b) ==
  /\ oom = 0
  /\ clear' = MarkFree(clear, b.page, b.count)
  /\ last_index' = Min({last_index, b.page})
  /\ used_memory' = used_memory - b.count * page_size
  /\ blocks' = blocks \ {b}
  /\ UNCHANGED oom

(* panic() halts the processor for good.                                   *)
Halted ==
  /\ oom # 0
  /\ UNCHANGED vars

Next ==
  \/ \E count \in Counts : alloc(count)
  \/ \E b \in blocks : free(b)
  \/ Halted

Spec == Init /\ [][Next]_vars

-----------------------------------------------------------------------------
(* Machines on which the two byte indices and the bitmap reach every page. *)
(* bitmap_t::get sees 256 * 8 pages (8 MiB); bitmap_size rounds the number *)
(* of bytes down before it rounds up to whole pages.                       *)
WithinReach ==
  /\ PageLimit <= 2048
  /\ bitmap_size * 8 >= PageLimit

(* The sizes of usable entries add up to the pages they hold, as they do   *)
(* when entries are page-aligned and disjoint.                             *)
SizesAdd ==
  usable_memory = bitmap_size + Cardinality(Allocatable) * page_size

Owned == UNION {Run(b.page, b.count) : b \in blocks}

FreePages == Allocatable \ Owned

(* The pages whose bit reads free.                                         *)
ReadsFree == {p \in 0 .. (PageLimit - 1) : ~get(clear, p)}

(* Type invariant; used_memory never runs below the bitmap's own pages nor *)
(* past usable_memory, so that free() and used() never wrap.               *)
TypeOK ==
  /\ clear \subseteq 0 .. (bitmap_size * 8 - 1)
  /\ last_index \in 0 .. PageLimit
  /\ used_memory \in bitmap_size .. usable_memory
  /\ blocks \subseteq [page : Allocatable, count : Counts]
  /\ oom \in Counts \cup {0}

(* No page is ever in two blocks that alloc() has handed out, and every    *)
(* page handed out is usable memory that does not hold the bitmap.         *)
BlocksDisjoint ==
  /\ Owned \subseteq Allocatable
  /\ \A b, c \in blocks :
       b # c => Run(b.page, b.count) \cap Run(c.page, c.count) = {}

(* The bitmap reads free for exactly the pages nobody owns, whatever       *)
(* sequence of alloc() and free() has set and cleared its bits.            *)
BitmapAgrees ==
  ReadsFree = FreePages

(* physical::free() (usable_memory - used_memory) is the size of the pages *)
(* that can still be handed out.                                           *)
Accounting ==
  usable_memory - used_memory = Cardinality(FreePages) * page_size

(* alloc(count) panics only if every run of count free pages contains both *)
(* the page below the cursor and the page at it: such a run is the only    *)
(* kind neither pass of the search can see. In particular a request for    *)
(* one page fails only when no page is free.                               *)
OutOfMemoryOnlyAcrossCursor ==
  oom # 0 =>
    \A p \in FreePages :
      Run(p, oom) \subseteq FreePages =>
        {last_index - 1, last_index} \subseteq Run(p, oom)

(* What the panic message of alloc() says, "Out of memory!": no run of     *)
(* free pages of the size asked for is left.                               *)
OutOfMemoryMeansNoRun ==
  oom # 0 => \A p \in FreePages : ~(Run(p, oom) \subseteq FreePages)

(* The same message for a single page: no page is free.                    *)
OutOfMemoryMeansNoFreePage == oom = 1 => FreePages = {}

(* The manager implements the abstract page allocator, whose free pages    *)
(* are those the bitmap shows as free.                                     *)
Abstract ==
  INSTANCE PageAllocator WITH avail <- ReadsFree, failed <- (oom # 0)

ImplementsPageAllocator == Abstract!ASpec

=============================================================================
