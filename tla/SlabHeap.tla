------------------------------ MODULE SlabHeap ------------------------------
(***************************************************************************)
(* The kernel heap (kernel/memory/memory.cpp) on top of the physical       *)
(* memory manager: slabs of equal objects for small requests, whole pages  *)
(* behind a page of meta-data for big ones.                                *)
(*                                                                         *)
(* Addresses and sizes are in bytes and are the code's own; the class      *)
(* sizes, the memory map and the requests are parameters. `mem' holds the  *)
(* words the heap keeps in the pages it owns: the slab_header at the start *)
(* of a slab page (the number of the slab), the link in the first word of  *)
(* a free object, and the two words of big_alloc_meta. A word that is      *)
(* handed to a caller leaves `mem', since the caller may write over it.    *)
(***************************************************************************)
EXTENDS Integers, Sequences, FiniteSets, FiniteSetsExt, Functions, TLC

CONSTANTS
  Memmap,        \* see PhysicalMemory
  hhdm_offset,   \* where the bootloader maps physical memory
  Sizes,         \* slabs[i].size, in the order of the constructor
  Requests,      \* sizes that callers ask for
  MaxLive        \* how many blocks callers hold at a time

VARIABLES
  clear, last_index, used_memory, blocks, oom,   \* of PhysicalMemory
  built,     \* how many slabs the constructor has initialised
  head,      \* slabs[i].head
  mem,       \* the heap's own words, by address
  live,      \* blocks in the hands of callers: the size asked for, by address
  call       \* a realloc() between its malloc and its free, or NoCall

pvars == <<clear, last_index, used_memory, blocks, oom>>
hvars == <<built, head, mem, live, call>>
vars == <<pvars, hvars>>

page_size == 4096

Min2(a, b) == IF a < b THEN a ELSE b

(* utils::align_down masks with ~(a - 1), for any a; the values used here  *)
(* fit in 16 bits.                                                         *)
Bit(n, k) == (n \div 2^k) % 2

align_down(n, a) ==
  MapThenSumSet(LAMBDA k : Bit(n, k) * (1 - Bit(a - 1, k)) * 2^k, 0 .. 15)

align_up(n, a) == align_down(n + a - 1, a)

DivRounddown(n, a) == n \div a

div_roundup(n, a) == (n + a - 1) \div a

tohh(a) == IF a >= hhdm_offset THEN a ELSE a + hhdm_offset

fromhh(a) == IF a >= hhdm_offset THEN a - hhdm_offset ELSE a

(* Numbers of pages the heap asks the manager for.                         *)
PageCounts == {1} \cup {div_roundup(s, page_size) + 1 : s \in Requests}

physical == INSTANCE PhysicalMemory WITH Counts <- PageCounts

ASSUME HeapAssumption ==
  /\ Sizes \in Seq(Nat \ {0})
  /\ \A c \in DOMAIN Sizes : Sizes[c] % 8 = 0 /\ Sizes[c] <= 1024
  /\ hhdm_offset % page_size = 0
  /\ hhdm_offset > physical!mem_usable_top
  /\ Requests \subseteq Nat \ {0}

NoCall == <<>>

(* Bound: the first argument of calloc().                                  *)
MaxNum == 5

-----------------------------------------------------------------------------
(* Slabs.                                                                  *)

(* The address of the pages that physical::alloc(count) is about to give.  *)
NewPages(count) == tohh(physical!Search(count).page * page_size)

HeaderSpace(size) == align_up(8, size)

(* Objects of a slab page.                                                 *)
Slots(base, size) ==
  {base + HeaderSpace(size) + i * size :
     i \in 0 .. ((page_size - HeaderSpace(size)) \div size - 1)}

(* slab_t::init writes the header and threads the free list through the    *)
(* objects of the new page, in address order. SlabPageOpen does not end    *)
(* the list.                                                               *)
SlabPageOpen(c, base) ==
  [a \in {base} \cup Slots(base, Sizes[c]) |->
     IF a = base THEN c ELSE a + Sizes[c]]

SlabPage(c, base) ==
  LET slots == Slots(base, Sizes[c])
  IN  [a \in {base} \cup slots |->
         IF a = base THEN c
         ELSE IF a + Sizes[c] \in slots THEN a + Sizes[c] ELSE 0]

FirstSlot(c, base) == base + HeaderSpace(Sizes[c])

(* slab_t::alloc: refill an empty slab, then pop. The words of the object  *)
(* are zeroed and from then on the caller's.                               *)
Refilled(c) ==
  IF head[c] = 0 THEN SlabPage(c, NewPages(1)) @@ mem ELSE mem

Popped(c) == IF head[c] = 0 THEN FirstSlot(c, NewPages(1)) ELSE head[c]

Without(m, first, length) ==
  Restrict(m, {a \in DOMAIN m : a < first \/ a >= first + length})

(* SlabAllocRest loses the rest of the page of a refill.                   *)
SlabAllocRest(c) ==
  /\ IF head[c] = 0 THEN physical!alloc(1) ELSE UNCHANGED pvars
  /\ IF oom' # 0
     THEN UNCHANGED <<head, mem>>
     ELSE /\ head' = [head EXCEPT ![c] = IF @ = 0 THEN 0 ELSE mem[@]]
          /\ mem' = Without(Refilled(c), Popped(c), Sizes[c])

(* SlabAllocKeeps leaves the object it takes from a new page on the list.  *)
SlabAllocKeeps(c) ==
  /\ IF head[c] = 0 THEN physical!alloc(1) ELSE UNCHANGED pvars
  /\ IF oom' # 0
     THEN UNCHANGED <<head, mem>>
     ELSE /\ head' = [head EXCEPT ![c] = IF @ = 0 THEN Popped(c) ELSE mem[@]]
          /\ mem' = IF head[c] = 0 THEN Refilled(c) ELSE Without(mem, Popped(c), Sizes[c])

slab_alloc(c) ==
  /\ IF head[c] = 0 THEN physical!alloc(1) ELSE UNCHANGED pvars
  /\ IF oom' # 0
     THEN UNCHANGED <<head, mem>>
     ELSE /\ head' = [head EXCEPT ![c] = Refilled(c)[Popped(c)]]
          /\ mem' = Without(Refilled(c), Popped(c), Sizes[c])

(* slab_t::free: push. SlabFreeUnlinked does not link to the old head.     *)
SlabFreeUnlinked(c, ptr) ==
  /\ mem' = (ptr :> 0) @@ mem
  /\ head' = [head EXCEPT ![c] = ptr]
  /\ UNCHANGED pvars

slab_free(c, ptr) ==
  /\ mem' = (ptr :> head[c]) @@ mem
  /\ head' = [head EXCEPT ![c] = ptr]
  /\ UNCHANGED pvars

-----------------------------------------------------------------------------
(* Big blocks.                                                             *)

Meta(ptr) == ptr - page_size

(* BigMallocShort does not ask for the page of the meta-data.              *)
BigMallocShort(size) ==
  LET pages == div_roundup(size, page_size)
      base == NewPages(pages)
  IN  /\ physical!alloc(pages)
      /\ mem' = IF oom' # 0 THEN mem
                ELSE (base :> pages) @@ (base + 8 :> size) @@ mem
      /\ UNCHANGED head

big_malloc(size) ==
  LET pages == div_roundup(size, page_size)
      base == NewPages(pages + 1)
  IN  /\ physical!alloc(pages + 1)
      /\ mem' = IF oom' # 0 THEN mem
                ELSE (base :> pages) @@ (base + 8 :> size) @@ mem
      /\ UNCHANGED head

(* BigFreeDataOnly forgets the page of the meta-data.                      *)
BigFreeDataOnly(ptr) ==
  /\ physical!free([page |-> fromhh(Meta(ptr)) \div page_size,
                    count |-> mem[Meta(ptr)]])
  /\ mem' = Without(mem, Meta(ptr), page_size)
  /\ UNCHANGED head

big_free(ptr) ==
  /\ physical!free([page |-> fromhh(Meta(ptr)) \div page_size,
                    count |-> mem[Meta(ptr)] + 1])
  /\ mem' = Without(mem, Meta(ptr), page_size)
  /\ UNCHANGED head

-----------------------------------------------------------------------------
(* The allocator.                                                          *)

(* get_slab: the first slab whose objects are large enough, or 0.          *)
get_slab(size) ==
  LET fits == {c \in DOMAIN Sizes : Sizes[c] >= size}
  IN  IF fits = {} THEN 0 ELSE Min(fits)

(* What malloc(size) does and what it returns.                             *)
Obtain(size) ==
  IF get_slab(size) = 0 THEN big_malloc(size) ELSE slab_alloc(get_slab(size))

Obtained(size) ==
  IF get_slab(size) = 0
  THEN NewPages(div_roundup(size, page_size) + 1) + page_size
  ELSE Popped(get_slab(size))

(* Big blocks start on a page boundary; any other block is in the slab     *)
(* named by the header of its page.                                        *)
IsBig(ptr) == ptr % page_size = 0

SlabOf(ptr) == mem[ptr - (ptr % page_size)]

Release(ptr) == IF IsBig(ptr) THEN big_free(ptr) ELSE slab_free(SlabOf(ptr), ptr)

alloc_size(ptr) == IF IsBig(ptr) THEN mem[Meta(ptr) + 8] ELSE Sizes[SlabOf(ptr)]

Forget(ptr) == Restrict(live, DOMAIN live \ {ptr})

Ready == oom = 0 /\ built = Len(Sizes) /\ call = NoCall

-----------------------------------------------------------------------------

Init ==
  /\ physical!Init
  /\ built = 0
  /\ head = [c \in DOMAIN Sizes |-> 0]
  /\ mem = <<>>
  /\ live = <<>>
  /\ call = NoCall

(* One line of the constructor.                                            *)
construct ==
  /\ oom = 0
  /\ built < Len(Sizes)
  /\ physical!alloc(1)
  /\ IF oom' # 0
     THEN UNCHANGED <<built, head, mem>>
     ELSE /\ built' = built + 1
          /\ head' = [head EXCEPT ![built + 1] = FirstSlot(built + 1, NewPages(1))]
          /\ mem' = SlabPage(built + 1, NewPages(1)) @@ mem
  /\ UNCHANGED <<live, call>>

malloc(size) ==
  /\ Ready
  /\ Cardinality(DOMAIN live) < MaxLive
  /\ Obtain(size)
  /\ live' = IF oom' # 0 THEN live ELSE (Obtained(size) :> size) @@ live
  /\ UNCHANGED <<built, call>>

(* calloc: malloc of the product; the memset is of what the caller got.    *)
calloc(num, size) == malloc(num * size)

free(ptr) ==
  /\ Ready
  /\ Release(ptr)
  /\ live' = Forget(ptr)
  /\ UNCHANGED <<built, call>>

(* realloc(ptr, size). A big block that keeps its number of pages stays    *)
(* where it is, with a new size in its meta-data and nullptr for the       *)
(* caller, who goes on holding the block as it was.                        *)
realloc_in_place(ptr, size) ==
  /\ Ready
  /\ IsBig(ptr)
  /\ div_roundup(alloc_size(ptr), page_size) = div_roundup(size, page_size)
  /\ mem' = [mem EXCEPT ![Meta(ptr) + 8] = size]
  /\ UNCHANGED <<pvars, built, head, live, call>>

Moves(ptr, size) ==
  IsBig(ptr) =>
    div_roundup(alloc_size(ptr), page_size) # div_roundup(size, page_size)

realloc_to_zero(ptr) ==
  /\ Moves(ptr, 0)
  /\ free(ptr)

(* Any other block moves: malloc, then the copy of as much as both hold    *)
(* and the free of the old block. CopiedWhole forgets that the new block   *)
(* may be the smaller one.                                                 *)
CopiedWhole(ptr, size) == alloc_size(ptr)

Copied(ptr, size) == Min2(size, alloc_size(ptr))

realloc(ptr, size) ==
  /\ Ready
  /\ Moves(ptr, size)
  /\ Obtain(size)
  /\ IF oom' # 0
     THEN UNCHANGED <<live, call>>
     ELSE /\ live' = (Obtained(size) :> size) @@ live
          /\ call' = [old |-> ptr, new |-> Obtained(size),
                      length |-> Copied(ptr, size)]
  /\ UNCHANGED built

realloc_copied ==
  /\ oom = 0
  /\ call # NoCall
  /\ Release(call.old)
  /\ live' = Forget(call.old)
  /\ call' = NoCall
  /\ UNCHANGED built

Halted ==
  /\ oom # 0
  /\ UNCHANGED vars

Next ==
  \/ construct
  \/ \E size \in Requests : malloc(size)
  \/ \E num \in 1 .. MaxNum, size \in Requests :
       num * size \in Requests /\ calloc(num, size)
  \/ \E ptr \in DOMAIN live : free(ptr)
  \/ \E ptr \in DOMAIN live, size \in Requests : realloc_in_place(ptr, size)
  \/ \E ptr \in DOMAIN live : realloc_to_zero(ptr)
  \/ \E ptr \in DOMAIN live, size \in Requests : realloc(ptr, size)
  \/ realloc_copied
  \/ Halted

Spec == Init /\ [][Next]_vars

-----------------------------------------------------------------------------

(* Pages the heap holds for slabs and for big blocks.                      *)
SlabBlocks == {b \in blocks : b.count = 1}

Base(b) == tohh(b.page * page_size)

SlabSlots(c) ==
  UNION {Slots(Base(b), Sizes[c]) : b \in {x \in SlabBlocks : mem[Base(x)] = c}}

(* The bytes behind a pointer that a caller holds.                         *)
Capacity(ptr) ==
  IF IsBig(ptr) THEN mem[Meta(ptr)] * page_size ELSE Sizes[SlabOf(ptr)]

(* Addresses on the free list of a slab, with the 0 that ends it.          *)
FreeList(c) ==
  LET walk[n \in Nat] ==
        IF n = 0 THEN {head[c]}
        ELSE LET seen == walk[n - 1]
             IN  seen \cup {mem[a] : a \in seen \cap DOMAIN mem}
  IN  walk[Cardinality(DOMAIN mem)]

(* Type invariant.                                                         *)
TypeOK ==
  /\ built \in 0 .. Len(Sizes)
  /\ head \in [DOMAIN Sizes -> {0} \cup DOMAIN mem]
  /\ \A a \in DOMAIN mem : a >= hhdm_offset /\ mem[a] \in Nat
  /\ \A ptr \in DOMAIN live : live[ptr] \in Requests
  /\ call = NoCall \/ {call.old, call.new} \subseteq DOMAIN live

(* Two blocks in the hands of callers never overlap, and none overlaps a   *)
(* word that the heap relies on: its headers, its links, its meta-data.    *)
LiveDisjoint ==
  \A p \in DOMAIN live :
    /\ \A q \in DOMAIN live : p < q => p + Capacity(p) <= q
    /\ \A a \in DOMAIN mem : a < p \/ a >= p + Capacity(p)

(* A block has room for what its caller asked for, found as free() and     *)
(* realloc() find it: by the alignment of the pointer and the header or    *)
(* the meta-data of its page.                                              *)
RoomForRequest == \A p \in DOMAIN live : live[p] <= Capacity(p)

(* The free list of a slab ends, and runs through exactly the objects of   *)
(* its pages that no caller holds: no object is lost, none is on a list    *)
(* twice, none is on the list of another slab.                             *)
FreeListsComplete ==
  oom = 0 => \A c \in 1 .. built :
               FreeList(c) = {0} \cup (SlabSlots(c) \ DOMAIN live)

(* Pages go back to the manager: besides its slab pages the heap holds     *)
(* exactly the pages of the big blocks that callers hold.                  *)
NoPageLeaked ==
  {b \in blocks : b.count # 1} =
    {[page |-> fromhh(Meta(p)) \div page_size, count |-> mem[Meta(p)] + 1] :
       p \in {q \in DOMAIN live : IsBig(q)}}

(* The copy that realloc() makes stays inside both blocks.                 *)
CopyInBounds ==
  call # NoCall => /\ call.old # call.new
                   /\ call.length <= Capacity(call.old)
                   /\ call.length <= Capacity(call.new)

(* The heap uses the manager as its specification allows: in particular it *)
(* frees exactly the runs that alloc() gave it.                            *)
UsesPhysicalMemory == physical!Spec

=============================================================================
