# A formal model of the Ice kernel

Ice is a small x86_64 kernel in C++. This directory holds TLA+ modules that
model its memory management, smart pointers, interrupt handling and C library,
TLC configurations that check them on small machines, and TLAPS proofs about the
physical memory manager, the smart pointers and the interrupt dispatch. Paths
below are relative to `src/kernel/`.

## The system

`_start` (`kernel.cpp`) runs once, on one processor: terminal, GDT, IDT and PIC,
interrupts on, physical memory manager (which constructs the heap), paging,
a few log lines, halt. There are no threads and no processes yet. What runs
concurrently with the boot path is interrupt handlers.

| Component | State | Operations | Interacts with |
|---|---|---|---|
| Physical memory manager (`memory/physical.cpp`, `utils/bitmap.cpp`) | bitmap, cursor, byte counters | `init`, `alloc`, `free` | bootloader memory map, heap, `fork` |
| Heap (`memory/memory.cpp`) | ten slabs with free lists threaded through pages, meta-data pages of big blocks | constructor, `malloc`, `calloc`, `realloc`, `free` | manager, every `new` and `delete` |
| Paging (`memory/virtual.cpp`, `arch/x86_64/memory/virtual.cpp`) | four-level tables, shared kernel half, TLB | `init`, `map`, `unmap`, `remap`, `set_flags`, `load`, construct, destroy | heap (tables), ranges |
| Memory ranges (`memory/memmap.cpp`) | `ranges` of a pagemap, shared `global`s with shadow pagemaps | `map_range`, `fork`, destructor | paging, manager, smart pointers |
| Smart pointers (`libs/libc++/memory`) | reference and weak counts of a control block | construct, copy, move, assign, reset, `lock` | heap |
| Interrupts (`arch/x86_64/idt`, `cpu/pic.cpp`) | IDT, handler table, PIC mask and in-service registers | register, dispatch, end of interrupt, mask | every other part |
| libc (`libs/libc`) | none (pure), except the seed of `rand` | strings, number parsing, `printf` | logger, terminal |
| `vector`, `optional`, locks (`libs/libc++`) | container and lock flags | container operations | heap, ranges |
| GDT, processor helpers, logger, terminal, panic | encodings and output; halt | | |

What is hard to test here: long sequences of legal calls that bring the cursor,
a free list, the bitmap or a table tree into a bad state; limits (out of memory,
an exhausted slab, the width of an index); a `realloc` that fails or refills
half-way; counts that must balance over a whole run; stale TLB entries; races of
`weak_ptr::lock` with the last release; interrupts between two stores; and the
many combinations of a `printf` directive.

## Modules

| Module | Models |
|---|---|
| `PageAllocator` | what the manager promises, without bitmap or search |
| `PhysicalMemory` | `physical.cpp` and `bitmap.cpp` |
| `SlabHeap` | `memory.cpp` on top of `PhysicalMemory` |
| `SharedPtr` | `shared_ptr` and `weak_ptr` of `libs/libc++/memory` |
| `Interrupts` | `idt.cpp` after a stub is entered, `pic.cpp`, the interrupt flag |
| `DescriptorTable` | the bytes of the IDT |
| `PageTableEntry` | `pt_entry_t` and the flag words |
| `AddressSpaces` | what paging promises, without tables |
| `PageTables` | `virtual.cpp` (both) and `memmap.cpp` |
| `Printf` | `stdio.cpp` without floating point |
| `CLibrary` | `string.cpp`, `ctype.cpp`, parsing of `stdlib.cpp`, `printi` of `terminal.cpp` |
| `MC...` | constants for TLC |
| `PhysicalMemoryProofs`, `SharedPtrShape`, `SharedPtrCounts`, `SharedPtrProofs`, `InterruptsProofs` | theorems |

Definitions whose comment calls them a variant or names a mistake
(`MarkUsedShort`, `SearchOnce`, `ReleaseRefEarly`, `NoInvlpg`, ...) are plausible
errors. No specification uses them; putting one in the place of the definition
after it makes TLC find one of the properties violated, which shows that the
property depends on that piece of code.

### PhysicalMemory

The state is the set `clear` of bitmap bits that hold 0, the cursor
`last_index`, `used_memory`, and two variables that observe: `blocks` (runs
handed out) and `oom` (the request that ended in the panic). `init()` is the
initial state: the constants `Memmap` and `page_size` give `PageLimit`, the
bitmap's size and host entry, and the allocatable pages. `alloc(count)` is both
passes of the search and the panic, `free(b)` gives back a block. The byte index
of `bitmap_t::get` wraps at 256 and that of `bitmap_t::set` at 65536, as their
types do. After the panic the processor halts: `Halted` stutters.

Assumed of the map (`MemmapAssumption`): usable entries are page-aligned, do
not overlap and leave out page 0, which the Limine protocol guarantees, and one
of them can host the bitmap, which `init` takes for granted. Callers free
exactly what they were given; that the heap does is checked below.

Left out: contents of pages, `alloc(0)` (returns at once), `mem_top` and
`total_memory` (nothing modelled reads them).

### SlabHeap

The module runs the actions of `PhysicalMemory` (`physical!alloc`,
`physical!free`) inside its own. Addresses are virtual, with `tohh` and `fromhh`
as in the code. `mem` maps addresses to the words the heap keeps in memory:
slab headers, links of free objects, meta-data. A word that goes to a caller
leaves `mem`: the heap must never read it again until it is back. `live` records
what callers hold. The constructor takes one step per slab (`construct`).
`malloc` and `free` are one step; a moving `realloc` takes two, its `malloc` and
its copy and `free`, with no other call between them (`call`), so that each
step is at most one call of the manager.

`realloc` of a big block whose page count stays the same writes the new size and
returns `nullptr`. The model follows: the caller keeps the block as it was.

`calloc` is a `malloc` of the product and a fill that must stay inside the block.

Left out: the wrap-around of `calloc`'s product (beyond TLC's integers),
`malloc(0)` (an object of the smallest class), the contents of blocks, and
`operator new` and `delete`, which forward.

### SharedPtr

A slot is a pointer variable: `ctrl` says which control block it points to, `ref`
and `weak` are the two atomic counters of each block, `object` and `block` say
whether the object was destroyed and the block freed. An operation is taken apart
into its atomic accesses (`release_ref`, `delete_object`, `release_weak`,
`delete_block`, `assign`, `add_ref`, `add_weak`, and `load` and `cas` of `lock`);
`at` holds where each context is. A construction is an assignment to an empty
slot, and `__ptr` always goes with `__ctrl` and is not kept. As everywhere with
these types, two contexts do not use the same pointer variable when one of them
writes it; they do share control blocks.

### Interrupts and DescriptorTable

`Interrupts` has the two controllers (`irr`, `in_service`, `imr`: hardware,
modelled from the 8259's rules), the processor (`interrupts`, `cpu`), the handler
table and the main flow, whose `register_interrupt_handler` is a step per store
and whose `mask` and `unmask` are a read and a write. `eoi` writes to the port the
code computes: for slave vectors that is the master's port both times, so the
slave's in-service bit stays. Devices raise lines at any time and without a
bound; acknowledging a line is an action of its own for each line. `called` and
`registered` observe.

`DescriptorTable` lays the packed `idt_entry_t` out in bytes, fills the array as
`idt::init` does, and reads it back in the processor's 16-byte gates.

### PageTables, PageTableEntry and AddressSpaces

`tables` maps table addresses to their entries; walking, allocating a missing
level, mapping in three page sizes (TLC runs two, without 1 GiB pages), unmapping and destroying follow the code over
that map. `init` builds the kernel's tables from a memory map; then callers `map`,
`unmap`, `remap`, `set_flags`, create, `load`, `fork` and delete pagemaps and
create ranges. The processor may cache a translation at any time (`access`);
`invlpg` and loading CR3 drop it. `space` is what the processor finds in the
tables after each step, and is the refinement mapping to `AddressSpaces`. The
destructor of a pagemap with ranges never advances its loop: `spin`. Fan-outs are
4 at the top and 2 below instead of 512; the address arithmetic is the code's
with these. `TypeOK` follows the levels: directories lead to allocated tables, the
last level to data and never to a table.

### Printf and CLibrary

`Printf` reads a format character by character, the caller choosing each next
character and each argument as it is fetched, with machine integers of small
widths. The parse of flags, width, precision and length, `print_integer`,
`print_integer_finalization`, `out_rev`, strings, characters, pointers and the
gadgets with their bounds are translated, the string conversion with its two
loops; the buffer remembers which character of the output each cell holds. The
history variable `asked` reads each directive by the C standard's grammar, next to
the code's parse. `IntegersAsStandard` and `StringsAsStandard` compare the code's
output with the standard's rules applied to `asked`: they share neither the flags
nor the digit loop with the code. Both except a negative `*` precision, which the
code takes for 0 and the standard for an omitted one.

`CLibrary` translates each loop as a recursive operator over a small memory and
compares it with what the function is for. `memcmp` gives the set of its possible
results, since its sign may depend on a character behind the blocks. `strtol` and
`strtoll` are two copies of the same code and are translated one by one. Because
of its recursion the module is for TLC only.

## Runs

| Run | Module, config | Shows |
|---|---|---|
| `pmm` | `MCPhysicalMemory`, `PhysicalMemory.cfg` | type, disjoint blocks, bitmap and accounting, when a request may fail, refinement of `PageAllocator` |
| `pmm_straddle` | `MCPhysicalMemory`, `PhysicalMemoryStraddle.cfg` | violated: "Out of memory!" with a free run across the cursor |
| `pmm_large` | `MCLargeMemory`, `PhysicalMemoryLarge.cfg` | violated: "Out of memory!" with free pages above 8 MiB |
| `heap` | `MCSlabHeap`, `SlabHeap.cfg` | no overlap, room, complete free lists, no leak, copies in bounds, correct use of the manager |
| `heap_refill` | `MCSlabHeap`, `SlabHeapRefill.cfg` | overlap and free lists when a slab runs empty again and again |
| `shared_ptr` | `SharedPtr`, `SharedPtr.cfg` | exact counts, no use after free of object or block, no leak, no resurrection, operations end |
| `weak_ptr_assign` | `SharedPtr`, `WeakAssign.cfg` | violated: a block is deleted while a `weak_ptr` points to it |
| `interrupts` | `Interrupts`, `Interrupts.cfg` | the master serves what is handled, calls get what was registered, no request is held back for ever without a cause |
| `idt` | `DescriptorTable`, `DescriptorTable.cfg` | violated: the gates do not lead to the stubs |
| `paging` | `MCPageTables`, `PageTables.cfg` | tables and data are never confused, every table has one owner, no stale translation of an unmapped page, refinement of `AddressSpaces` |
| `printf` | `MCPrintf`, `Printf.cfg` | output in bounds and terminated, integer and string conversions as the C standard says, calls end |
| `libc` | `MCCLibrary`, `CLibrary.cfg` | copies, results, numerals, parsers that read nothing behind their string |

### Bounds

- `pmm`: eleven pages: page 0 reserved, six usable of which the bitmap takes one,
  a hole, three usable; requests of one to three pages. That is enough for several
  blocks, fragmentation, runs that end at the hole, at the limit and at the
  cursor, both passes, and failure of every request size. `pmm_large` has 2064
  pages, sixteen more than 256 * 8.
- `heap`: nine usable pages, the classes 672 and 1024 with their real header
  offsets (six and three objects), big requests of one page (two sizes, for the
  change in place) and of two, and at most two blocks per caller besides the one
  in `realloc`; memory runs out in many ways. `heap_refill` has one class of three
  objects and at most four blocks besides the one in `realloc`, so that slabs take a
  second page.
- `shared_ptr`: two contexts, two pointers of each kind, two blocks. Every pair of
  operations overlaps in every order, a `lock` meets the last release, and a
  pointer changes from one block to another. The proofs lift the bounds.
- `interrupts`: lines 1 and 3 of the master and line 8 of the slave, which ranks
  between them, a driver vector that is also an interrupt vector, two handlers.
  Requests are unbounded. Three levels of priority, a slave request behind an
  unfinished one, and registration over an existing handler occur.
- `paging`: 32 pages, the kernel's pagemap and three more (symmetric), seven steps
  (`init` and accesses included), one range each, a processor without 1 GiB pages.
  Six steps after `init` are enough to create a pagemap, load it, map, access,
  unmap or remap and access again, or to create one, give it a range, fork it and
  delete both.
- `printf`: formats of up to six characters over eighteen, arguments at the edges
  of the widths, a function gadget and buffers of 0, 1, 2 and 3 characters with a
  watched cell behind them: output ends before, at and after the end of the buffer.
- `libc`: five cells, six characters, and `printi` at the edges of `int`.

### Fairness and termination

`SharedPtr` assumes that a context inside an operation continues it (weak fairness
of `Step`). Contexts are flows of control that execute straight-line code, so this
is what a processor does; nothing obliges them to begin another operation.
`FinishesAlone` then says that the compare-and-swap loop of `lock` can fail for
ever only if others keep operating for ever. `Interrupts` assumes that boot goes
on, that handlers run on, and strong fairness of acknowledging each line, because
the processor samples requests at every instruction boundary and a main flow full
of `int` instructions cannot hold them off. A request that stays pending for ever
then has a lasting cause, and `Served` allows two: from some time on the line is
masked or interrupts are off whenever the main flow runs (which includes a halt),
or lines of higher priority are handled again and again. Each is needed: without
it TLC finds a counterexample. Of slave lines `Served` speaks only as long as the
slave has delivered nothing, since it never gets an end-of-interrupt. `Printf`
assumes that the one call runs on.

Deadlock is checked except where the modelled thing stops: `interrupts` (an
exception halts the machine), `idt` (the table is written once), `paging` (the
bound on calls), `printf` (the call returns).

### Findings

- The run counter of `alloc` starts anew in each pass, so a free run that contains
  the cursor is invisible (`memory/physical.cpp:46-71`).
- `bitmap_t::get` truncates its byte index to 8 bits (`utils/bitmap.cpp:8`), so
  beyond 2048 pages it reads other pages' bits, although the kernel is run with
  128 MiB (`src/CMakeLists.txt:75`).
- The assignment of a `weak_ptr` of another type takes over the control block
  without counting itself (`include/libs/libc++/memory:364`).
- `offset_middle` of `idt_entry_t` has 8 bits instead of 16
  (`include/arch/x86_64/idt/idt.hpp:32`).

Seen while modelling, without a line in the repository that promises otherwise:
the slave controller gets no end-of-interrupt; a handler whose registration is
half done is called with the argument of the one before; `memmove` to a higher
address starts at index -1; the sign of `memcmp` compares with the third character
of the second block (`string.cpp:124`); `strtol` and `strtoll` keep only the last
digit, times the base; a negative `*` precision of `printf` counts as 0; the
destructor of a pagemap with ranges does not end.

## Proofs

**Physical memory** (`PhysicalMemoryProofs`), for every memory map and every set
of requests, under `WithinReach` (at most 2048 pages, and a bit for each):

- `Disjointness`: `Spec => []BlocksDisjoint`;
- `Agreement`: `Spec => []BitmapAgrees`;
- `OutOfMemory`: `Spec => []OutOfMemoryOnlyAcrossCursor`;
- `Refinement`: `Spec => ImplementsPageAllocator`;

and, under `SizesAdd` as well, `FreeMemory` and `TypeCorrect`.

`WithinReach` is needed: `pmm_large` shows what happens without it. `SizesAdd`
says that the lengths of usable entries add up to the pages they contain; it
follows from alignment and disjointness by an induction over the entries, which
the provers cannot do. `MCPhysicalMemory` assumes both, so TLC evaluates them.
The inductive invariant says that the bits holding 0 are exactly the allocatable
pages in no block: `BlocksDisjoint` alone does not know that a page whose bit
reads free is nobody's.

**Smart pointers** (`SharedPtrShape`, `SharedPtrCounts`, `SharedPtrProofs`), for
any number of contexts, pointers and control blocks, provided the converting
`weak_ptr` assignment is not used (`"convert" \notin Operations`; the run
`weak_ptr_assign` shows that it must not be): `CountsCorrect`, `BlocksSafe`,
`ObjectsSafe`, `NoLeak`, `DeadStaysDead` and `TypeCorrect`. The inductive
invariant has four layers. `Shape`: where a context is determines what its source
and destination point to. `Exclusive`: nobody else writes them. `CountsExact`:
each counter is the cardinality of the set of slots that account for it; every
access adds or removes one slot, a move exchanges two. `Lives`: what has a count
is alive, what is alive has a count or exactly one context that is about to delete
it. `CountsExact` is not inductive without the first two, and no safety property
is without `Lives`: a context that copies or locks relies on its source being
counted, which keeps the counter it increments from having reached zero.

**Interrupts** (`InterruptsProofs`), for any set of lines, vectors, handlers and
arguments: `MasterCorrect`, `CallsCorrect`, `TypeCorrect`. Assumed: vectors that
drivers register are 32 or more, and a null handler is no handler. The invariant
adds which vector the processor holds at which point, and what a half-done
registration has stored.

Only model-checked: the heap, paging, the descriptor table, `printf` and the C
library; and all liveness (`FinishesAlone`, `Served`, `CallEnds`), which is
beyond the provers.

## Not modelled

- Floating-point conversions of `printf` and their helpers (`stdio.cpp:299-706`
  and the cases that call them): IEEE doubles are outside TLA+'s integers.
- `rand`: a 64-bit generator, beyond TLC's integers. `abs` and `div` are single
  operators.
- Large-page calls after `init`: `unmap` then treats data as a table, and what
  happens depends on the data. `save` has no caller; the `*_range` functions loop
  over modelled calls; `address_to_range` always fails, since no range stores a
  length.
- GDT and processor helpers: constants written once, and single instructions.
- Boot order: one straight line of calls. Each `init` is the first action of its
  module.
- Logger and terminal output other than `printi`: strings handed to the
  bootloader's terminal; no state.
- `vector`, `optional`, `tuple`, `type_traits`, iterators: sequential containers
  and compile-time code. The one use of `vector` is a sequence in `PageTables`.
- Locks: templates over a mutex type that does not exist in the repository.
- `limine.h`: declarations of the bootloader's protocol.
