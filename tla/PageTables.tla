----------------------------- MODULE PageTables -----------------------------
(***************************************************************************)
(* The virtual memory manager: pagemap_t and its four-level page tables    *)
(* (arch/x86_64/memory/virtual.cpp, include/memory/virtual.hpp), the range *)
(* objects of memory/memmap.cpp and paging::init of memory/virtual.cpp,    *)
(* with the processor's CR3 and TLB.                                       *)
(*                                                                         *)
(* Addresses are page numbers; a top table has TopFan entries, any other   *)
(* Fan, where the code has 512, so a 2 MiB page is Fan pages and a 1 GiB   *)
(* page Fan * Fan.  Table addresses and data pages are kept apart.  Only   *)
(* init makes large pages; callers use 4 KiB pages, where no large one is. *)
(***************************************************************************)
EXTENDS PageTableEntry, FiniteSets, FiniteSetsExt, Sequences, SequencesExt

CONSTANTS
  TopFan, Fan, \* entries of a table
  Tables,      \* bound: the pages the heap can give out for tables
  Maps, kernel_pagemap,
  gib1_pages,  \* whether the processor has 1 GiB pages
  Above,       \* memory-map pages above the large region
  Framebuffer, \* those of them that are the framebuffer
  Image,       \* upper-half pages of the kernel file
  CallPages,   \* pages the callers of map, unmap, ... use
  Frames,      \* physical pages they map
  Flags,       \* their flags
  Bases, Lengths, \* half-page addresses and lengths of map_range
  Watched,     \* bound: the pages whose translation is followed
  MaxRanges,   \* bound: ranges of a pagemap_t
  MaxCalls,    \* bound: calls of a behaviour
  none

VARIABLES
  tables,   \* allocated table -> index -> entry
  top_level,\* pagemap_t -> its top table, none where there is no object
  ranges,   \* pagemap_t -> the sequence of its local range objects
  cr3,      \* the pagemap_t the processor uses
  tlb,      \* a cached translation, and whether its entry was rewritten since
  space,    \* pagemap_t -> page -> the entry that translates it
  calls,    \* how many calls were made
  spinning  \* the pagemap_t whose destructor runs, none otherwise

vars == <<tables, top_level, ranges, cr3, tlb, space, calls, spinning>>

Lpage == Fan
LLpage == Fan * Fan
HalfPages == Fan * Fan * Fan * (TopFan \div 2)
High == HalfPages .. (2 * HalfPages - 1)
tohh(n) == n + HalfPages
Index == 0 .. (IF TopFan > Fan THEN TopFan ELSE Fan) - 1
UpperIndex == (TopFan \div 2) .. (TopFan - 1)
Live == {m \in Maps : top_level[m] # none}

index(n, level) == CASE level = 4 -> n \div (Fan * Fan * Fan)
                     [] level = 3 -> (n \div (Fan * Fan)) % Fan
                     [] level = 2 -> (n \div Fan) % Fan
                     [] level = 1 -> n % Fan

-----------------------------------------------------------------------------
(* Walks.  mem is a value of tables; a walk returns the tables it leaves   *)
(* and where it ended.                                                     *)

NewTable(mem) == Min(Tables \ DOMAIN mem)
WithTable(mem) ==
  [t \in DOMAIN mem \cup {NewTable(mem)} |->
     IF t \in DOMAIN mem THEN mem[t] ELSE [i \in Index |-> Zero]]
Store(mem, t, i, e) == [mem EXCEPT ![t][i] = e]

get_next_lvl(mem, t, i, allocate) ==
  CASE t = none -> [mem |-> mem, next |-> none]
    [] t # none /\ get_flags(mem[t][i], "present") ->
         [mem |-> mem, next |-> mem[t][i].addr]
    [] OTHER ->
         IF allocate
         THEN [mem |-> Store(WithTable(mem), t, i,
                 set_flags(set_address(mem[t][i], NewTable(mem)),
                           {"present", "write", "user"})),
               next |-> NewTable(mem)]
         ELSE [mem |-> mem, next |-> none]

(* The table and index of the entry of page n, for the given page size.    *)
virtual_to_pt_entry(mem, pml4, n, allocate, size) ==
  LET pml3 == get_next_lvl(mem, pml4, index(n, 4), allocate)
      pml2 == get_next_lvl(pml3.mem, pml3.next, index(n, 3), allocate)
      pml1 == get_next_lvl(pml2.mem, pml2.next, index(n, 2), allocate)
  IN  CASE size = LLpage -> [mem |-> pml3.mem, t |-> pml3.next, i |-> index(n, 3)]
        [] size = Lpage -> [mem |-> pml2.mem, t |-> pml2.next, i |-> index(n, 2)]
        [] OTHER -> [mem |-> pml1.mem, t |-> pml1.next, i |-> index(n, 1)]

(* virtual_to_physical that stops at the entry of a 2 MiB page.            *)
PhysicalOfLargePage(mem, pml4, n) ==
  LET w == virtual_to_pt_entry(mem, pml4, n, FALSE, Lpage) IN
  IF w.t = none THEN invalid_addr
  ELSE IF get_flags(mem[w.t][w.i], "present") THEN mem[w.t][w.i].addr
  ELSE invalid_addr

virtual_to_physical(mem, pml4, n) ==
  LET w == virtual_to_pt_entry(mem, pml4, n, FALSE, 1) IN
  IF w.t = none THEN invalid_addr
  ELSE IF get_flags(mem[w.t][w.i], "present") THEN mem[w.t][w.i].addr
  ELSE invalid_addr

map_one(mem, pml4, n, address, flags, cache, size) ==
  LET w == virtual_to_pt_entry(mem, pml4, n, TRUE, size) IN
  Store(w.mem, w.t, w.i,
        set_flags(set_address(w.mem[w.t][w.i], address),
                  RealFlags(flags, cache, size # 1)))

(* pagemap_t::map.  Without 1 GiB pages one becomes a run of 2 MiB pages.  *)
map(mem, pml4, n, address, flags, cache) ==
  CASE "LLPAGE" \in flags /\ ~gib1_pages ->
         FoldLeft(LAMBDA m, k : map_one(m, pml4, n + k * Lpage, address + k * Lpage,
                                  (flags \ {"LLPAGE"}) \cup {"LPAGE"}, cache, Lpage),
                  mem, [k \in 1 .. Fan |-> k - 1])
    [] "LLPAGE" \in flags /\ gib1_pages ->
         map_one(mem, pml4, n, address, flags, cache, LLpage)
    [] OTHER -> map_one(mem, pml4, n, address, flags, cache, 1)

unmap(mem, pml4, n) ==
  LET w == virtual_to_pt_entry(mem, pml4, n, FALSE, 1) IN
  IF w.t = none THEN mem ELSE Store(mem, w.t, w.i, Zero)

setFlags(mem, pml4, n, flags) ==
  LET w == virtual_to_pt_entry(mem, pml4, n, TRUE, 1) IN
  Store(w.mem, w.t, w.i, Flagged(w.mem[w.t][w.i], flags, default_caching))

(* A constructor that leaves the kernel's upper tables to the first map.   *)
AllocateLater(mem) ==
  LET t == NewTable(mem)
      new == WithTable(mem)
  IN  IF top_level[kernel_pagemap] = none THEN new
      ELSE [new EXCEPT ![t] = [i \in Index |->
              IF i \in UpperIndex THEN mem[top_level[kernel_pagemap]][i] ELSE Zero]]

(* The constructor: the kernel's map gets a table for each upper entry at  *)
(* once, every other copies those entries.                                 *)
pagemap_t(mem) ==
  LET t == NewTable(mem)
      new == WithTable(mem)
  IN  IF top_level[kernel_pagemap] = none
      THEN FoldLeft(LAMBDA m, i : get_next_lvl(m, t, i, TRUE).mem, new,
                    SetToSortSeq(UpperIndex, <))
      ELSE [new EXCEPT ![t] = [i \in Index |->
              IF i \in UpperIndex THEN mem[top_level[kernel_pagemap]][i] ELSE Zero]]

(* The tables below the entries i of table t, at each of three levels.     *)
Below(mem, ts, is) ==
  {mem[t][i].addr : <<t, i>> \in {x \in ts \X is :
                                    get_flags(mem[x[1]][x[2]], "present")}}

(* destroy_level that stops one level early.                               *)
DestroyThreeLevels(mem, pml4) ==
  LET pml3 == Below(mem, {pml4}, Index \ UpperIndex)
      pml2 == Below(mem, pml3, Index)
  IN  [t \in DOMAIN mem \ ({pml4} \cup pml3 \cup pml2) |-> mem[t]]

(* destroy_level over the lower half: the tables of four levels.           *)
destroy_pagemap(mem, pml4) ==
  LET pml3 == Below(mem, {pml4}, Index \ UpperIndex)
      pml2 == Below(mem, pml3, Index)
      pml1 == Below(mem, pml2, Index)
  IN  [t \in DOMAIN mem \ ({pml4} \cup pml3 \cup pml2 \cup pml1) |-> mem[t]]

-----------------------------------------------------------------------------
(* Init: the bootloader's tables are loaded, no pagemap_t exists.          *)

Init ==
  /\ tables = << >>
  /\ top_level = [m \in Maps |-> none]
  /\ ranges = [m \in Maps |-> << >>]
  /\ cr3 = none /\ spinning = none /\ calls = 0
  /\ tlb = none
  /\ space = [m \in Maps |-> none]

(* paging::init: the large region, which is the first 1 GiB page of each   *)
(* half, then memory above it, then the kernel file; load.                 *)
init ==
  LET t == NewTable(tables)
      cache(n) == IF n \in Framebuffer THEN "WRITE_COMBINING" ELSE default_caching
      Map4K(mem, ps, offset, flags, frame(_)) ==
        FoldLeft(LAMBDA m, n : map(m, t, n + offset, frame(n), flags, cache(n)),
                 mem, SetToSortSeq(ps, <))
      large == map(map(pagemap_t(tables), t, 0, 0, RWX \cup {"LLPAGE"}, default_caching),
                   t, tohh(0), 0, RW \cup {"LLPAGE"}, default_caching)
      above == Map4K(Map4K(large, Above, 0, RWX, LAMBDA n : n),
                     Above, HalfPages, RW, LAMBDA n : n)
  IN  /\ Live = {}
      /\ tables' = Map4K(above, Image, 0, RWX, LAMBDA n : n - Min(Image))
      /\ top_level' = [top_level EXCEPT ![kernel_pagemap] = t]
      /\ cr3' = kernel_pagemap
      /\ UNCHANGED <<ranges, tlb, spinning>>

-----------------------------------------------------------------------------
(* What the processor sees.                                                *)

(* The entry that translates page n, with the page it translates to.       *)
Large(e) == get_flags(e, "present") /\ get_flags(e, "bit7")
LargePart(e, n, size) == [e EXCEPT !.addr = 2 * (e.addr \div 2) + (n % size)]
Translation(mem, pml4, n) ==
  LET pml4e == mem[pml4][index(n, 4)]
      pml3e == mem[pml4e.addr][index(n, 3)]
      pml2e == mem[pml3e.addr][index(n, 2)]
  IN  IF ~get_flags(pml4e, "present") THEN Zero
      ELSE IF Large(pml3e) THEN LargePart(pml3e, n, LLpage)
      ELSE IF ~get_flags(pml3e, "present") THEN Zero
      ELSE IF Large(pml2e) THEN LargePart(pml2e, n, Lpage)
      ELSE IF ~get_flags(pml2e, "present") THEN Zero
      ELSE mem[pml2e.addr][index(n, 1)]

(* A translation is cached.  A cache of one entry is enough: entries do    *)
(* not affect each other, and any may be evicted at any time.  An entry    *)
(* with all address bits set is invalid and never cached.                  *)
access(n) ==
  /\ cr3 # none /\ spinning = none
  /\ get_flags(space[cr3][n], "present") /\ space[cr3][n].addr # pa_mask
  /\ tlb' = [page |-> n, entry |-> space[cr3][n], rewritten |-> FALSE]
  /\ UNCHANGED <<tables, top_level, ranges, cr3, spinning>>

load(m) ==
  /\ cr3' = m
  /\ tlb' = none
  /\ UNCHANGED <<tables, top_level, ranges, spinning>>

-----------------------------------------------------------------------------
(* Calls.                                                                  *)

Shadows == {r.shadow : r \in UNION {Range(ranges[m]) : m \in Maps}}
Callable(m) == m \in Live \ Shadows /\ spinning = none
Small(m, n) == n \in High \/ m = kernel_pagemap => n % HalfPages >= LLpage
Room(k) == Cardinality(Tables \ DOMAIN tables) >= k

Cached(n) == tlb # none /\ tlb.page = n

(* The entry of page n is rewritten; the cache is not told.                *)
Rewrite(m, n) ==
  IF Cached(n) /\ (m = cr3 \/ n \in High) THEN [tlb EXCEPT !.rewritten = TRUE]
  ELSE tlb

Map(m, n, frame, flags) ==
  /\ Room(3) /\ Small(m, n)
  /\ tables' = map(tables, top_level[m], n, frame, flags, default_caching)
  /\ tlb' = Rewrite(m, n)
  /\ UNCHANGED <<top_level, ranges, cr3, spinning>>

SetFlags(m, n, flags) ==
  /\ Room(3) /\ Small(m, n)
  /\ tables' = setFlags(tables, top_level[m], n, flags)
  /\ tlb' = Rewrite(m, n)
  /\ UNCHANGED <<top_level, ranges, cr3, spinning>>

(* unmap executes invlpg for the address, whichever map is loaded, unless  *)
(* it found no table.                                                      *)
NoInvlpg(m, n) == tlb
invlpg(m, n) ==
  IF Cached(n) /\ virtual_to_pt_entry(tables, top_level[m], n, FALSE, 1).t # none
  THEN none ELSE tlb

Unmap(m, n) ==
  /\ Small(m, n)
  /\ tables' = unmap(tables, top_level[m], n)
  /\ tlb' = invlpg(m, n)
  /\ UNCHANGED <<top_level, ranges, cr3, spinning>>

Remap(m, old, new, flags) ==
  LET address == virtual_to_physical(tables, top_level[m], old)
      without == unmap(tables, top_level[m], old)
  IN  /\ Room(3) /\ Small(m, old) /\ Small(m, new) /\ old # new
      /\ tables' = map(without, top_level[m], new, address, flags, default_caching)
      /\ tlb' = IF Cached(old) THEN invlpg(m, old) ELSE Rewrite(m, new)
      /\ UNCHANGED <<top_level, ranges, cr3, spinning>>

new_pagemap(m) ==
  /\ Live # {} /\ m \notin Live /\ Room(1) /\ spinning = none
  /\ tables' = pagemap_t(tables)
  /\ top_level' = [top_level EXCEPT ![m] = NewTable(tables)]
  /\ UNCHANGED <<ranges, cr3, tlb, spinning>>

(* ~pagemap_t.  unmap removes no range, so with one the loop never ends.   *)
delete_pagemap(m) ==
  /\ m \notin {kernel_pagemap, cr3}
  /\ IF ranges[m] = << >>
     THEN /\ tables' = destroy_pagemap(tables, top_level[m])
          /\ top_level' = [top_level EXCEPT ![m] = none]
          /\ UNCHANGED <<tlb, spinning>>
     ELSE /\ spinning' = m
          /\ UNCHANGED <<tables, top_level, tlb>>
  /\ UNCHANGED <<ranges, cr3>>

spin ==
  LET base == Head(ranges[spinning]).base IN
  /\ spinning # none
  /\ tables' = unmap(tables, top_level[spinning], base)
  /\ tlb' = invlpg(spinning, base)
  /\ UNCHANGED <<top_level, ranges, cr3, spinning>>

(* map_range of the memory-mapped range objects, h and length in half      *)
(* pages.  local->length is never assigned and stays 0: map_page finds no  *)
(* local that covers the page and maps the shadow only.                    *)
map_range(m, shadow, h, length, type) ==
  LET base == h \div 2
      count == (length + (h % 2) + 1) \div 2
      local == [base |-> base, length |-> 0, shared |-> type = "map_shared",
                shadow |-> shadow]
      t == NewTable(tables)
      map_page(mem, k) == map(mem, t, base + k, k, {"USER", "READ", "WRITE"},
                              default_caching)
  IN  /\ shadow \notin Live /\ Len(ranges[m]) < MaxRanges /\ Room(6)
      /\ m # kernel_pagemap
      /\ tables' = FoldLeft(map_page, pagemap_t(tables),
                            [k \in 1 .. count |-> k - 1])
      /\ top_level' = [top_level EXCEPT ![shadow] = t]
      /\ ranges' = [ranges EXCEPT ![m] = Append(@, local)]
      /\ UNCHANGED <<cr3, tlb, spinning>>

(* fork.  A shared range copies the pages of [base, base + length), none.  *)
(* A private one runs from the value of its flags, page 0, to base: the    *)
(* "new" entry is the parent's own, which loses its flags and gets a fresh *)
(* page.  The new shadow goes away again with new_global.                  *)
fork(m, child, frame) ==
  LET Cleared(mem, n) ==
        LET w == virtual_to_pt_entry(mem, top_level[m], n, TRUE, 1) IN
        Store(w.mem, w.t, w.i, set_address(Zero, frame))
      CopyRange(mem, local) ==
        IF local.shared THEN mem
        ELSE FoldLeft(Cleared, mem, [k \in 1 .. (local.base + local.length) |-> k - 1])
  IN  /\ child \notin Live /\ Room(6) /\ m # kernel_pagemap
      /\ tables' = FoldLeft(CopyRange, pagemap_t(tables), ranges[m])
      /\ top_level' = [top_level EXCEPT ![child] = NewTable(tables)]
      /\ ranges' = [ranges EXCEPT ![child] = ranges[m]]
      /\ tlb' = IF tlb # none /\ \E r \in Range(ranges[m]) :
                     ~r.shared /\ tlb.page < r.base + r.length
                THEN Rewrite(m, tlb.page) ELSE tlb
      /\ UNCHANGED <<cr3, spinning>>

Step ==
  \/ init
  \/ \E n \in CallPages : access(n)
  \/ \E m \in Maps : new_pagemap(m)
  \/ \E m \in Maps : Callable(m) /\
       \/ load(m)
       \/ delete_pagemap(m)
       \/ \E n \in CallPages, f \in Flags :
            Unmap(m, n) \/ SetFlags(m, n, f) \/ (\E p \in Frames : Map(m, n, p, f))
       \/ \E old, new \in CallPages, f \in Flags : Remap(m, old, new, f)
       \/ \E s \in Maps, h \in Bases, l \in Lengths,
             type \in {"map_shared", "map_private"} : map_range(m, s, h, l, type)
       \/ \E child \in Maps, p \in Frames : fork(m, child, p)

(* space is what the processor finds in the tables a step leaves behind.   *)
Next ==
  /\ \/ calls < MaxCalls /\ Step /\ calls' = calls + 1
     \/ spin /\ UNCHANGED calls
  /\ space' = [m \in Maps |->
       IF top_level'[m] = none THEN none
       ELSE [n \in Watched |-> Translation(tables', top_level'[m], n)]]

Spec == Init /\ [][Next]_vars

-----------------------------------------------------------------------------

(* What the present entries of the directories ts lead to, large pages     *)
(* left out.                                                               *)
NextLevel(ts) ==
  {tables[t][i].addr : <<t, i>> \in {x \in ts \X Index :
     get_flags(tables[x[1]][x[2]], "present") /\ ~Large(tables[x[1]][x[2]])}}

(* Types: what a directory leads to is a table that the heap gave out, and *)
(* the last level leads to pages of data and never to a table, through all *)
(* mapping, remapping and forking; only a live pagemap_t is loaded.        *)
TypeOK ==
  LET pml3 == NextLevel(Range(top_level) \ {none})
      pml2 == NextLevel(pml3)
      pml1 == NextLevel(pml2)
  IN  /\ Range(top_level) \ {none} \subseteq DOMAIN tables
      /\ pml3 \cup pml2 \cup pml1 \subseteq DOMAIN tables
      /\ DOMAIN tables \subseteq Tables
      /\ \A t \in pml1, i \in Index :
           /\ tables[t][i].flags \subseteq AllOnes.flags
           /\ tables[t][i].addr \in (Nat \cup {pa_mask}) \ Tables
      /\ cr3 \in Live \cup {none} /\ spinning \in Maps \cup {none}
      /\ tlb # none => cr3 # none /\ tlb.page \in CallPages

(* The references to table t: the pagemap_t it is the top level of, and    *)
(* the entries leading to it.  The upper entries of a pagemap_t other than *)
(* the kernel's are copies.                                                *)
References(t) ==
  {m \in Maps : top_level[m] = t} \cup
  {x \in (DOMAIN tables) \X Index :
     /\ tables[x[1]][x[2]].addr = t
     /\ x[2] \in UpperIndex =>
          x[1] \notin {top_level[m] : m \in Live \ {kernel_pagemap}}}

(* Page tables form one tree per pagemap_t, over all creations, forks and  *)
(* destructions: every table the heap gave out is referred to exactly once *)
(* (so destroy_level deletes it once and none is leaked), and no entry     *)
(* refers to a table that was deleted.                                     *)
TablesOwnedOnce ==
  /\ \A t \in DOMAIN tables : Cardinality(References(t)) = 1
  /\ \A t \in DOMAIN tables, i \in Index :
       tables[t][i].addr \in Tables => tables[t][i].addr \in DOMAIN tables

(* A translation the processor cached differs from the tables only where   *)
(* map, set_flags or fork rewrote a present entry: unmap and remap leave   *)
(* no stale translation of the page they took away, in whichever pagemap_t *)
(* and half it was.                                                        *)
CachedIsCurrent ==
  tlb # none => tlb.rewritten \/ tlb.entry = space[cr3][tlb.page]

(* The tables implement flat address spaces with one shared upper half:    *)
(* an upper page mapped through any pagemap_t is mapped in all of them,    *)
(* also in those created before, and a lower page in no other.             *)
AS == INSTANCE AddressSpaces WITH
        Pages <- Watched, High <- Watched \cap High,
        Direct <- {n \in (0 .. (LLpage - 1)) \cup Above : {n, tohh(n)} \subseteq Watched}
ImplementsAddressSpaces == AS!Spec

=============================================================================
