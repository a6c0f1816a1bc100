------------------------ MODULE PhysicalMemoryProofs ------------------------
(***************************************************************************)
(* Theorems about the physical memory manager, for every memory map that   *)
(* satisfies MemmapAssumption and lies WithinReach of the bitmap.          *)
(***************************************************************************)
EXTENDS PhysicalMemory, FiniteSetTheorems, WellFoundedInduction, TLAPS

-----------------------------------------------------------------------------
(* Minima and maxima.                                                      *)

(* A non-empty finite set of naturals has a greatest element, so           *)
(* mem_usable_top bounds every usable entry.                               *)
LEMMA MaxOfFinite ==
  ASSUME NEW S \in SUBSET Nat, IsFiniteSet(S), S # {}
  PROVE  /\ Max(S) \in S
         /\ \A x \in S : x <= Max(S)
<1> DEFINE HasMax(T) == \E m \in T : \A x \in T : x <= m
<1> DEFINE Bad == {T \in SUBSET S : T # {} /\ ~HasMax(T)}
<1>1. Bad = {}
  <2> SUFFICES ASSUME Bad # {} PROVE FALSE
    OBVIOUS
  <2>1. Bad \subseteq FiniteSubsetsOf(S)
    BY FS_Subset DEF FiniteSubsetsOf
  <2>2. IsWellFoundedOn(StrictSubsetOrdering(S), FiniteSubsetsOf(S))
    BY FS_StrictSubsetOrderingWellFounded
  <2>3. PICK T \in Bad : \A U \in Bad : ~ (<<U, T>> \in StrictSubsetOrdering(S))
    BY <2>1, <2>2, WFMin
  <2>4. PICK x \in T : TRUE
    OBVIOUS
  <2> DEFINE U == T \ {x}
  <2>5. CASE U = {}
    <3>1. T = {x}
      BY <2>4, <2>5
    <3>2. HasMax(T)
      BY <3>1
    <3>3. QED
      BY <3>2
  <2>6. CASE U # {}
    <3>1. U \in SUBSET S /\ U \subseteq T /\ U # T
      BY <2>4
    <3>2. U \notin Bad
      BY <2>3, <3>1 DEF StrictSubsetOrdering
    <3>3. PICK m \in U : \A y \in U : y <= m
      BY <3>1, <3>2, <2>6
    <3>4. HasMax(T)
      <4>1. CASE x <= m
        BY <3>3, <4>1
      <4>2. CASE ~(x <= m)
        <5>1. x \in Nat /\ m \in Nat /\ T \subseteq Nat
          BY <2>4, <3>3
        <5>2. \A y \in T : y <= x
          BY <3>3, <4>2, <5>1
        <5>3. QED
          BY <5>2
      <4>3. QED
        BY <4>1, <4>2
    <3>5. QED
      BY <3>4
  <2>7. QED
    BY <2>5, <2>6
<1>2. HasMax(S)
  BY <1>1
<1>3. QED
  BY <1>2 DEF Max

(* A non-empty set of naturals has a least element, so the first run that  *)
(* inner_alloc meets and the first entry that fits the bitmap exist.       *)
LEMMA MinOfNaturals ==
  ASSUME NEW S \in SUBSET Nat, S # {}
  PROVE  /\ Min(S) \in S
         /\ \A x \in S : Min(S) <= x
<1>1. PICK a \in S : TRUE
  OBVIOUS
<1> DEFINE D == {a - y : y \in {z \in S : z <= a}}
<1>2. D \in SUBSET Nat /\ a \in Nat /\ \A d \in D : d <= a
  BY <1>1
<1>3. IsFiniteSet(D)
  BY <1>2, FS_BoundedSetOfNaturals
<1>4. D # {}
  <2>1. a - a \in D
    BY <1>2
  <2>2. QED
    BY <2>1
<1>5. Max(D) \in D /\ \A d \in D : d <= Max(D)
  BY <1>2, <1>3, <1>4, MaxOfFinite
<1>6. PICK m \in S : m <= a /\ Max(D) = a - m
  BY <1>5
<1>7. \A y \in S : m <= y
  <2> SUFFICES ASSUME NEW y \in S, ~(m <= y) PROVE FALSE
    OBVIOUS
  <2>1. y <= a /\ y \in Nat /\ m \in Nat
    <3>1. a \in Nat /\ y \in Nat /\ m \in Nat
      OBVIOUS
    <3>2. m <= a
      BY <1>6
    <3> HIDE DEF D
    <3>3. QED
      BY <3>1, <3>2
  <2>2. a - y \in D
    BY <2>1
  <2>3. a - y <= a - m
    BY <1>5, <1>6, <2>2
  <2>4. QED
    BY <1>2, <2>1, <2>3
<1>8. QED
  BY <1>7 DEF Min

-----------------------------------------------------------------------------
(* The memory map.                                                         *)

(* The base of a usable entry is a positive, its length any multiple of    *)
(* the page size, as MemmapAssumption says of the bootloader's map.        *)
LEMMA EntryTypes ==
  \A i \in UsableEntries :
    /\ i \in Nat
    /\ Memmap[i].base \in Nat
    /\ Memmap[i].length \in Nat
    /\ Memmap[i].base % 4096 = 0
    /\ Memmap[i].length % 4096 = 0
    /\ Memmap[i].base > 0
<1> SUFFICES ASSUME NEW i \in UsableEntries
             PROVE  /\ i \in Nat
                    /\ Memmap[i] \in [base : Nat, length : Nat, usable : BOOLEAN]
                    /\ Memmap[i].base % page_size = 0
                    /\ Memmap[i].length % page_size = 0
                    /\ Memmap[i].base > 0
  BY DEF page_size
<1>1. Memmap \in Seq([base : Nat, length : Nat, usable : BOOLEAN])
  BY MemmapAssumption DEF MemmapAssumption
<1>2. i \in 1 .. Len(Memmap)
  BY <1>1 DEF UsableEntries
<1>3. Memmap[i] \in [base : Nat, length : Nat, usable : BOOLEAN]
  <2>1. ASSUME NEW R, Memmap \in Seq(R)
        PROVE  Memmap[i] \in R
    BY <1>2, <2>1
  <2>2. QED
    BY <1>1, <2>1
<1>4. QED
  BY <1>2, <1>3, MemmapAssumption DEF MemmapAssumption

(* mem_usable_top is at or above the end of every usable entry.            *)
LEMMA UsableTop ==
  /\ mem_usable_top \in Nat
  /\ \A i \in UsableEntries : top(i) \in Nat /\ top(i) <= mem_usable_top
<1> DEFINE Tops == {top(i) : i \in UsableEntries}
<1>1. IsFiniteSet(UsableEntries)
  <2>1. DOMAIN Memmap = 1 .. Len(Memmap) /\ Len(Memmap) \in Nat
    BY MemmapAssumption
  <2>2. IsFiniteSet(1 .. Len(Memmap))
    BY <2>1, FS_Interval
  <2>3. QED
    BY <2>1, <2>2, FS_Subset DEF UsableEntries
<1>2. \A i \in UsableEntries : top(i) \in Nat
  BY EntryTypes DEF top
<1>3. IsFiniteSet(Tops)
  <2> DEFINE f == [i \in UsableEntries |-> top(i)]
  <2>1. f \in Surjection(UsableEntries, Tops)
    BY DEF Surjection
  <2>2. QED
    BY <1>1, <2>1, FS_Surjection
<1>4. IsFiniteSet({0} \cup Tops)
  BY <1>3, FS_Union, FS_Singleton
<1>5. {0} \cup Tops \in SUBSET Nat /\ {0} \cup Tops # {}
  BY <1>2
<1>6. /\ mem_usable_top \in {0} \cup Tops
      /\ \A x \in {0} \cup Tops : x <= mem_usable_top
  BY <1>4, <1>5, MaxOfFinite DEF mem_usable_top
<1>7. QED
  BY <1>2, <1>5, <1>6

(* The bitmap takes whole pages.                                           *)
LEMMA BitmapSize ==
  /\ PageLimit \in Nat
  /\ bitmap_size \in Nat
  /\ bitmap_size % 4096 = 0
<1>1. PageLimit \in Nat
  BY UsableTop DEF PageLimit, page_size
<1>2. PICK n \in Nat : n = PageLimit \div 8
  BY <1>1
<1>3. bitmap_size = ((n + 4095) \div 4096) * 4096
  BY <1>2 DEF bitmap_size, align_up, page_size
<1>4. QED
  BY <1>1, <1>2, <1>3

(* What init() hands to the bitmap is memory below mem_usable_top, never   *)
(* page 0 and never the bitmap's own pages.                                *)
LEMMA AllocatableRange == Allocatable \subseteq 1 .. (PageLimit - 1)
<1> SUFFICES ASSUME NEW i \in UsableEntries, NEW p \in EntryPages(i)
             PROVE  p \in 1 .. (PageLimit - 1)
  BY DEF Allocatable
<1> DEFINE b == CarvedBase(i)
           l == CarvedLength(i)
<1>1. BitmapEntry \in BitmapHosts
  <2>1. BitmapHosts \in SUBSET Nat
    BY EntryTypes DEF BitmapHosts
  <2>2. QED
    BY <2>1, MemmapAssumption, MinOfNaturals DEF BitmapEntry, MemmapAssumption
<1>2. /\ Memmap[i].base \in Nat /\ Memmap[i].length \in Nat
      /\ Memmap[i].base % 4096 = 0 /\ Memmap[i].length % 4096 = 0
      /\ Memmap[i].base > 0
  BY EntryTypes
<1>3. /\ CarvedSize(i) \in Nat /\ CarvedSize(i) % 4096 = 0
      /\ CarvedSize(i) <= Memmap[i].length
  BY <1>1, <1>2, BitmapSize DEF CarvedSize, BitmapHosts
<1>4. /\ b \in Nat /\ l \in Nat /\ b % 4096 = 0 /\ l % 4096 = 0
      /\ b > 0 /\ b + l = top(i)
  BY <1>2, <1>3 DEF CarvedBase, CarvedLength, top
<1>5. b + l <= mem_usable_top
  BY <1>4, UsableTop
<1>6. p \in (b \div 4096) .. (b \div 4096 + (l + 4096 - 1) \div 4096 - 1)
  BY DEF EntryPages, Run, div_roundup, page_size
<1>7. PICK bn \in Nat, ln \in Nat : b = bn * 4096 /\ l = ln * 4096
  <2>1. b = (b \div 4096) * 4096 /\ l = (l \div 4096) * 4096
        /\ b \div 4096 \in Nat /\ l \div 4096 \in Nat
    BY <1>4
  <2>2. QED
    BY <2>1
<1> HIDE DEF b, l
<1>8. p \in bn .. (bn + ln - 1) /\ bn >= 1
  BY <1>4, <1>6, <1>7
<1>9. bn + ln <= PageLimit
  BY <1>5, <1>7, UsableTop DEF PageLimit, page_size
<1>10. QED
  BY <1>8, <1>9, BitmapSize

-----------------------------------------------------------------------------
(* The bitmap.                                                             *)

(* Below page 2048 get and set touch the page's own bit.                   *)
LEMMA BitsOfPages ==
  ASSUME WithinReach
  PROVE  \A p \in 0 .. (PageLimit - 1) : GetBit(p) = p /\ SetBit(p) = p
<1>1. PageLimit \in Nat /\ PageLimit <= 2048
  BY BitmapSize DEF WithinReach
<1>2. ASSUME NEW p \in 0 .. (PageLimit - 1)
      PROVE  GetBit(p) = p /\ SetBit(p) = p
  <2>1. p \in Nat /\ p < 2048
    BY <1>1
  <2>2. QED
    BY <2>1 DEF GetBit, SetBit
<1>3. QED
  BY <1>2, Zenon

(* bitmap_t::set reaches the bit of each page it is called for, and no     *)
(* other.                                                                  *)
LEMMA SetBitsOfPages ==
  ASSUME WithinReach, NEW S \in SUBSET (0 .. (PageLimit - 1))
  PROVE  SetBits(S) = S
BY BitsOfPages DEF SetBits

(* What one pass of alloc() returns: a run of free pages that it has taken *)
(* out of the bitmap, or no page and an untouched bitmap, with no run of   *)
(* count free pages between the cursor and the limit.                      *)
Found(r, clr, count) ==
  /\ r.page \in clr
  /\ Run(r.page, count) \subseteq clr
  /\ r.clear = clr \ Run(r.page, count)
  /\ r.last \in 0 .. PageLimit

NoneBetween(r, clr, from, limit, count) ==
  /\ r.page = 0
  /\ r.clear = clr
  /\ r.last \in {from, limit} /\ from <= r.last /\ limit <= r.last
  /\ \A p \in Nat : Run(p, count) \subseteq clr =>
                      ~(from <= p /\ p + count <= limit)

(* One pass of alloc() ends in one of these two ways.                      *)
LEMMA InnerAlloc ==
  ASSUME WithinReach,
         NEW clr \in SUBSET (1 .. (PageLimit - 1)),
         NEW from \in 0 .. PageLimit, NEW limit \in 0 .. PageLimit,
         NEW count \in Counts
  PROVE  \/ Found(inner_alloc(clr, from, limit, count), clr, count)
         \/ NoneBetween(inner_alloc(clr, from, limit, count),
                        clr, from, limit, count)
<1> DEFINE ends == RunEnds(clr, from, limit, count)
           e == Min(ends)
<1>1. count \in Nat /\ count > 0 /\ PageLimit \in Nat
  BY CountsAssumption, BitmapSize
<1>2. ends = {x \in (from + count) .. limit : Run(x - count, count) \subseteq clr}
  <2>1. ASSUME NEW x \in (from + count) .. limit, NEW j \in Run(x - count, count)
        PROVE  ~get(clr, j) <=> j \in clr
    <3>1. j \in 0 .. (PageLimit - 1)
      BY <1>1 DEF Run
    <3>2. QED
      BY <3>1, BitsOfPages DEF get
  <2>2. QED
    BY <2>1 DEF RunEnds
<1>3. CASE ends = {}
  <2>1. inner_alloc(clr, from, limit, count)
          = [page |-> 0, last |-> Max({from, limit}), clear |-> clr]
    BY <1>3 DEF inner_alloc
  <2>2. /\ Max({from, limit}) \in {from, limit}
        /\ \A x \in {from, limit} : x <= Max({from, limit})
    <3>1. IsFiniteSet({from, limit})
      <4>1. IsFiniteSet({from})
        BY FS_Singleton
      <4>2. IsFiniteSet({from} \cup {limit})
        BY <4>1, FS_AddElement
      <4>3. {from, limit} = {from} \cup {limit}
        OBVIOUS
      <4>4. QED
        BY <4>2, <4>3
    <3>2. {from, limit} \in SUBSET Nat /\ {from, limit} # {}
      BY <1>1
    <3>3. QED
      BY <3>1, <3>2, MaxOfFinite
  <2>3. ASSUME NEW p \in Nat, Run(p, count) \subseteq clr,
               from <= p, p + count <= limit
        PROVE  FALSE
    <3>1. p + count \in (from + count) .. limit /\ (p + count) - count = p
      BY <1>1, <2>3
    <3>2. p + count \in ends
      BY <1>2, <2>3, <3>1
    <3>3. QED
      BY <1>3, <3>2
  <2>4. QED
    BY <2>1, <2>2, <2>3 DEF NoneBetween
<1>4. CASE ends # {}
  <2>1. ends \in SUBSET Nat
    BY <1>1, <1>2
  <2>2. e \in ends
    <3> HIDE DEF ends
    <3>1. QED
      BY <1>4, <2>1, MinOfNaturals
  <2>3. /\ e \in (from + count) .. limit
        /\ Run(e - count, count) \subseteq clr
    BY <1>2, <2>2
  <2> HIDE DEF e
  <2>4. e - count \in clr /\ e \in 0 .. PageLimit
    BY <1>1, <2>3 DEF Run
  <2>5. Run(e - count, count) \in SUBSET (0 .. (PageLimit - 1))
    <3>1. clr \subseteq 0 .. (PageLimit - 1)
      BY <1>1
    <3>2. QED
      BY <2>3, <3>1
  <2>6. MarkUsed(clr, e - count, count) = clr \ Run(e - count, count)
    BY <2>5, SetBitsOfPages DEF MarkUsed
  <2>7. inner_alloc(clr, from, limit, count)
          = [page |-> e - count, last |-> e,
             clear |-> MarkUsed(clr, e - count, count)]
    BY <1>4 DEF inner_alloc, e
  <2>8. QED
    BY <2>3, <2>4, <2>6, <2>7 DEF Found
<1>5. QED
  BY <1>3, <1>4

(* What alloc() returns: a run of free pages taken out of the bitmap, or   *)
(* no page, with the cursor and the bitmap as they were and every run of   *)
(* count free pages lying across the cursor.                               *)
NoneBut(r, count) ==
  /\ r.page = 0
  /\ r.clear = clear
  /\ r.last = last_index
  /\ \A p \in Nat : Run(p, count) \subseteq clear =>
                      p < last_index /\ last_index < p + count

(* Both passes of alloc() together find a run, or miss only runs that lie  *)
(* across the cursor.                                                      *)
LEMMA SearchResult ==
  ASSUME WithinReach,
         clear \in SUBSET (1 .. (PageLimit - 1)),
         last_index \in 0 .. PageLimit,
         NEW count \in Counts
  PROVE  \/ Found(Search(count), clear, count)
         \/ NoneBut(Search(count), count)
<1> DEFINE first == inner_alloc(clear, last_index, PageLimit, count)
           second == inner_alloc(clear, 0, last_index, count)
<1>1. count \in Nat /\ count > 0 /\ PageLimit \in Nat
      /\ 0 \in 0 .. PageLimit /\ PageLimit \in 0 .. PageLimit
  BY CountsAssumption, BitmapSize
<1>2. \/ Found(first, clear, count)
      \/ NoneBetween(first, clear, last_index, PageLimit, count)
  BY <1>1, InnerAlloc
<1>3. \/ Found(second, clear, count)
      \/ NoneBetween(second, clear, 0, last_index, count)
  BY <1>1, InnerAlloc
<1> HIDE DEF first, second
<1>4. CASE Found(first, clear, count)
  <2>1. first.page # 0
    BY <1>1, <1>4 DEF Found
  <2>2. Search(count) = first
    BY <2>1 DEF Search, first
  <2>3. QED
    BY <1>4, <2>2
<1>5. CASE NoneBetween(first, clear, last_index, PageLimit, count)
  <2>1. Search(count) = second
    BY <1>5 DEF Search, first, second, NoneBetween
  <2>2. CASE NoneBetween(second, clear, 0, last_index, count)
    <3>1. ASSUME NEW p \in Nat, Run(p, count) \subseteq clear
          PROVE  p < last_index /\ last_index < p + count
      <4>1. p + count <= PageLimit
        <5>1. p + count - 1 \in Run(p, count)
          BY <1>1 DEF Run
        <5>2. p + count - 1 \in 1 .. (PageLimit - 1)
          BY <3>1, <5>1
        <5>3. QED
          BY <1>1, <5>2
      <4>2. ~(last_index <= p) /\ ~(p + count <= last_index)
        BY <1>5, <2>2, <3>1, <4>1 DEF NoneBetween
      <4>3. QED
        BY <1>1, <4>2
    <3>2. second.last = last_index
      BY <1>1, <2>2 DEF NoneBetween
    <3>3. QED
      BY <2>1, <2>2, <3>1, <3>2 DEF NoneBetween, NoneBut
  <2>3. QED
    BY <1>3, <2>1, <2>2
<1>6. QED
  BY <1>2, <1>4, <1>5

-----------------------------------------------------------------------------
(* The inductive invariant: the bits that hold 0 are exactly the free      *)
(* pages, the blocks are disjoint, and a failed request is one whose runs  *)
(* all lie across the cursor.                                              *)
IInv ==
  /\ clear = FreePages
  /\ last_index \in 0 .. PageLimit
  /\ blocks \subseteq [page : Allocatable, count : Counts]
  /\ oom \in Counts \cup {0}
  /\ BlocksDisjoint
  /\ OutOfMemoryOnlyAcrossCursor

(* Every request is for at least one page.                                 *)
LEMMA CountTypes == \A c \in Counts : c \in Nat /\ c > 0
BY CountsAssumption

(* Bits that hold 0 belong to allocatable pages, never to page 0.          *)
LEMMA ClearRange ==
  ASSUME IInv
  PROVE  /\ clear \in SUBSET (1 .. (PageLimit - 1))
         /\ clear \subseteq Allocatable
BY AllocatableRange DEF IInv, FreePages

(* Handing out a run adds its pages to those owned; taking a block back    *)
(* removes exactly its own.                                                *)
LEMMA OwnedAfterAlloc ==
  ASSUME NEW p, NEW c, blocks' = blocks \cup {[page |-> p, count |-> c]}
  PROVE  Owned' = Owned \cup Run(p, c)
<1>1. Owned' = UNION {Run(b.page, b.count) : b \in blocks'}
  BY DEF Owned
<1>2. [page |-> p, count |-> c].page = p /\ [page |-> p, count |-> c].count = c
  OBVIOUS
<1>3. QED
  BY <1>1, <1>2, Zenon DEF Owned

(* Giving back a block takes its pages, and nobody else's, from those      *)
(* owned.                                                                  *)
LEMMA OwnedAfterFree ==
  ASSUME BlocksDisjoint, NEW b \in blocks, blocks' = blocks \ {b}
  PROVE  Owned' = Owned \ Run(b.page, b.count)
<1>1. Owned' = UNION {Run(c.page, c.count) : c \in blocks'}
  BY DEF Owned
<1>2. \A c \in blocks' : Run(c.page, c.count) \cap Run(b.page, b.count) = {}
  BY DEF BlocksDisjoint
<1>3. QED
  BY <1>1, <1>2 DEF Owned

(* The pages of a block are owned.                                         *)
LEMMA RunOwned ==
  ASSUME NEW b \in blocks
  PROVE  Run(b.page, b.count) \subseteq Owned
BY DEF Owned

(* init() leaves exactly the allocatable pages free.                       *)
LEMMA InitInv ==
  ASSUME WithinReach, Init
  PROVE  IInv
<1>1. Owned = {}
  BY DEF Init, Owned
<1>2. PageLimit \in Nat /\ Allocatable \in SUBSET (0 .. (PageLimit - 1))
  BY BitmapSize, AllocatableRange
<1>3. clear = FreePages
  BY <1>1, <1>2, SetBitsOfPages DEF Init, FreePages
<1>4. BlocksDisjoint
  BY <1>1 DEF BlocksDisjoint, Init
<1>5. OutOfMemoryOnlyAcrossCursor
  BY DEF OutOfMemoryOnlyAcrossCursor, Init
<1>6. QED
  BY <1>2, <1>3, <1>4, <1>5 DEF IInv, Init

(* An alloc() that finds a run.                                            *)
LEMMA AllocFoundInv ==
  ASSUME WithinReach, IInv, NEW count \in Counts, alloc(count),
         Found(Search(count), clear, count)
  PROVE  /\ IInv'
         /\ Run(Search(count).page, count) \subseteq FreePages
         /\ FreePages' = FreePages \ Run(Search(count).page, count)
         /\ used_memory' = used_memory + count * page_size
         /\ blocks' = blocks \cup {[page |-> Search(count).page, count |-> count]}
         /\ Search(count).page \in FreePages
         /\ oom' = 0 /\ oom = 0
<1> DEFINE r == Search(count)
<1>1. r.page \in 1 .. (PageLimit - 1) /\ r.page \in Allocatable
  BY ClearRange DEF Found
<1>2. r.page # 0
  BY <1>1, BitmapSize
<1>3. /\ clear' = r.clear /\ last_index' = r.last
      /\ used_memory' = used_memory + count * page_size
      /\ blocks' = blocks \cup {[page |-> r.page, count |-> count]}
      /\ oom' = 0 /\ oom = 0
  BY <1>2 DEF alloc
<1> HIDE DEF r
<1>4. Found(r, clear, count)
  BY DEF r
<1>5. Owned' = Owned \cup Run(r.page, count)
  BY <1>3, OwnedAfterAlloc
<1>6. FreePages' = FreePages \ Run(r.page, count)
  BY <1>5 DEF FreePages
<1>7. Run(r.page, count) \subseteq FreePages
  BY <1>4 DEF IInv, Found
<1>8. clear' = FreePages'
  BY <1>3, <1>4, <1>6 DEF IInv, Found
<1>9. BlocksDisjoint'
  <2>1. Owned' \subseteq Allocatable
    BY <1>5, <1>7 DEF IInv, BlocksDisjoint, FreePages
  <2>2. Run(r.page, count) \cap Owned = {}
    BY <1>7 DEF FreePages
  <2>3. \A b \in blocks : Run(b.page, b.count) \cap Run(r.page, count) = {}
    BY <2>2, RunOwned
  <2>4. ASSUME NEW b \in blocks', NEW c \in blocks', b # c
        PROVE  Run(b.page, b.count) \cap Run(c.page, c.count) = {}
    BY <1>3, <2>3, <2>4 DEF IInv, BlocksDisjoint
  <2>5. QED
    BY <2>1, <2>4 DEF BlocksDisjoint
<1>10. OutOfMemoryOnlyAcrossCursor'
  BY <1>3 DEF OutOfMemoryOnlyAcrossCursor
<1>11. blocks' \subseteq [page : Allocatable, count : Counts]
  BY <1>1, <1>3 DEF IInv, r
<1>12. IInv'
  BY <1>3, <1>4, <1>8, <1>9, <1>10, <1>11 DEF IInv, Found
<1>13. QED
  BY <1>3, <1>4, <1>6, <1>7, <1>12 DEF r, IInv, Found

(* An alloc() that finds none, and panics.                                 *)
LEMMA AllocNoneInv ==
  ASSUME WithinReach, IInv, NEW count \in Counts, alloc(count),
         NoneBut(Search(count), count)
  PROVE  /\ IInv'
         /\ FreePages' = FreePages
         /\ UNCHANGED <<clear, last_index, used_memory, blocks>>
         /\ oom = 0 /\ oom' = count /\ count # 0
         /\ count = 1 => FreePages = {}
<1>1. /\ clear' = clear /\ last_index' = last_index
      /\ used_memory' = used_memory /\ blocks' = blocks
      /\ oom = 0 /\ oom' = count
  BY DEF alloc, NoneBut
<1>2. FreePages' = FreePages /\ Owned' = Owned
  BY <1>1 DEF FreePages, Owned
<1>3. ASSUME NEW p \in FreePages, Run(p, count) \subseteq FreePages
      PROVE  /\ last_index \in Int /\ count \in Nat
             /\ p < last_index /\ last_index < p + count
             /\ {last_index - 1, last_index} \subseteq Run(p, count)
  <2>1. p \in Nat /\ last_index \in Int /\ count \in Nat
    BY ClearRange, BitmapSize, CountTypes DEF IInv
  <2>2. p < last_index /\ last_index < p + count
    BY <1>3, <2>1 DEF IInv, NoneBut
  <2>3. QED
    BY <2>1, <2>2 DEF Run
<1>4. OutOfMemoryOnlyAcrossCursor'
  BY <1>1, <1>2, <1>3 DEF OutOfMemoryOnlyAcrossCursor
<1>5. BlocksDisjoint'
  BY <1>1, <1>2 DEF BlocksDisjoint, IInv
<1>6. IInv'
  BY <1>1, <1>2, <1>4, <1>5 DEF IInv
<1>7. ASSUME count = 1, NEW p \in FreePages
      PROVE  FALSE
  <2>1. p \in Nat
    BY ClearRange DEF IInv
  <2>2. Run(p, count) \subseteq FreePages
    BY <1>7, <2>1 DEF Run
  <2>3. QED
    BY <1>3, <1>7, <2>1, <2>2
<1>8. QED
  BY <1>1, <1>2, <1>6, <1>7, CountTypes

(* free() of a block keeps the invariant; its pages were not free and are  *)
(* afterwards.                                                             *)
LEMMA FreeInv ==
  ASSUME WithinReach, IInv, NEW b \in blocks, free(b)
  PROVE  /\ IInv'
         /\ Run(b.page, b.count) \cap FreePages = {}
         /\ FreePages' = FreePages \cup Run(b.page, b.count)
<1>1. b.page \in 1 .. (PageLimit - 1) /\ b.count \in Nat /\ b.page \in Nat
  <2>1. b \in [page : Allocatable, count : Counts]
    BY DEF IInv
  <2>2. b.page \in Allocatable /\ b.count \in Counts
    BY <2>1
  <2>3. b.page \in 1 .. (PageLimit - 1) /\ b.count \in Nat
    BY <2>2, AllocatableRange, CountTypes
  <2>4. QED
    BY <2>3
<1>2. Run(b.page, b.count) \subseteq Owned
  BY RunOwned
<1>3. Run(b.page, b.count) \in SUBSET (0 .. (PageLimit - 1))
  <2>1. Allocatable \subseteq 0 .. (PageLimit - 1)
    BY AllocatableRange, BitmapSize
  <2>2. QED
    BY <1>2, <2>1 DEF IInv, BlocksDisjoint
<1>4. clear' = clear \cup Run(b.page, b.count)
  BY <1>3, SetBitsOfPages DEF free, MarkFree
<1>5. Owned' = Owned \ Run(b.page, b.count)
  BY OwnedAfterFree DEF IInv, free
<1>6. FreePages' = FreePages \cup Run(b.page, b.count)
  BY <1>2, <1>5 DEF FreePages, IInv, BlocksDisjoint
<1>7. Run(b.page, b.count) \cap FreePages = {}
  BY <1>2 DEF FreePages
<1>8. last_index' \in 0 .. PageLimit
  <2>1. {last_index, b.page} \in SUBSET Nat
    BY <1>1, BitmapSize DEF IInv
  <2>2. Min({last_index, b.page}) \in {last_index, b.page}
    BY <2>1, MinOfNaturals
  <2>3. QED
    BY <1>1, <2>2, BitmapSize DEF free, IInv
<1>9. BlocksDisjoint'
  BY <1>5 DEF BlocksDisjoint, IInv, free
<1>10. OutOfMemoryOnlyAcrossCursor'
  BY DEF OutOfMemoryOnlyAcrossCursor, free
<1>11. QED
  BY <1>4, <1>6, <1>7, <1>8, <1>9, <1>10 DEF IInv, free

(* A step that changes no variable changes nothing the invariant speaks    *)
(* of.                                                                     *)
LEMMA StutterInv ==
  ASSUME IInv, UNCHANGED vars
  PROVE  IInv' /\ FreePages' = FreePages /\ ReadsFree' = ReadsFree
BY DEF IInv, vars, FreePages, Owned, BlocksDisjoint, OutOfMemoryOnlyAcrossCursor,
       ReadsFree

(* Every call of alloc() or free() keeps the invariant.                    *)
LEMMA NextInv ==
  ASSUME WithinReach, IInv, [Next]_vars
  PROVE  IInv'
<1>1. ASSUME NEW count \in Counts, alloc(count)
      PROVE  IInv'
  <2>1. Found(Search(count), clear, count) \/ NoneBut(Search(count), count)
    BY ClearRange, SearchResult DEF IInv
  <2>2. QED
    BY <1>1, <2>1, AllocFoundInv, AllocNoneInv
<1>2. ASSUME NEW b \in blocks, free(b)
      PROVE  IInv'
  BY <1>2, FreeInv
<1>3. CASE Halted
  BY <1>3, StutterInv DEF Halted
<1>4. CASE UNCHANGED vars
  BY <1>4, StutterInv
<1>5. QED
  BY <1>1, <1>2, <1>3, <1>4 DEF Next

(* In every reachable state the bits that hold 0 are exactly the           *)
(* allocatable pages in no block.                                          *)
THEOREM Invariance ==
  ASSUME WithinReach
  PROVE  Spec => []IInv
<1>1. Init => IInv
  BY InitInv
<1>2. IInv /\ [Next]_vars => IInv'
  BY NextInv
<1>3. QED
  BY <1>1, <1>2, PTL DEF Spec

-----------------------------------------------------------------------------
(* The properties.                                                         *)

(* No two callers of alloc() ever hold the same page, and none holds a     *)
(* page of the bitmap or of memory that is not usable.                     *)
THEOREM Disjointness ==
  ASSUME WithinReach
  PROVE  Spec => []BlocksDisjoint
<1>1. IInv => BlocksDisjoint
  BY DEF IInv
<1>2. QED
  BY <1>1, Invariance, PTL

(* What the bitmap shows as free is what nobody owns.                      *)
LEMMA ReadsFreeIsFree ==
  ASSUME WithinReach, IInv
  PROVE  ReadsFree = FreePages
<1>1. \A p \in 0 .. (PageLimit - 1) : ~get(clear, p) <=> p \in clear
  BY BitsOfPages DEF get
<1>2. clear \subseteq 0 .. (PageLimit - 1)
  BY ClearRange, BitmapSize
<1>3. QED
  BY <1>1, <1>2 DEF ReadsFree, IInv

(* The bitmap reads free for exactly the pages that nobody owns.           *)
THEOREM Agreement ==
  ASSUME WithinReach
  PROVE  Spec => []BitmapAgrees
<1>1. IInv => BitmapAgrees
  BY ReadsFreeIsFree DEF BitmapAgrees
<1>2. QED
  BY <1>1, Invariance, PTL

(* alloc() panics only when every run of free pages that would do lies     *)
(* across the cursor.                                                      *)
THEOREM OutOfMemory ==
  ASSUME WithinReach
  PROVE  Spec => []OutOfMemoryOnlyAcrossCursor
<1>1. IInv => OutOfMemoryOnlyAcrossCursor
  BY DEF IInv
<1>2. QED
  BY <1>1, Invariance, PTL

(* There are finitely many free pages, at most the allocatable ones.       *)
LEMMA FiniteFree ==
  /\ IsFiniteSet(Allocatable)
  /\ IsFiniteSet(FreePages)
  /\ Cardinality(FreePages) \in Nat
  /\ Cardinality(FreePages) <= Cardinality(Allocatable)
  /\ Cardinality(Allocatable) \in Nat
<1>1. IsFiniteSet(1 .. (PageLimit - 1))
  BY BitmapSize, FS_Interval
<1>2. IsFiniteSet(Allocatable)
  BY <1>1, AllocatableRange, FS_Subset
<1>3. FreePages \subseteq Allocatable
  BY DEF FreePages
<1>4. QED
  BY <1>2, <1>3, FS_Subset, FS_CardinalityType

(* A run of c pages has c pages.                                           *)
LEMMA RunSize ==
  ASSUME NEW p \in Nat, NEW c \in Nat
  PROVE  IsFiniteSet(Run(p, c)) /\ Cardinality(Run(p, c)) = c
<1>1. p + c - 1 \in Int /\ p \in Int
  OBVIOUS
<1>2. /\ IsFiniteSet(p .. (p + c - 1))
      /\ Cardinality(p .. (p + c - 1))
           = IF p > p + c - 1 THEN 0 ELSE (p + c - 1) - p + 1
  BY <1>1, FS_Interval
<1>3. QED
  BY <1>2 DEF Run

(* Taking or giving back c pages changes the bytes in use by c pages.      *)
LEMMA PagesToBytes ==
  ASSUME NEW u \in Int, NEW m \in Int, NEW k \in Nat, NEW c \in Nat,
         u - m = k * 4096
  PROVE  /\ u - (m + c * 4096) = (k - c) * 4096
         /\ u - (m - c * 4096) = (k + c) * 4096
         /\ m + c * 4096 \in Int /\ m - c * 4096 \in Int
OBVIOUS

(* The accounting invariant, with the type that used_memory needs.         *)
AInv == used_memory \in Int /\ Accounting

(* alloc() and free() change used_memory by the pages they move.           *)
LEMMA AccountingStep ==
  ASSUME WithinReach, SizesAdd, IInv, AInv, [Next]_vars
  PROVE  AInv'
<1>1. usable_memory \in Int /\ used_memory \in Int
  BY FiniteFree, BitmapSize DEF SizesAdd, AInv, page_size
<1>2. /\ usable_memory - used_memory = Cardinality(FreePages) * 4096
      /\ AInv' <=> /\ used_memory' \in Int
                   /\ usable_memory - used_memory' = Cardinality(FreePages') * 4096
  BY DEF AInv, Accounting, page_size
<1>3. ASSUME NEW count \in Counts, alloc(count)
      PROVE  AInv'
  <2>1. CASE Found(Search(count), clear, count)
    <3> DEFINE p == Search(count).page
    <3>1. /\ Run(p, count) \subseteq FreePages
          /\ FreePages' = FreePages \ Run(p, count)
          /\ used_memory' = used_memory + count * page_size
          /\ p \in FreePages
      BY <1>3, <2>1, AllocFoundInv
    <3> HIDE DEF p
    <3>2. p \in Nat /\ count \in Nat
      BY <3>1, ClearRange, CountTypes DEF IInv
    <3>3. IsFiniteSet(Run(p, count)) /\ Cardinality(Run(p, count)) = count
      BY <3>2, RunSize
    <3>4. Cardinality(FreePages')
            = Cardinality(FreePages) - Cardinality(FreePages \cap Run(p, count))
      BY <3>1, FiniteFree, FS_Difference
    <3>5. FreePages \cap Run(p, count) = Run(p, count)
      BY <3>1
    <3>6. Cardinality(FreePages') = Cardinality(FreePages) - count
      BY <3>3, <3>4, <3>5
    <3>7. QED
      <4>1. used_memory' = used_memory + count * 4096
        BY <3>1 DEF page_size
      <4>2. Cardinality(FreePages) \in Nat
        BY FiniteFree
      <4>3. /\ usable_memory - (used_memory + count * 4096)
                 = (Cardinality(FreePages) - count) * 4096
            /\ used_memory + count * 4096 \in Int
        BY <1>1, <1>2, <3>2, <4>2, PagesToBytes
      <4>4. QED
        BY <1>2, <3>6, <4>1, <4>3
  <2>2. CASE NoneBut(Search(count), count)
    <3>1. FreePages' = FreePages /\ used_memory' = used_memory
      BY <1>3, <2>2, AllocNoneInv
    <3>2. QED
      BY <3>1 DEF AInv, Accounting
  <2>3. QED
    BY <2>1, <2>2, ClearRange, SearchResult DEF IInv
<1>4. ASSUME NEW b \in blocks, free(b)
      PROVE  AInv'
  <2>1. /\ Run(b.page, b.count) \cap FreePages = {}
        /\ FreePages' = FreePages \cup Run(b.page, b.count)
    BY <1>4, FreeInv
  <2>2. b.page \in Nat /\ b.count \in Nat
    <3>1. b \in [page : Allocatable, count : Counts]
      BY DEF IInv
    <3>2. b.page \in Allocatable /\ b.count \in Counts
      BY <3>1
    <3>3. b.page \in 1 .. (PageLimit - 1) /\ b.count \in Nat
      BY <3>2, AllocatableRange, CountTypes
    <3>4. QED
      BY <3>3
  <2>3. /\ IsFiniteSet(Run(b.page, b.count))
        /\ Cardinality(Run(b.page, b.count)) = b.count
    BY <2>2, RunSize
  <2>4. Cardinality(FreePages \cap Run(b.page, b.count)) = 0
    BY <2>1, FS_EmptySet
  <2>5. Cardinality(FreePages') = Cardinality(FreePages) + b.count
    <3>1. Cardinality(FreePages \cup Run(b.page, b.count))
            = Cardinality(FreePages) + Cardinality(Run(b.page, b.count))
              - Cardinality(FreePages \cap Run(b.page, b.count))
      BY <2>3, FiniteFree, FS_Union
    <3>2. QED
      BY <2>1, <2>2, <2>3, <2>4, <3>1, FiniteFree
  <2>6. used_memory' = used_memory - b.count * page_size
    BY <1>4 DEF free
  <2>7. QED
    <3>1. used_memory' = used_memory - b.count * 4096
      BY <2>6 DEF page_size
    <3>2. Cardinality(FreePages) \in Nat
      BY FiniteFree
    <3>3. /\ usable_memory - (used_memory - b.count * 4096)
               = (Cardinality(FreePages) + b.count) * 4096
          /\ used_memory - b.count * 4096 \in Int
      BY <1>1, <1>2, <2>2, <3>2, PagesToBytes
    <3>4. QED
      BY <1>2, <2>5, <3>1, <3>3
<1>5. ASSUME UNCHANGED vars
      PROVE  AInv'
  <2>1. FreePages' = FreePages /\ used_memory' = used_memory
    BY <1>5, StutterInv DEF vars
  <2>2. QED
    BY <2>1 DEF AInv, Accounting
<1>6. QED
  BY <1>3, <1>4, <1>5 DEF Next, Halted

(* used_memory follows the free pages in every reachable state.            *)
LEMMA AccountingInvariance ==
  ASSUME WithinReach, SizesAdd
  PROVE  Spec => []AInv
<1>1. Init => AInv
  <2> SUFFICES ASSUME Init PROVE AInv
    OBVIOUS
  <2>1. FreePages = Allocatable
    BY DEF Init, FreePages, Owned
  <2>2. used_memory = bitmap_size
    BY DEF Init
  <2>3. QED
    <3>1. ASSUME NEW c \in Nat, usable_memory = bitmap_size + c * 4096
          PROVE  usable_memory - bitmap_size = c * 4096
      BY <3>1, BitmapSize
    <3>2. usable_memory - bitmap_size = Cardinality(Allocatable) * 4096
      BY <3>1, FiniteFree DEF SizesAdd, page_size
    <3>3. QED
      BY <2>1, <2>2, <3>2, BitmapSize DEF AInv, Accounting, page_size
<1>2. IInv /\ AInv /\ [Next]_vars => AInv'
  BY AccountingStep
<1>3. QED
  BY <1>1, <1>2, Invariance, PTL DEF Spec

(* physical::free() is the size of the pages that can still be handed out. *)
THEOREM FreeMemory ==
  ASSUME WithinReach, SizesAdd
  PROVE  Spec => []Accounting
<1>1. AInv => Accounting
  BY DEF AInv
<1>2. QED
  BY <1>1, AccountingInvariance, PTL

(* Type correctness; in particular used_memory never wraps.                *)
THEOREM TypeCorrect ==
  ASSUME WithinReach, SizesAdd
  PROVE  Spec => []TypeOK
<1>1. IInv /\ AInv => TypeOK
  <2> SUFFICES ASSUME IInv, AInv
               PROVE  TypeOK
    OBVIOUS
  <2>1. clear \subseteq 0 .. (bitmap_size * 8 - 1)
    <3>1. clear \subseteq 1 .. (PageLimit - 1)
      BY ClearRange
    <3>2. 1 .. (PageLimit - 1) \subseteq 0 .. (bitmap_size * 8 - 1)
      BY BitmapSize DEF WithinReach
    <3>3. QED
      BY <3>1, <3>2
  <2>2. used_memory \in bitmap_size .. usable_memory
    BY BitmapSize, FiniteFree DEF AInv, Accounting, SizesAdd, page_size
  <2>3. QED
    BY <2>1, <2>2 DEF TypeOK, IInv
<1>2. QED
  BY <1>1, Invariance, AccountingInvariance, PTL

(* The manager implements the abstract page allocator: every alloc() is an *)
(* Allocate of a run that was free or a Fail, every free() a Release.      *)
THEOREM Refinement ==
  ASSUME WithinReach
  PROVE  Spec => ImplementsPageAllocator
<1>1. Init => Abstract!AInit
  <2> SUFFICES ASSUME Init PROVE Abstract!AInit
    OBVIOUS
  <2>1. FreePages = Allocatable
    BY DEF Init, FreePages, Owned
  <2>2. ReadsFree = Allocatable
    BY <2>1, InitInv, ReadsFreeIsFree
  <2>3. QED
    BY <2>2 DEF Init, Abstract!AInit
<1>2. IInv /\ IInv' /\ [Next]_vars => [Abstract!ANext]_(Abstract!avars)
  <2> SUFFICES ASSUME IInv, IInv', [Next]_vars
               PROVE  Abstract!ANext \/ UNCHANGED Abstract!avars
    OBVIOUS
  <2>1. ReadsFree = FreePages
    BY ReadsFreeIsFree
  <2>2. ReadsFree' = FreePages'
    <3>1. \A p \in 0 .. (PageLimit - 1) : ~get(clear', p) <=> p \in clear'
      BY BitsOfPages DEF get
    <3>2. clear' \subseteq Allocatable
      BY DEF IInv, FreePages
    <3>3. Allocatable \subseteq 0 .. (PageLimit - 1)
      BY AllocatableRange, BitmapSize
    <3>4. QED
      BY <3>1, <3>2, <3>3 DEF ReadsFree, IInv
  <2>3. ASSUME NEW count \in Counts, alloc(count)
        PROVE  Abstract!ANext
    <3>1. CASE Found(Search(count), clear, count)
      <4> DEFINE p == Search(count).page
      <4>1. /\ Run(p, count) \subseteq FreePages
            /\ FreePages' = FreePages \ Run(p, count)
            /\ blocks' = blocks \cup {[page |-> p, count |-> count]}
            /\ p \in FreePages
            /\ oom' = 0 /\ oom = 0
        BY <2>3, <3>1, AllocFoundInv
      <4> HIDE DEF p
      <4>2. Abstract!Allocate(p, count)
        BY <2>1, <2>2, <4>1 DEF Abstract!Allocate, Abstract!Run, Run
      <4>3. QED
        BY <2>1, <4>1, <4>2 DEF Abstract!ANext
    <3>2. CASE NoneBut(Search(count), count)
      <4>1. /\ FreePages' = FreePages
            /\ blocks' = blocks
            /\ oom = 0 /\ oom' # 0
            /\ count = 1 => FreePages = {}
        BY <2>3, <3>2, AllocNoneInv
      <4>2. Abstract!Fail(count)
        BY <2>1, <2>2, <4>1 DEF Abstract!Fail
      <4>3. QED
        BY <4>2 DEF Abstract!ANext
    <3>3. QED
      BY <3>1, <3>2, ClearRange, SearchResult DEF IInv
  <2>4. ASSUME NEW b \in blocks, free(b)
        PROVE  Abstract!ANext
    <3>1. FreePages' = FreePages \cup Run(b.page, b.count)
      BY <2>4, FreeInv
    <3>2. Abstract!Release(b)
      BY <2>1, <2>2, <2>4, <3>1 DEF Abstract!Release, Abstract!Run, Run, free
    <3>3. QED
      BY <3>2 DEF Abstract!ANext
  <2>5. ASSUME UNCHANGED vars
        PROVE  UNCHANGED Abstract!avars
    BY <2>5, StutterInv DEF Abstract!avars, vars
  <2>6. QED
    BY <2>3, <2>4, <2>5 DEF Next, Halted
<1>3. QED
  BY <1>1, <1>2, Invariance, PTL DEF Spec, ImplementsPageAllocator, Abstract!ASpec

=============================================================================
