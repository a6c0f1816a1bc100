--------------------------- MODULE AddressSpaces ---------------------------
(***************************************************************************)
(* What the virtual memory manager amounts to for its callers, without     *)
(* page tables: every pagemap_t is a flat array with one entry per page.   *)
(* The upper half is one array all address spaces share; the lower half    *)
(* belongs to its pagemap_t alone.  Module PageTables implements this.     *)
(***************************************************************************)
EXTENDS PageTableEntry, FiniteSets

CONSTANTS
  Pages,     \* page numbers of the address space
  High,      \* those of the upper half
  Direct,    \* pages of physical memory that init maps
  tohh(_),   \* where the upper half maps a physical page
  Maps,      \* pagemap_t objects
  kernel_pagemap, none

VARIABLE space  \* pagemap_t -> page -> entry, none where there is no object

Live == {m \in Maps : space[m] # none}

(* m's entry of page n becomes e: in the upper half, everybody's does.     *)
Put(s, m, n, e) ==
  [k \in Maps |-> IF s[k] # none /\ (k = m \/ n \in High)
                  THEN [s[k] EXCEPT ![n] = e] ELSE s[k]]

Empty(s) ==
  [n \in Pages |-> IF n \in High THEN s[kernel_pagemap][n] ELSE Zero]

Init == space = [m \in Maps |-> none]

(* paging::init: the kernel's address space comes to exist, with physical  *)
(* memory where it is and at the higher-half offset.                       *)
Boot ==
  /\ Live = {}
  /\ \A n \in Direct : \A at \in {n, tohh(n)} :
       /\ space'[kernel_pagemap][at].addr = n
       /\ get_flags(space'[kernel_pagemap][at], "present")
  /\ \A m \in Maps : (space'[m] # none) <=> m = kernel_pagemap

Create(m) ==
  m \notin Live /\ space' = [space EXCEPT ![m] = Empty(space)]

Destroy(m) ==
  m \in Live \ {kernel_pagemap} /\ space' = [space EXCEPT ![m] = none]

UserFlags == SUBSET (RWX \cup {"USER"})

Map(m, n) ==
  /\ m \in Live
  /\ space' = Put(space, m, n, space'[m][n])
  /\ \E flags \in UserFlags :
       space'[m][n] = Mapped(space[m][n], space'[m][n].addr, flags, default_caching)

Unmap(m, n) ==
  m \in Live /\ space' = Put(space, m, n, Zero)

SetFlags(m, n) ==
  /\ m \in Live
  /\ space' = Put(space, m, n, space'[m][n])
  /\ \E flags \in UserFlags :
       space'[m][n] = Flagged(space[m][n], flags, default_caching)

(* The page moves, or, when it was not mapped, the target becomes invalid. *)
(* (If the target's entry stays as it was, this is an Unmap.)              *)
Remap(m, old, new) ==
  LET e == space[m][old]
      address == IF get_flags(e, "present") THEN e.addr ELSE invalid_addr
  IN  /\ m \in Live /\ old # new /\ space'[m][new] # space[m][new]
      /\ space' = Put(Put(space, m, old, Zero), m, new, space'[m][new])
      /\ \E flags \in UserFlags :
           space'[m][new] = Mapped(space[m][new], address, flags, default_caching)

(* map_range of a range object maps a new shadow address space only.       *)
MapRange(shadow) ==
  /\ shadow \notin Live
  /\ space'[shadow] # none
  /\ \A n \in High : space'[shadow][n] = space[kernel_pagemap][n]
  /\ \A m \in Maps \ {shadow} : space'[m] = space[m]

(* fork makes an address space without user pages, and the parent loses    *)
(* lower-half pages below the base of its last private range.              *)
Fork(m, child) ==
  /\ m \in Live /\ child \notin Live
  /\ space'[child] = Empty(space)
  /\ \E base \in Pages :
       /\ \A n \in Pages : n < base /\ n \notin High =>
                             ~get_flags(space'[m][n], "present")
       /\ \A n \in Pages : n >= base \/ n \in High =>
                             space'[m][n] = space[m][n]
  /\ \A k \in Maps \ {m, child} : space'[k] = space[k]

Next ==
  /\ space' # space
  /\ \/ Boot
     \/ \E m \in Maps : Create(m) \/ Destroy(m) \/ MapRange(m)
     \/ \E m \in Maps, n \in Pages : Map(m, n) \/ Unmap(m, n) \/ SetFlags(m, n)
     \/ \E m \in Maps, old, new \in Pages : Remap(m, old, new)
     \/ \E m, child \in Maps : Fork(m, child)

Spec == Init /\ [][Next]_space

=============================================================================
