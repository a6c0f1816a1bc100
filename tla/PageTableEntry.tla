--------------------------- MODULE PageTableEntry ---------------------------
(***************************************************************************)
(* pt_entry_t of include/memory/virtual.hpp and the flag words of          *)
(* arch/x86_64/memory/virtual.cpp.  An entry is its flag bits and the      *)
(* number of the 4 KiB page in its address bits.  Bit 7 is larger_pages in *)
(* a directory and pat4k in a leaf table; bit 12 (patlg) is the lowest     *)
(* address bit.                                                            *)
(***************************************************************************)
EXTENDS Integers

Zero == [flags |-> {}, addr |-> 0]

(* invalid_addr has every bit set; pa_mask has every address bit set.      *)
invalid_addr == -1
pa_mask == -2
AllOnes == [flags |-> {"present", "write", "user", "pwt", "pcd", "bit7",
                       "global", "no_exec"}, addr |-> pa_mask]

set_flags(e, bits) ==
  [flags |-> e.flags \cup (bits \ {"patlg"}),
   addr |-> IF "patlg" \in bits THEN 2 * (e.addr \div 2) + 1 ELSE e.addr]

get_flags(e, bit) == bit \in e.flags

set_address(e, address) ==
  IF address = invalid_addr THEN AllOnes ELSE [e EXCEPT !.addr = address]

flags_to_arch(flags) ==
  {"present"} \cup (IF "WRITE" \in flags THEN {"write"} ELSE {})
    \cup (IF "USER" \in flags THEN {"user"} ELSE {})
    \cup (IF "EXEC" \in flags THEN {} ELSE {"no_exec"})
    \cup (IF "GLOBAL" \in flags THEN {"global"} ELSE {})
    \cup (IF flags \cap {"LPAGE", "LLPAGE"} # {} THEN {"bit7"} ELSE {})

cache_to_flags(cache, larger_pages) ==
  LET pat_bit == IF larger_pages THEN "patlg" ELSE "bit7" IN
  CASE cache = "WRITE_COMBINING" -> {"pwt"}
    [] cache = "WRITE_THROUGH" -> {pat_bit}
    [] cache = "WRITE_PROTECTED" -> {pat_bit, "pwt"}
    [] cache = "WRITE_BACK" -> {pat_bit, "pcd"}
    [] OTHER -> {}

RealFlags(flags, cache, larger_pages) ==
  flags_to_arch(flags) \cup cache_to_flags(cache, larger_pages)

RWX == {"READ", "WRITE", "EXEC"}
RW == {"READ", "WRITE"}
default_caching == "WRITE_BACK"

(* What map_one and set_flags store over the entry e of a 4 KiB page: map  *)
(* keeps the flags that are there, set_flags the address.                  *)
Mapped(e, address, flags, cache) ==
  set_flags(set_address(e, address), RealFlags(flags, cache, FALSE))
Flagged(e, flags, cache) ==
  set_flags(set_address(Zero, e.addr), RealFlags(flags, cache, FALSE))

=============================================================================
