---------------------------- MODULE MCPageTables ----------------------------
(***************************************************************************)
(* A small machine: four entries in a top table, two in the others (32     *)
(* pages), the kernel's pagemap_t and three more, which serve as user      *)
(* maps, children of a fork and shadows.                                   *)
(***************************************************************************)
EXTENDS PageTables, TLC

CONSTANTS m1, m2, m3

MCTables == 101 .. 130
MCFlags == {{"READ", "USER"}}
MCSymmetry == Permutations({m1, m2, m3})

=============================================================================
