-------------------------- MODULE DescriptorTable --------------------------
(***************************************************************************)
(* The interrupt descriptor table, byte by byte: idt_entry_t and           *)
(* idt_descriptor_t of idt.hpp as idt::init of idt.cpp fills them, and as  *)
(* the processor reads them once reload has executed lidt.  A byte is      *)
(* <<"isr", v, k>>, byte k of the address of stub v, or <<"other">>.       *)
(***************************************************************************)
EXTENDS Integers, Sequences

CONSTANT Vectors  \* how many vectors the table has (256 in the code)

VARIABLES
  idt,    \* the bytes of the array, from its base
  i,      \* the counter of the loop of init
  idtr    \* the limit lidt loaded, -1 before

vars == <<idt, i, idtr>>

isr(v, first, last) == [k \in 1 .. (last - first + 1) |-> <<"isr", v, first + k - 1>>]
other(n) == [k \in 1 .. n |-> <<"other">>]

(* idt_entry_t, packed, as idt_set_descriptor fills it: offset_low,        *)
(* selector, ist, type_attributes, offset_middle (one byte), offset_high,  *)
(* zero.                                                                   *)
idt_entry_t(v) ==
  isr(v, 0, 1) \o other(4) \o isr(v, 2, 2) \o isr(v, 4, 7) \o other(4)

SizeOfEntry == Len(idt_entry_t(0))

Init == idt = other(Vectors * SizeOfEntry) /\ i = 0 /\ idtr = -1

idt_set_descriptor ==
  /\ i < Vectors
  /\ idt' = [b \in DOMAIN idt |->
               IF b - 1 \in (SizeOfEntry * i) .. (SizeOfEntry * (i + 1) - 1)
               THEN idt_entry_t(i)[b - SizeOfEntry * i] ELSE idt[b]]
  /\ i' = i + 1
  /\ UNCHANGED idtr

(* The end of init: reload, with the limit init computed.                  *)
reload ==
  /\ i = Vectors /\ idtr = -1
  /\ idtr' = SizeOfEntry * Vectors - 1
  /\ UNCHANGED <<idt, i>>

Next == idt_set_descriptor \/ reload

Spec == Init /\ [][Next]_vars

(* The processor's long-mode gate: sixteen bytes at 16 * v, the offset in  *)
(* bytes 0, 1, 6 .. 11.                                                    *)
GateSize == 16
GateOffset(v) ==
  [k \in 1 .. 8 |-> idt[GateSize * v + k + (IF k > 2 THEN 4 ELSE 0)]]

(* Once lidt is executed, the gate of every vector lies within the limit   *)
(* and holds the address of the vector's own stub, interrupt_table[v], as  *)
(* idt_set_descriptor is called to arrange.                                *)
GatesLeadToStubs ==
  idtr # -1 =>
    \A v \in 0 .. (Vectors - 1) :
      /\ GateSize * v + GateSize - 1 <= idtr
      /\ GateOffset(v) = isr(v, 0, 7)

=============================================================================
