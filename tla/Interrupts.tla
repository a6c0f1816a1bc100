----------------------------- MODULE Interrupts -----------------------------
(***************************************************************************)
(* Interrupts from the moment a stub of idt.asm is entered: dispatch and   *)
(* handler table (idt.cpp), acknowledgement and masking (pic.cpp, pic.hpp),*)
(* the flag of cpu.cpp.  The two 8259 controllers are hardware: priorities *)
(* are fixed, the slave hangs on line 2 of the master, a non-specific EOI  *)
(* ends the highest level in service of the controller it is written to.   *)
(* That the processor finds the stub of a vector is the business of the    *)
(* descriptor table, module DescriptorTable.                               *)
(*                                                                         *)
(* One processor: the main flow (kernel code calling register_interrupt_   *)
(* handler, mask, unmask, cli and sti) is interrupted between any two      *)
(* stores or port accesses; a handler runs with interrupts off.            *)
(***************************************************************************)
EXTENDS Integers, FiniteSets, FiniteSetsExt

CONSTANTS
  Lines,         \* request lines with a device, out of 0..15 without 2
  DriverVectors, \* vectors the main flow registers handlers for
  Functions,     \* handler functions
  Arguments,     \* values of their second argument
  none           \* a null pointer, or nothing

ASSUME LinesAssumption == Lines \subseteq (0 .. 15) \ {2}

ASSUME HandlersAssumption ==
  DriverVectors \subseteq 32 .. 255 /\ none \notin Int /\ none \notin Functions

VARIABLES
  irr,         \* lines requesting service
  in_service,  \* controller -> levels in service
  imr,         \* masked lines
  interrupt_handlers, \* vector -> handler, arg, args
  interrupts,  \* the interrupt flag of the processor
  cpu,         \* where the processor is, and regs->int_no
  main,        \* what the main flow is in the middle of
  called,      \* the call the running irq_handler made
  registered   \* vector -> the last registration that was completed

hardware == <<irr, in_service, imr>>
vars == <<irr, in_service, imr, interrupt_handlers, interrupts, cpu, main,
          called, registered>>

Slave == {i \in Lines : i >= 8}
cascade == 2
Level(i) == IF i < 8 THEN i ELSE cascade
Rank(i) == 8 * Level(i) + (IF i < 8 THEN 0 ELSE i - 8)
Maskable == Lines \cup {cascade}

Unregistered == [handler |-> none, arg |-> FALSE, args |-> none]
Ready == [at |-> "ready"]

(* alloc_vector returns next_free, which nothing increments.               *)
alloc_vector == 48

Vectors == DriverVectors \cup {alloc_vector} \cup {32 + i : i \in Lines}

(* The bootloader's masks are unknown and interrupts are off.              *)
Init ==
  /\ irr = {}
  /\ in_service = [master |-> {}, slave |-> {}]
  /\ imr \in SUBSET Maskable
  /\ interrupt_handlers = [v \in Vectors |-> Unregistered]
  /\ registered = [v \in Vectors |-> Unregistered]
  /\ interrupts = FALSE
  /\ cpu = [at |-> "boot", int_no |-> none, rflags |-> FALSE]
  /\ main = Ready
  /\ called = Unregistered

(* idt::init: fill the table, pic::init (which resets both controllers and *)
(* writes the masks it read back), reload, whose sti turns interrupts on.  *)
init ==
  /\ cpu.at = "boot"
  /\ in_service' = [master |-> {}, slave |-> {}]
  /\ irr' = {}
  /\ interrupts' = TRUE
  /\ cpu' = [cpu EXCEPT !.at = "running"]
  /\ UNCHANGED <<imr, interrupt_handlers, main, called, registered>>

-----------------------------------------------------------------------------
(* Hardware.                                                               *)

raise(i) ==
  /\ i \notin irr
  /\ irr' = irr \cup {i}
  /\ UNCHANGED <<in_service, imr, interrupt_handlers, interrupts, cpu, main,
                 called, registered>>

(* i is requested, not masked, and of higher priority than what its        *)
(* controllers have in service.                                            *)
Presented(i) ==
  /\ i \in irr \ imr /\ Level(i) \notin imr
  /\ \A j \in in_service.master : Level(i) < j
  /\ i >= 8 => \A j \in in_service.slave : i < j

(* The processor takes the presented line of the highest priority.         *)
acknowledge(i) ==
  /\ interrupts /\ cpu.at = "running"
  /\ Presented(i)
  /\ \A j \in Lines : Presented(j) => Rank(i) <= Rank(j)
  /\ irr' = irr \ {i}
  /\ in_service' =
       [master |-> in_service.master \cup {Level(i)},
        slave |-> in_service.slave \cup (IF i < 8 THEN {} ELSE {i})]
  /\ cpu' = [at |-> "stub", int_no |-> 32 + i, rflags |-> interrupts]
  /\ interrupts' = FALSE
  /\ UNCHANGED <<imr, interrupt_handlers, main, called, registered>>

(* A trap that leaves interrupts on.                                       *)
TrapGate(v) ==
  /\ cpu.at = "running"
  /\ cpu' = [at |-> "stub", int_no |-> v, rflags |-> interrupts]
  /\ UNCHANGED <<hardware, interrupt_handlers, interrupts, main, called, registered>>

(* An int instruction, or an exception of the main flow.                   *)
trap(v) ==
  /\ cpu.at = "running"
  /\ cpu' = [at |-> "stub", int_no |-> v, rflags |-> interrupts]
  /\ interrupts' = FALSE
  /\ UNCHANGED <<hardware, interrupt_handlers, main, called, registered>>

-----------------------------------------------------------------------------
(* Dispatch.                                                               *)

(* interrupt_handler, exceptions: report and halt with interrupts off.     *)
exception_handler ==
  /\ cpu.at = "stub" /\ cpu.int_no < 32
  /\ cpu' = [cpu EXCEPT !.at = "halted"]
  /\ UNCHANGED <<hardware, interrupt_handlers, interrupts, main, called,
                 registered>>

irq_handler ==
  LET entry == interrupt_handlers[cpu.int_no] IN
  /\ cpu.at = "stub" /\ cpu.int_no >= 32
  /\ called' = IF entry.handler = none THEN Unregistered
               ELSE [entry EXCEPT !.args = IF entry.arg THEN @ ELSE none]
  /\ cpu' = [cpu EXCEPT !.at = "eoi"]
  /\ UNCHANGED <<hardware, interrupt_handlers, interrupts, main, registered>>

(* out8(port, PIC_EOI).                                                    *)
EndHighest(levels) == IF levels = {} THEN {} ELSE levels \ {Min(levels)}

(* eoi() that acknowledges nothing for vectors of the slave.               *)
EoiMasterOnly(controllers, int_no) ==
  IF int_no >= 40 THEN controllers
  ELSE [controllers EXCEPT !.master = EndHighest(@)]

(* pic::eoi.  PIC2_COMMAND is PIC1: the first write, too, goes to the      *)
(* master.                                                                 *)
eoi(controllers, int_no) ==
  LET first == IF int_no >= 40
               THEN [controllers EXCEPT !.master = EndHighest(@)]
               ELSE controllers
  IN  [first EXCEPT !.master = EndHighest(@)]

(* An end of irq_handler that acknowledges only what had a handler.        *)
ReturnUnacknowledged ==
  /\ cpu.at = "eoi"
  /\ in_service' = IF called = Unregistered THEN in_service
                   ELSE eoi(in_service, cpu.int_no)
  /\ cpu' = [cpu EXCEPT !.at = "running", !.int_no = none]
  /\ interrupts' = cpu.rflags
  /\ called' = Unregistered
  /\ UNCHANGED <<irr, imr, interrupt_handlers, main, registered>>

(* The end of irq_handler and the iretq of the stub.                       *)
return ==
  /\ cpu.at = "eoi"
  /\ in_service' = eoi(in_service, cpu.int_no)
  /\ cpu' = [cpu EXCEPT !.at = "running", !.int_no = none]
  /\ interrupts' = cpu.rflags
  /\ called' = Unregistered
  /\ UNCHANGED <<irr, imr, interrupt_handlers, main, registered>>

-----------------------------------------------------------------------------
(* The main flow.                                                          *)

MainRuns == cpu.at = "running"

(* register_interrupt_handler, store by store.                             *)
register(v, h) ==
  /\ MainRuns /\ main = Ready
  /\ interrupt_handlers' = [interrupt_handlers EXCEPT ![v].handler = h.handler]
  /\ main' = [at |-> "store_arg", vector |-> v, entry |-> h]
  /\ UNCHANGED <<hardware, interrupts, cpu, called, registered>>

(* The overload without argument leaves a former arg = true behind.        *)
StoreArgTrueOnly ==
  /\ MainRuns /\ main.at = "store_arg"
  /\ interrupt_handlers' =
       [interrupt_handlers EXCEPT ![main.vector].arg = @ \/ main.entry.arg]
  /\ IF main.entry.arg
     THEN main' = [main EXCEPT !.at = "store_args"] /\ UNCHANGED registered
     ELSE /\ main' = Ready
          /\ registered' = [registered EXCEPT ![main.vector] = main.entry]
  /\ UNCHANGED <<hardware, interrupts, cpu, called>>

store_arg ==
  /\ MainRuns /\ main.at = "store_arg"
  /\ interrupt_handlers' =
       [interrupt_handlers EXCEPT ![main.vector].arg = main.entry.arg]
  /\ IF main.entry.arg
     THEN main' = [main EXCEPT !.at = "store_args"] /\ UNCHANGED registered
     ELSE /\ main' = Ready
          /\ registered' = [registered EXCEPT ![main.vector] = main.entry]
  /\ UNCHANGED <<hardware, interrupts, cpu, called>>

store_args ==
  /\ MainRuns /\ main.at = "store_args"
  /\ interrupt_handlers' =
       [interrupt_handlers EXCEPT ![main.vector].args = main.entry.args]
  /\ main' = Ready
  /\ registered' = [registered EXCEPT ![main.vector] = main.entry]
  /\ UNCHANGED <<hardware, interrupts, cpu, called>>

(* mask and unmask read the register of the line's controller ...          *)
in8(i, mask) ==
  /\ MainRuns /\ main = Ready
  /\ main' = [at |-> "out8", line |-> i, read |-> imr, mask |-> mask]
  /\ UNCHANGED <<hardware, interrupt_handlers, interrupts, cpu, called, registered>>

(* ... and write it back with the bit changed; the other is not written.   *)
out8 ==
  /\ MainRuns /\ main.at = "out8"
  /\ LET own == IF main.line < 8 THEN Maskable \ Slave ELSE Slave
         value == IF main.mask THEN main.read \cup {main.line}
                               ELSE main.read \ {main.line}
     IN  imr' = (imr \ own) \cup (value \cap own)
  /\ main' = Ready
  /\ UNCHANGED <<irr, in_service, interrupt_handlers, interrupts, cpu,
                 called, registered>>

(* pic::disable masks the lines of the slave, then those of the master.    *)
disable ==
  /\ MainRuns /\ main = Ready
  /\ imr' = imr \cup Slave
  /\ main' = [at |-> "disable"]
  /\ UNCHANGED <<irr, in_service, interrupt_handlers, interrupts, cpu,
                 called, registered>>

disable_master ==
  /\ MainRuns /\ main.at = "disable"
  /\ imr' = imr \cup (Maskable \ Slave)
  /\ main' = Ready
  /\ UNCHANGED <<irr, in_service, interrupt_handlers, interrupts, cpu,
                 called, registered>>

(* cpu::interrupts_disable and interrupts_enable.                          *)
set_interrupts(flag) ==
  /\ MainRuns /\ main = Ready
  /\ interrupts' = flag
  /\ UNCHANGED <<hardware, interrupt_handlers, cpu, main, called, registered>>

-----------------------------------------------------------------------------

Entries ==
  [handler : Functions, arg : {FALSE}, args : {none}]
    \cup [handler : Functions, arg : {TRUE}, args : Arguments]

Handling == exception_handler \/ irq_handler \/ return

Next ==
  \/ init \/ Handling
  \/ \E i \in Lines : raise(i) \/ acknowledge(i)
  \/ \E i \in Maskable, m \in BOOLEAN : in8(i, m)
  \/ trap(alloc_vector) \/ trap(14)
  \/ \E v \in DriverVectors, h \in Entries : register(v, h)
  \/ store_arg \/ store_args \/ out8 \/ disable \/ disable_master
  \/ \E flag \in BOOLEAN : set_interrupts(flag)

(* _start reaches idt::init, and the processor executes the handler it is  *)
(* in.  Acknowledgement of each line is strongly fair: the processor       *)
(* samples the request at every instruction boundary, so a main flow that  *)
(* keeps executing int instructions, or opens and closes masks, cannot     *)
(* hold off for ever a line that it leaves open now and then.  Nothing is  *)
(* assumed of the devices, which may raise lines at any time and for ever, *)
(* or of the main flow.                                                    *)
Spec == /\ Init /\ [][Next]_vars
        /\ WF_vars(init) /\ WF_vars(Handling)
        /\ \A i \in Lines : SF_vars(acknowledge(i))

-----------------------------------------------------------------------------

(* Types, and interrupts are off whenever a stub or handler runs: every    *)
(* gate leads there with the flag cleared.                                 *)
TypeOK ==
  /\ irr \subseteq Lines /\ imr \subseteq Maskable
  /\ in_service \in [master : SUBSET (0 .. 7), slave : SUBSET Slave]
  /\ interrupt_handlers \in [Vectors -> [handler : Functions \cup {none},
                               arg : BOOLEAN, args : Arguments \cup {none}]]
  /\ interrupts \in BOOLEAN
  /\ cpu \in [at : {"boot", "running", "stub", "eoi", "halted"},
              int_no : {none, 14} \cup Vectors, rflags : BOOLEAN]
  /\ cpu.at # "running" => ~interrupts

(* The master has in service exactly the interrupt being handled: the two  *)
(* end-of-interrupts irq_handler sends for a slave vector, or for an int   *)
(* instruction, never end an interrupt that is not finished, and none is   *)
(* left behind when the stub returns.                                      *)
MasterServesCurrent ==
  cpu.at # "boot" =>
    in_service.master =
      IF cpu.int_no \in {32 + i : i \in Lines} THEN {Level(cpu.int_no - 32)}
                                              ELSE {}

(* A vector that is not just being registered calls what was registered    *)
(* last for it, with the argument given then.                              *)
CallsWhatWasRegistered ==
  cpu.at = "eoi" /\ ~(main # Ready /\ main.at \in {"store_arg", "store_args"}
                      /\ main.vector = cpu.int_no) =>
    called = registered[cpu.int_no]

(* The main flow has the line masked or interrupts off.                    *)
Closed(i) == ~interrupts \/ {i, Level(i)} \cap imr # {}

(* Lines of higher priority, by the vectors they interrupt with.           *)
Above(i) == {32 + j : j \in {k \in Lines : Rank(k) < Rank(i)}}

(* However often devices raise lines, a request stays pending for ever     *)
(* only if from some time on the line is closed whenever the main flow     *)
(* runs (or that never runs again, after a halt), or if lines of higher    *)
(* priority are handled again and again: every handler sends the end of    *)
(* interrupt that opens the controller for the next.  Of the slave's lines *)
(* this is said only as long as the slave has delivered none: eoi() never  *)
(* reaches it, and what it has in service holds back its later requests.   *)
Served ==
  \A i \in Lines :
    <>[](i \in irr /\ (i >= 8 => in_service.slave = {})) =>
      \/ <>[](MainRuns => Closed(i))
      \/ []<>(cpu.int_no \in Above(i))

=============================================================================
