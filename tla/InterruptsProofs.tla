-------------------------- MODULE InterruptsProofs --------------------------
(***************************************************************************)
(* Proofs about Interrupts: at most one interrupt is in service at the     *)
(* master, and it is the one being handled; what irq_handler calls is what *)
(* was registered.                                                         *)
(***************************************************************************)
EXTENDS Interrupts, TLAPS

IrqVectors == {32 + i : i \in Lines}

(* What irq_handler calls for a table entry.                               *)
Call(entry) ==
  IF entry.handler = none THEN Unregistered
  ELSE [entry EXCEPT !.args = IF entry.arg THEN @ ELSE none]

Table == [handler : Functions \cup {none}, arg : BOOLEAN, args : Arguments \cup {none}]

(* The points at which the main flow can be interrupted.                   *)
MainStates ==
  {Ready}
    \cup [at : {"store_arg", "store_args"}, vector : DriverVectors, entry : Entries]
    \cup [at : {"out8"}, line : Maskable, read : SUBSET Maskable, mask : BOOLEAN]
    \cup [at : {"disable"}]

Registering(v) == main.at \in {"store_arg", "store_args"} /\ main.vector = v

(* The vector in the processor's hands, by where it is.                    *)
Handled ==
  /\ cpu.at \in {"boot", "running"} => cpu.int_no = none
  /\ cpu.at \in {"stub", "eoi"} => cpu.int_no \in {14} \cup Vectors
  /\ cpu.at = "eoi" => cpu.int_no \in Vectors
  /\ cpu.at = "halted" => cpu.int_no = 14

(* The handler table: what is not being registered calls what was          *)
(* registered, what is being registered holds the stores made so far.      *)
TableInv ==
  /\ main \in MainStates /\ registered \in [Vectors -> Table]
  /\ \A v \in Vectors : ~Registering(v) => Call(interrupt_handlers[v]) = registered[v]
  /\ main.at \in {"store_arg", "store_args"} =>
       interrupt_handlers[main.vector].handler = main.entry.handler
  /\ main.at = "store_args" =>
       interrupt_handlers[main.vector].arg = TRUE /\ main.entry.arg = TRUE
  /\ cpu.at = "eoi" => called = Call(interrupt_handlers[cpu.int_no])

(* The inductive invariant.                                                *)
IInv == TypeOK /\ Handled /\ MasterServesCurrent /\ TableInv

(* A non-specific end-of-interrupt ends the only level in service, and     *)
(* does nothing when there is none.                                        *)
LEMMA EndOne ==
  /\ EndHighest({}) = {}
  /\ \A k \in Int : EndHighest({k}) = {}
<1>1. \A k \in Int : Min({k}) = k
  BY DEF Min
<1>. QED
  BY <1>1 DEF EndHighest

(* eoi() empties a master that serves at most one level, whichever vector  *)
(* it is called with.                                                      *)
LEMMA EoiEmpties ==
  ASSUME NEW c \in [master : SUBSET (0 .. 7), slave : SUBSET Slave], NEW k \in Int,
         c.master = {} \/ \E l \in 0 .. 7 : c.master = {l}
  PROVE  eoi(c, k).master = {} /\ eoi(c, k).slave = c.slave
<1>1. EndHighest(c.master) = {} /\ EndHighest({}) = {}
  BY EndOne
<1>. QED
  BY <1>1 DEF eoi

(* Vectors are numbers, so none is no vector, and the vector of            *)
(* alloc_vector belongs to no line.                                        *)
LEMMA VectorNumbers ==
  /\ \A v \in Vectors : v \in Int /\ v >= 32
  /\ none \notin Vectors /\ none \notin IrqVectors
  /\ alloc_vector \in Vectors /\ alloc_vector \notin IrqVectors /\ 14 \notin IrqVectors
  /\ \A i \in Lines : /\ i \in Int /\ Level(i) \in 0 .. 7
                     /\ 32 + i \in IrqVectors /\ 32 + i \in Vectors
<1>. USE LinesAssumption, HandlersAssumption
<1>1. \A i \in Lines : i \in Int /\ 0 <= i /\ i <= 15
  OBVIOUS
<1>2. \A v \in IrqVectors : v \in Int /\ 32 <= v /\ v <= 47
  BY <1>1 DEF IrqVectors
<1>3. \A v \in DriverVectors : v \in Int /\ 32 <= v
  OBVIOUS
<1>4. Vectors = DriverVectors \cup {48} \cup IrqVectors
  BY DEF Vectors, IrqVectors, alloc_vector
<1>5. \A v \in Vectors : v \in Int /\ v >= 32
  BY <1>2, <1>3, <1>4
<1>6. none \notin Vectors /\ none \notin IrqVectors
  BY <1>2, <1>5
<1>7. alloc_vector \in Vectors /\ alloc_vector \notin IrqVectors /\ 14 \notin IrqVectors
  BY <1>2, <1>4 DEF alloc_vector
<1>8. \A i \in Lines : Level(i) \in 0 .. 7
  BY <1>1 DEF Level, cascade
<1>9. \A i \in Lines : 32 + i \in IrqVectors /\ 32 + i \in Vectors
  BY <1>4 DEF IrqVectors
<1>. QED
  BY <1>1, <1>5, <1>6, <1>7, <1>8, <1>9

(* The state idt::init finds.                                              *)
LEMMA InitInv ==
  Init => IInv
<1>. SUFFICES ASSUME Init PROVE IInv
  OBVIOUS
<1>. USE DEF Init
<1>1. TypeOK
  <2>1. interrupt_handlers \in [Vectors -> Table]
    BY DEF Unregistered, Table
  <2>2. cpu \in [at : {"boot", "running", "stub", "eoi", "halted"},
                 int_no : {none, 14} \cup Vectors, rflags : BOOLEAN]
    OBVIOUS
  <2>3. in_service \in [master : SUBSET (0 .. 7), slave : SUBSET Slave]
    OBVIOUS
  <2>. QED  BY <2>1, <2>2, <2>3 DEF TypeOK, Table
<1>2. Handled
  BY DEF Handled
<1>3. MasterServesCurrent
  BY DEF MasterServesCurrent
<1>4. TableInv
  <2>1. registered \in [Vectors -> Table]
    BY DEF Unregistered, Table
  <2>. QED  BY <2>1 DEF TableInv, MainStates, Ready, Registering, Call, Unregistered
<1>. QED
  BY <1>1, <1>2, <1>3, <1>4 DEF IInv

(* The master's interrupt: an acknowledgement is only possible when        *)
(* nothing is in service there, and both forms of eoi() end it.            *)
LEMMA MasterStep ==
  ASSUME IInv, Next
  PROVE  MasterServesCurrent' /\ Handled'
<1>. USE VectorNumbers DEF IInv, Handled
<1>0. /\ in_service \in [master : SUBSET (0 .. 7), slave : SUBSET Slave]
      /\ cpu \in [at : {"boot", "running", "stub", "eoi", "halted"},
                  int_no : {none, 14} \cup Vectors, rflags : BOOLEAN]
  BY DEF TypeOK
<1>1. CASE init
  BY <1>0, <1>1 DEF init, MasterServesCurrent, IrqVectors
<1>2. CASE \E i \in Lines : acknowledge(i)
  <2>1. cpu.at = "running" /\ in_service.master = {}
    BY <1>2 DEF acknowledge, MasterServesCurrent, IrqVectors
  <2>2. PICK i \in Lines :
          /\ in_service'.master = in_service.master \cup {Level(i)}
          /\ cpu' = [at |-> "stub", int_no |-> 32 + i, rflags |-> interrupts]
    <3>1. PICK i \in Lines :
            /\ in_service' = [master |-> in_service.master \cup {Level(i)},
                              slave |-> in_service.slave \cup (IF i < 8 THEN {} ELSE {i})]
            /\ cpu' = [at |-> "stub", int_no |-> 32 + i, rflags |-> interrupts]
      BY <1>2, Zenon DEF acknowledge
    <3>. QED  BY <3>1
  <2>3. cpu'.int_no = 32 + i /\ cpu'.at = "stub" /\ in_service'.master = {Level(i)}
    BY <2>1, <2>2
  <2>4. cpu'.int_no - 32 = i /\ cpu'.int_no \in IrqVectors /\ cpu'.int_no \in Vectors
    BY <2>3
  <2>. QED
    BY <2>3, <2>4 DEF MasterServesCurrent, IrqVectors
<1>3. CASE trap(alloc_vector) \/ trap(14)
  <2>1. /\ cpu.at = "running" /\ in_service' = in_service /\ cpu'.at = "stub"
        /\ cpu'.int_no \in {14, alloc_vector}
    BY <1>3 DEF trap, hardware
  <2>2. in_service.master = {}
    BY <2>1 DEF MasterServesCurrent, IrqVectors
  <2>. QED
    BY <2>1, <2>2 DEF MasterServesCurrent, IrqVectors
<1>4. CASE exception_handler
  <2>1. /\ in_service' = in_service /\ cpu.at = "stub" /\ cpu'.at = "halted"
        /\ cpu'.int_no = cpu.int_no /\ cpu.int_no < 32
    BY <1>0, <1>4 DEF exception_handler, hardware
  <2>2. cpu.int_no = 14
    BY <1>0, <2>1
  <2>. QED
    BY <2>1, <2>2 DEF MasterServesCurrent
<1>5. CASE irq_handler
  <2>1. /\ in_service' = in_service /\ cpu.at = "stub" /\ cpu'.at = "eoi"
        /\ cpu'.int_no = cpu.int_no /\ cpu.int_no >= 32
    BY <1>0, <1>5 DEF irq_handler, hardware
  <2>2. cpu.int_no \in Vectors
    BY <1>0, <2>1
  <2>. QED
    BY <2>1, <2>2 DEF MasterServesCurrent
<1>6. CASE return
  <2>1. /\ cpu.at = "eoi" /\ cpu'.at = "running" /\ cpu'.int_no = none
        /\ in_service' = eoi(in_service, cpu.int_no)
    BY <1>0, <1>6 DEF return
  <2>2. cpu.int_no \in Int
    BY <2>1
  <2>3. in_service.master = {} \/ \E l \in 0 .. 7 : in_service.master = {l}
    <3>1. CASE cpu.int_no \in IrqVectors
      <4>1. PICK i \in Lines : cpu.int_no = 32 + i
        BY <3>1 DEF IrqVectors
      <4>3. cpu.int_no - 32 = i
        BY <4>1
      <4>2. in_service.master = {Level(i)}
        BY <2>1, <3>1, <4>3 DEF MasterServesCurrent, IrqVectors
      <4>. QED  BY <4>2
    <3>2. CASE cpu.int_no \notin IrqVectors
      BY <2>1, <3>2 DEF MasterServesCurrent, IrqVectors
    <3>. QED  BY <3>1, <3>2
  <2>4. in_service'.master = {}
    BY <1>0, <2>1, <2>2, <2>3, EoiEmpties
  <2>. QED
    BY <2>1, <2>4 DEF MasterServesCurrent, IrqVectors
<1>7. CASE UNCHANGED <<in_service, cpu>>
  BY <1>7 DEF MasterServesCurrent
<1>8. ASSUME NEW i \in Maskable, NEW m \in BOOLEAN, in8(i, m)
      PROVE  UNCHANGED <<in_service, cpu>>
  BY <1>8 DEF in8, hardware
<1>9. ASSUME NEW v \in DriverVectors, NEW h \in Entries, register(v, h)
      PROVE  UNCHANGED <<in_service, cpu>>
  BY <1>9 DEF register, hardware
<1>10. ASSUME \/ \E i \in Lines : raise(i)
              \/ store_arg \/ store_args \/ out8 \/ disable \/ disable_master
              \/ \E flag \in BOOLEAN : set_interrupts(flag)
       PROVE  UNCHANGED <<in_service, cpu>>
  BY <1>10 DEF raise, store_arg, store_args, out8, disable, disable_master, set_interrupts,
               hardware
<1>. QED
  BY <1>1, <1>2, <1>3, <1>4, <1>5, <1>6, <1>7, <1>8, <1>9, <1>10 DEF Next, Handling

(* Every step keeps the types; handlers run with interrupts off.           *)
LEMMA TypeStep ==
  ASSUME IInv, Next
  PROVE  TypeOK'
<1>. DEFINE Cpu == [at : {"boot", "running", "stub", "eoi", "halted"},
                    int_no : {none, 14} \cup Vectors, rflags : BOOLEAN]
            Pics == [master : SUBSET (0 .. 7), slave : SUBSET Slave]
<1>0. TypeOK /\ Handled /\ MasterServesCurrent /\ TableInv
  BY DEF IInv
<1>. USE <1>0, LinesAssumption DEF TypeOK
<1>1. CASE init
  <2>1. cpu' \in Cpu
    BY <1>1 DEF init
  <2>. QED  BY <1>1, <2>1 DEF init
<1>2. CASE \E i \in Lines : acknowledge(i)
  <2>1. PICK i \in Lines :
          /\ irr' = irr \ {i}
          /\ in_service' = [master |-> in_service.master \cup {Level(i)},
                            slave |-> in_service.slave \cup (IF i < 8 THEN {} ELSE {i})]
          /\ cpu' = [at |-> "stub", int_no |-> 32 + i, rflags |-> interrupts]
    BY <1>2, Zenon DEF acknowledge
  <2>2. cpu' \in Cpu
    BY <2>1, VectorNumbers
  <2>3. in_service' \in Pics
    BY <2>1, VectorNumbers DEF Slave
  <2>. QED
    BY <1>2, <2>1, <2>2, <2>3 DEF acknowledge
<1>3. CASE trap(alloc_vector) \/ trap(14)
  <2>1. cpu' \in Cpu
    BY <1>3, VectorNumbers DEF trap
  <2>. QED  BY <1>3, <2>1 DEF trap, hardware
<1>4. CASE exception_handler
  <2>1. cpu' \in Cpu /\ cpu.at # "running"
    BY <1>4 DEF exception_handler
  <2>. QED  BY <1>4, <2>1 DEF exception_handler, hardware
<1>5. CASE irq_handler
  <2>1. cpu' \in Cpu /\ cpu.at # "running"
    BY <1>5 DEF irq_handler
  <2>. QED  BY <1>5, <2>1 DEF irq_handler, hardware
<1>6. CASE return
  <2>1. cpu' \in Cpu /\ cpu'.at = "running" /\ interrupts' \in BOOLEAN
    BY <1>6 DEF return
  <2>2. in_service' \in Pics
    BY <1>6 DEF return, eoi, EndHighest
  <2>. QED  BY <1>6, <2>1, <2>2 DEF return
<1>7. CASE \E i \in Lines : raise(i)
  BY <1>7 DEF raise
<1>8. CASE \E i \in Maskable, m \in BOOLEAN : in8(i, m)
  BY <1>8 DEF in8, hardware
<1>9. CASE \E v \in DriverVectors, h \in Entries : register(v, h)
  <2>1. PICK v \in DriverVectors, h \in Entries : register(v, h)
    BY <1>9
  <2>2. h.handler \in Functions /\ v \in Vectors
    BY DEF Entries, Vectors
  <2>3. interrupt_handlers' \in [Vectors -> Table]
    BY <2>1, <2>2 DEF register, Table
  <2>. QED  BY <2>1, <2>3 DEF register, hardware, Table
<1>10. CASE store_arg \/ store_args
  <2>1. main.entry \in Entries
    BY <1>10 DEF TableInv, MainStates, Ready, store_arg, store_args
  <2>2. main.entry.arg \in BOOLEAN /\ main.entry.args \in Arguments \cup {none}
    BY <2>1 DEF Entries
  <2>3. interrupt_handlers' \in [Vectors -> Table]
    BY <1>10, <2>2 DEF store_arg, store_args, Table
  <2>. QED  BY <1>10, <2>3 DEF store_arg, store_args, hardware, Table
<1>11. CASE out8
  <2>1. imr' \subseteq Maskable
    BY <1>11 DEF out8, Maskable, Slave
  <2>. QED  BY <1>11, <2>1 DEF out8
<1>12. CASE disable \/ disable_master
  <2>1. imr' \subseteq Maskable
    BY <1>12 DEF disable, disable_master, Maskable, Slave
  <2>2. UNCHANGED <<irr, in_service, interrupt_handlers, interrupts, cpu>>
    BY <1>12 DEF disable, disable_master
  <2>. QED  BY <2>1, <2>2
<1>13. CASE \E flag \in BOOLEAN : set_interrupts(flag)
  BY <1>13 DEF set_interrupts, hardware, MainRuns
<1>. QED
  BY <1>1, <1>2, <1>3, <1>4, <1>5, <1>6, <1>7, <1>8, <1>9, <1>10, <1>11, <1>12, <1>13
     DEF Next, Handling

(* The handler table: a registration is three stores, between which an     *)
(* interrupt may read the entry, but only for the vector concerned.        *)
LEMMA TableStep ==
  ASSUME IInv, Next
  PROVE  TableInv'
<1>0. TypeOK /\ Handled /\ TableInv
  BY DEF IInv
<1>. USE <1>0 DEF TableInv
<1>1. ASSUME UNCHANGED <<interrupt_handlers, registered, main>>,
             cpu'.at = "eoi" => cpu.at = "eoi" /\ called' = called /\ cpu' = cpu
      PROVE  TableInv'
  BY <1>1 DEF Registering
<1>2. CASE \/ init \/ (\E i \in Lines : acknowledge(i)) \/ exception_handler
           \/ trap(alloc_vector) \/ trap(14) \/ return
  <2>1. cpu'.at # "eoi" /\ UNCHANGED <<interrupt_handlers, registered, main>>
    <3>1. CASE \E i \in Lines : acknowledge(i)
      BY <3>1 DEF acknowledge
    <3>2. CASE init \/ exception_handler \/ return
      BY <3>2 DEF init, exception_handler, return, TypeOK
    <3>3. CASE trap(alloc_vector) \/ trap(14)
      BY <3>3 DEF trap
    <3>. QED  BY <1>2, <3>1, <3>2, <3>3
  <2>. QED  BY <1>1, <2>1
<1>3. CASE irq_handler
  <2>1. /\ called' = Call(interrupt_handlers[cpu.int_no]) /\ cpu'.int_no = cpu.int_no
        /\ UNCHANGED <<interrupt_handlers, registered, main>>
    BY <1>3 DEF irq_handler, Call, TypeOK
  <2>. QED  BY <2>1 DEF Registering
<1>4. CASE (\E i \in Lines : raise(i)) \/ \E flag \in BOOLEAN : set_interrupts(flag)
  BY <1>1, <1>4 DEF raise, set_interrupts
<1>5. CASE \/ \E i \in Maskable, m \in BOOLEAN : in8(i, m)
           \/ out8 \/ disable \/ disable_master
  <2>1. /\ UNCHANGED <<interrupt_handlers, registered, cpu>> /\ cpu.at = "running"
        /\ main.at \notin {"store_arg", "store_args"}
    BY <1>5 DEF in8, out8, disable, disable_master, Ready, MainRuns
  <2>2. main' \in MainStates /\ main'.at \notin {"store_arg", "store_args"}
    BY <1>5 DEF in8, out8, disable, disable_master, Ready, MainStates, TypeOK
  <2>. QED  BY <2>1, <2>2 DEF Registering
<1>6. CASE \E v \in DriverVectors, h \in Entries : register(v, h)
  <2>1. PICK v \in DriverVectors, h \in Entries : register(v, h)
    BY <1>6
  <2>2. /\ main' = [at |-> "store_arg", vector |-> v, entry |-> h]
        /\ cpu.at = "running" /\ cpu' = cpu /\ registered' = registered /\ main = Ready
        /\ interrupt_handlers' = [interrupt_handlers EXCEPT ![v].handler = h.handler]
    BY <2>1 DEF register, MainRuns
  <2>3. main' \in MainStates /\ main'.at = "store_arg" /\ main'.vector = v /\ main'.entry = h
    BY <2>2 DEF MainStates
  <2>4. v \in Vectors /\ interrupt_handlers'[v].handler = h.handler
        /\ \A w \in Vectors \ {v} : interrupt_handlers'[w] = interrupt_handlers[w]
    BY <2>2 DEF TypeOK, Vectors
  <2>5. \A w \in Vectors : ~Registering(w)
    BY <2>2 DEF Registering, Ready
  <2>. QED  BY <2>2, <2>3, <2>4, <2>5 DEF Registering
<1>7. CASE store_arg \/ store_args
  <2>1. PICK v \in DriverVectors, h \in Entries : v = main.vector /\ h = main.entry
    BY <1>7 DEF MainStates, Ready, store_arg, store_args
  <2>. DEFINE e == interrupt_handlers[v]
              f == interrupt_handlers'[v]
  <2>2. /\ v \in Vectors /\ e \in Table /\ e.handler = h.handler /\ h.handler # none
        /\ cpu.at = "running" /\ cpu' = cpu
    BY <1>7, <2>1, HandlersAssumption DEF Vectors, TypeOK, Table, Entries, store_arg,
       store_args, MainRuns
  <2>3. \A w \in Vectors \ {v} : interrupt_handlers'[w] = interrupt_handlers[w]
    BY <1>7, <2>1, <2>2 DEF TypeOK, store_arg, store_args
  <2>4. CASE store_arg /\ h.arg
    <3>1. main'.at = "store_args" /\ main'.vector = v /\ main'.entry = h /\ registered' = registered
          /\ main' \in MainStates
      BY <2>1, <2>4 DEF store_arg, MainStates, Ready
    <3>2. f.handler = h.handler /\ f.arg = TRUE
      BY <2>1, <2>2, <2>4 DEF store_arg, TypeOK, Table
    <3>. QED  BY <2>1, <2>2, <2>3, <2>4, <3>1, <3>2 DEF Registering, store_arg
  <2>5. CASE store_args \/ (store_arg /\ ~h.arg)
    <3>1. /\ main' = Ready /\ main'.at = "ready" /\ main' \in MainStates
          /\ registered' = [registered EXCEPT ![v] = h]
      BY <2>1, <2>5 DEF store_arg, store_args, MainStates, Ready
    <3>3. h \in Table
      BY DEF Entries, Table
    <3>4. /\ registered' \in [Vectors -> Table] /\ registered'[v] = h
          /\ \A w \in Vectors \ {v} : registered'[w] = registered[w]
      BY <2>2, <3>1, <3>3
    <3>2. Call(f) = h
      <4>1. CASE store_args
        <5>1. f = [e EXCEPT !.args = h.args] /\ e.arg = TRUE /\ h.arg = TRUE
          BY <2>1, <2>2, <4>1 DEF store_args, TypeOK
        <5>2. /\ f.handler = h.handler /\ f.arg = h.arg /\ f.args = h.args
              /\ f \in Table
          BY <2>2, <3>3, <5>1 DEF Table
        <5>3. f = h
          BY <3>3, <5>2 DEF Table
        <5>. QED  BY <2>2, <3>3, <5>1, <5>3 DEF Call, Table
      <4>2. CASE store_arg /\ ~h.arg
        <5>1. f = [e EXCEPT !.arg = h.arg] /\ h.args = none /\ h.arg = FALSE
          BY <2>1, <2>2, <4>2 DEF store_arg, TypeOK, Entries
        <5>2. f.handler = h.handler /\ f.arg = FALSE /\ f \in Table
          BY <2>2, <5>1 DEF Table
        <5>3. Call(f) = [f EXCEPT !.args = none]
          BY <2>2, <5>2 DEF Call, Table
        <5>4. /\ Call(f) \in Table /\ Call(f).handler = h.handler
              /\ Call(f).arg = h.arg /\ Call(f).args = h.args
          BY <5>1, <5>2, <5>3 DEF Table
        <5>. HIDE DEF f
        <5>. QED  BY <3>3, <5>4 DEF Table
      <4>. QED  BY <2>5, <4>1, <4>2
    <3>5. \A w \in Vectors \ {v} : ~Registering(w)
      BY <2>1, <2>5 DEF Registering
    <3>. QED  BY <2>2, <2>3, <3>1, <3>2, <3>4, <3>5 DEF Registering
  <2>. QED  BY <1>7, <2>4, <2>5
<1>. QED
  BY <1>2, <1>3, <1>4, <1>5, <1>6, <1>7 DEF Next, Handling

-----------------------------------------------------------------------------

(* The invariant holds in every reachable state, for any set of lines,     *)
(* vectors and handlers.                                                   *)
THEOREM Invariance ==
  Spec => []IInv
<1>1. IInv /\ [Next]_vars => IInv'
  <2>1. ASSUME IInv, Next PROVE IInv'
    BY <2>1, TypeStep, MasterStep, TableStep DEF IInv
  <2>2. ASSUME IInv, UNCHANGED vars PROVE IInv'
    <3>1. TypeOK' /\ Handled' /\ MasterServesCurrent'
      BY <2>2 DEF IInv, vars, TypeOK, Handled, MasterServesCurrent
    <3>2. TableInv'
      BY <2>2 DEF IInv, vars, TableInv, Registering
    <3>. QED  BY <3>1, <3>2 DEF IInv
  <2>. QED  BY <2>1, <2>2
<1>. QED
  BY <1>1, InitInv, PTL DEF Spec

(* The registers, the masks and the handler table keep their types, and    *)
(* handlers run with interrupts off.                                       *)
THEOREM TypeCorrect ==
  Spec => []TypeOK
<1>1. IInv => TypeOK
  BY DEF IInv
<1>. QED
  BY <1>1, Invariance, PTL

(* The master has in service exactly the interrupt being handled, although *)
(* eoi() writes to it twice for the vectors of the slave.                  *)
THEOREM MasterCorrect ==
  Spec => []MasterServesCurrent
<1>1. IInv => MasterServesCurrent
  BY DEF IInv
<1>. QED
  BY <1>1, Invariance, PTL

(* irq_handler calls what was registered last for its vector, with the     *)
(* argument given then, unless that very registration is half done.        *)
THEOREM CallsCorrect ==
  Spec => []CallsWhatWasRegistered
<1>1. IInv => CallsWhatWasRegistered
  <2>. SUFFICES ASSUME IInv, cpu.at = "eoi",
                       ~(main # Ready /\ main.at \in {"store_arg", "store_args"}
                         /\ main.vector = cpu.int_no)
                PROVE  called = registered[cpu.int_no]
    BY DEF CallsWhatWasRegistered
  <2>1. ~Registering(cpu.int_no)
    BY DEF Registering, Ready
  <2>2. cpu.int_no \in Vectors /\ TableInv
    BY DEF IInv, Handled
  <2>. QED
    BY <2>1, <2>2 DEF TableInv
<1>. QED
  BY <1>1, Invariance, PTL
=============================================================================
