--------------------------- MODULE SharedPtrShape ----------------------------
(***************************************************************************)
(* First part of the proofs about SharedPtr: where a context is in an      *)
(* operation determines what it knows of its two pointers (Shape), and no  *)
(* other context writes these (Exclusive).  Both are inductive on their own.*)
(***************************************************************************)
EXTENDS SharedPtr, TLAPS

Fields == [pc : PCs, op : Ops, dst : Slots \cup {null}, src : Slots \cup {null},
           seen : Nat]

Copying == {"copy", "watch", "weak_copy"}

(* Where a context is determines what its two slots are.                   *)
ShapeOf(a) ==
  /\ a.pc = "idle" => a = Idle
  /\ a.pc # "idle" => a.dst \in Slots /\ a.op # "none"
  /\ a.op \notin {"none", "convert"} \/ a = Idle
  /\ a.op = "lock" => /\ a.pc \in {"load", "cas", "add_weak"}
                      /\ a.dst \in SharedSlots /\ a.src \in WeakSlots
                      /\ ctrl[a.src] \in Blocks /\ ctrl[a.dst] = null
  /\ a.pc \in {"load", "cas"} => a.op = "lock"
  /\ a.pc = "cas" => a.seen # 0
  /\ a.op = "reset" => a.src = null
  /\ a.op \in Copying \cup {"move"} =>
       a.src \in Slots /\ a.src # a.dst /\ Fits(a.op, a.dst, a.src)
  /\ a.pc \in {"release_ref", "delete_object"} => a.dst \in SharedSlots
  /\ a.pc \notin {"idle", "assign"} /\ a.op # "lock" => ctrl[a.dst] \in Blocks
  /\ a.pc = "add_ref" => a.op = "copy"
  /\ a.pc \in {"add_ref", "add_weak"} /\ a.op # "lock" =>
       a.op \in Copying /\ ctrl[a.src] = ctrl[a.dst]

Shape == \A t \in Contexts : ShapeOf(at[t])

(* Nobody else writes what a context writes or reads.                      *)
Exclusive ==
  \A t, u \in Contexts : t # u /\ at[t].dst # null =>
    /\ at[t].dst # at[u].dst /\ at[t].dst # at[u].src
    /\ at[t].op = "move" => at[t].src # at[u].src

(* What a context does to slots other than its own leaves another context's*)
(* shape alone.                                                            *)
LEMMA OtherShape ==
  ASSUME TypeOK, Shape, Exclusive, NEW t \in Contexts, NEW u \in Contexts \ {t},
         at[t].dst # null, at'[u] = at[u],
         \A x \in Slots : x # at[t].dst /\ ~(at[t].op = "move" /\ x = at[t].src)
                           => ctrl'[x] = ctrl[x]
  PROVE  ShapeOf(at[u])'
<1>1. ShapeOf(at[u]) /\ at[u].dst # at[t].dst /\ at[u].src # at[t].dst
  BY DEF Shape, Exclusive
<1>2. at[t].op = "move" => at[u].dst # at[t].src /\ at[u].src # at[t].src
  BY SlotsAssumption DEF Exclusive, Shape, ShapeOf, Idle
<1>3. at[u].dst \in Slots => ctrl'[at[u].dst] = ctrl[at[u].dst]
  BY <1>1, <1>2
<1>4. at[u].src \in Slots => ctrl'[at[u].src] = ctrl[at[u].src]
  BY <1>1, <1>2
<1>. QED
  BY <1>1, <1>3, <1>4 DEF ShapeOf, Slots, Copying

(* A step of t as the other contexts see it: only t's destination, and the *)
(* source of a move, change.                                               *)
Local(t) ==
  /\ at[t].dst \in Slots
  /\ \A u \in Contexts \ {t} : at'[u] = at[u]
  /\ at'[t].dst \in {at[t].dst, null}
  /\ \A x \in Slots : x # at[t].dst /\ ~(at[t].op = "move" /\ x = at[t].src)
                       => ctrl'[x] = ctrl[x]

(* Every access of an operation is local in this sense.                    *)
LEMMA StepLocal ==
  ASSUME TypeOK, Shape, NEW t \in Contexts, Step(t)
  PROVE  Local(t)
<1>. USE SlotsAssumption DEF Finish, Goto, TypeOK, Idle
<1>0. at[t].pc # "idle" /\ at[t].dst \in Slots
  BY DEF Step, load, cas, assign, release_ref, delete_object, release_weak, delete_block,
         add_ref, add_weak, Shape, ShapeOf
<1>1. CASE load(t)  BY <1>0, <1>1 DEF load, Local
<1>2. CASE cas(t)  BY <1>0, <1>2 DEF cas, Local
<1>3. CASE assign(t)  BY <1>0, <1>3 DEF assign, Local
<1>4. CASE release_ref(t) \/ delete_object(t) \/ release_weak(t) \/ delete_block(t)
  BY <1>0, <1>4 DEF release_ref, delete_object, release_weak, delete_block, Local
<1>5. CASE add_ref(t) \/ add_weak(t)
  BY <1>0, <1>5 DEF add_ref, add_weak, Local
<1>. QED  BY <1>1, <1>2, <1>3, <1>4, <1>5 DEF Step

(* Every access keeps what a context knows of its pointers.                *)
LEMMA StepShape ==
  ASSUME TypeOK, Shape, Exclusive, NEW t \in Contexts, Step(t)
  PROVE  Shape'
<1>. USE SlotsAssumption
<1>1. Local(t)
  BY StepLocal
<1>2. ASSUME NEW u \in Contexts \ {t}  PROVE ShapeOf(at[u])'
  BY <1>1, OtherShape DEF Local
<1>. SUFFICES ShapeOf(at[t])'
  BY <1>2 DEF Shape
<1>3. ShapeOf(at[t]) /\ at \in [Contexts -> Fields] /\ ctrl \in [Slots -> Blocks \cup {null}]
  BY DEF Shape, TypeOK, Fields
<1>4. ShapeOf(Idle)'
  BY DEF ShapeOf, Idle, Copying
<1>. USE <1>3 DEF Goto, Finish, Fields
<1>5. CASE load(t)
  <2>1. ctrl' = ctrl /\ at[t].pc = "load" /\ ref[Target(t)] \in Nat
    BY <1>5 DEF load, TypeOK, ShapeOf, Target
  <2>2. \/ at'[t] = Idle
        \/ at'[t] = [at[t] EXCEPT !.pc = "cas", !.seen = ref[Target(t)]] /\ ref[Target(t)] # 0
    BY <1>5 DEF load
  <2>. HIDE DEF Fields
  <2>3. CASE at'[t] = Idle
    BY <1>4, <2>3
  <2>4. CASE at'[t] # Idle
    BY <2>1, <2>2, <2>4 DEF ShapeOf, Fields, Idle
  <2>. QED  BY <2>3, <2>4
<1>6. CASE cas(t)
  <2>1. /\ ctrl' = ctrl /\ at[t].pc = "cas"
        /\ \E q \in {"add_weak", "load"} : at'[t] = [at[t] EXCEPT !.pc = q]
    BY <1>6 DEF cas
  <2>. QED  BY <2>1 DEF ShapeOf, Idle, Copying
<1>7. CASE release_ref(t)
  <2>1. /\ ctrl' = ctrl /\ at[t].pc = "release_ref"
        /\ \E q \in {"delete_object", "release_weak"} : at'[t] = [at[t] EXCEPT !.pc = q]
    BY <1>7 DEF release_ref
  <2>. QED  BY <2>1 DEF ShapeOf, Idle, Copying
<1>8. CASE delete_object(t)
  <2>1. /\ ctrl' = ctrl /\ at[t].pc = "delete_object"
        /\ at'[t] = [at[t] EXCEPT !.pc = "release_weak"]
    BY <1>8 DEF delete_object
  <2>. QED  BY <2>1 DEF ShapeOf, Idle, Copying
<1>9. CASE release_weak(t)
  <2>1. /\ ctrl' = ctrl /\ at[t].pc = "release_weak"
        /\ \E q \in {"delete_block", "assign"} : at'[t] = [at[t] EXCEPT !.pc = q]
    BY <1>9 DEF release_weak
  <2>. QED  BY <2>1 DEF ShapeOf, Idle, Copying
<1>10. CASE delete_block(t)
  <2>1. ctrl' = ctrl /\ at[t].pc = "delete_block" /\ at'[t] = [at[t] EXCEPT !.pc = "assign"]
    BY <1>10 DEF delete_block
  <2>. QED  BY <2>1 DEF ShapeOf, Idle, Copying
<1>11. CASE add_ref(t)
  <2>1. ctrl' = ctrl /\ at[t].pc = "add_ref" /\ at'[t] = [at[t] EXCEPT !.pc = "add_weak"]
    BY <1>11 DEF add_ref
  <2>. QED  BY <2>1 DEF ShapeOf, Idle, Copying
<1>12. CASE add_weak(t)
  BY <1>4, <1>12 DEF add_weak
<1>13. CASE assign(t)
  <2>1. CASE at'[t] = Idle
    BY <1>4, <2>1
  <2>2. CASE at'[t] # Idle
    <3>1. /\ at[t].op \in Copying /\ at[t].src \in Slots /\ ctrl[at[t].src] \in Blocks
          /\ at[t].src # at[t].dst /\ at[t].dst \in Slots /\ at[t].pc = "assign"
      BY <1>13, <2>2 DEF assign, AfterAssign, Ops, ShapeOf, Idle, Copying
    <3>2. ctrl' = [ctrl EXCEPT ![at[t].dst] = ctrl[at[t].src]]
      BY <1>13, <3>1 DEF assign, Copying
    <3>3. at'[t] = [at[t] EXCEPT !.pc = IF at[t].op = "copy" THEN "add_ref" ELSE "add_weak"]
      BY <1>13, <2>2, <3>1 DEF assign, AfterAssign, Copying
    <3>4. ctrl'[at[t].dst] = ctrl[at[t].src] /\ ctrl'[at[t].src] = ctrl[at[t].src]
      BY <3>1, <3>2
    <3>5. /\ at'[t].op = at[t].op /\ at'[t].dst = at[t].dst /\ at'[t].src = at[t].src
          /\ at'[t].pc = IF at[t].op = "copy" THEN "add_ref" ELSE "add_weak"
      BY <3>3
    <3>6. Fits(at[t].op, at[t].dst, at[t].src)
      BY <3>1 DEF ShapeOf
    <3>. QED  BY <3>1, <3>4, <3>5, <3>6 DEF ShapeOf, Copying
  <2>. QED  BY <2>1, <2>2
<1>. QED
  BY <1>5, <1>6, <1>7, <1>8, <1>9, <1>10, <1>11, <1>12, <1>13 DEF Step

(* Every access keeps the pointers of different contexts apart: it only    *)
(* keeps or drops a claim.                                                 *)
LEMMA StepExclusive ==
  ASSUME TypeOK, Shape, Exclusive, NEW t \in Contexts, Step(t)
  PROVE  Exclusive'
<1>1. /\ \A u \in Contexts \ {t} : at'[u] = at[u]
      /\ at'[t] = Idle \/ (/\ at'[t].dst = at[t].dst /\ at'[t].src = at[t].src
                          /\ at'[t].op = at[t].op)
  <2>. USE DEF Finish, Goto, TypeOK
  <2>1. CASE load(t)  BY <2>1 DEF load
  <2>2. CASE cas(t)  BY <2>2 DEF cas
  <2>3. CASE assign(t)  BY <2>3 DEF assign
  <2>4. CASE release_ref(t) \/ delete_object(t) \/ release_weak(t) \/ delete_block(t)
    BY <2>4 DEF release_ref, delete_object, release_weak, delete_block
  <2>5. CASE add_ref(t) \/ add_weak(t)
    BY <2>5 DEF add_ref, add_weak
  <2>. QED  BY <2>1, <2>2, <2>3, <2>4, <2>5 DEF Step
<1>2. \A u \in Contexts : at[u].op = "move" => at[u].src # null
  BY SlotsAssumption DEF Shape, ShapeOf
<1>. QED
  BY <1>1, <1>2 DEF Exclusive, Idle

-----------------------------------------------------------------------------
(* Beginning an operation.                                                 *)

(* So does beginning an operation, which claims pointers nobody writes.    *)
(* The converting assignment is left out: it forgets to count.             *)
LEMMA StartShape ==
  ASSUME "convert" \notin Operations, TypeOK, Shape, Exclusive,
         NEW t \in Contexts, Begin(t)
  PROVE  Shape' /\ Exclusive'
<1>. USE SlotsAssumption
<1>1. CASE \E d \in SharedSlots, b \in Blocks : make_shared(t, d, b)
  <2>1. PICK d \in SharedSlots, b \in Blocks : make_shared(t, d, b)
    BY <1>1
  <2>2. at' = at /\ \A x \in Slots \ {d} : ctrl'[x] = ctrl[x]
    BY <2>1 DEF make_shared, TypeOK, Slots
  <2>3. \A u \in Contexts : at[u].dst # d /\ at[u].src # d
    BY <2>1 DEF make_shared, Written, Read
  <2>4. ASSUME NEW u \in Contexts PROVE ShapeOf(at[u])'
    <3>1. /\ at[u].dst \in Slots => ctrl'[at[u].dst] = ctrl[at[u].dst]
          /\ at[u].src \in Slots => ctrl'[at[u].src] = ctrl[at[u].src]
      BY <2>2, <2>3
    <3>. QED  BY <2>2, <3>1 DEF Shape, ShapeOf, Slots, Copying
  <2>. QED  BY <2>2, <2>4 DEF Shape, Exclusive
<1>2. CASE \E d, s \in Slots, op \in Operations : assignment(t, op, d, s)
  <2>1. PICK d \in Slots, s \in Slots, op \in Operations : assignment(t, op, d, s)
    BY <1>2
  <2>2. /\ at' = [at EXCEPT ![t] = [Idle EXCEPT !.pc = Release(d), !.op = op,
                                               !.dst = d, !.src = s]]
        /\ ctrl' = ctrl /\ d # s /\ Fits(op, d, s)
    BY <2>1 DEF assignment
  <2>3. op \in Copying \cup {"move"}
    BY <2>2 DEF Fits, Copying
  <2>4. ShapeOf(at[t])'
    BY <2>2, <2>3 DEF ShapeOf, TypeOK, Idle, Release, Fits, Copying, Slots
  <2>5. \A u \in Contexts \ {t} : ShapeOf(at[u])'
    BY <2>2 DEF Shape, ShapeOf, TypeOK
  <2>6. \A u \in Contexts : at[u].dst \notin {d, s} /\ at[u].src # d
                            /\ (at[u].op = "move" \/ op = "move" => at[u].src # s)
    BY <2>1 DEF assignment, Written, Read
  <2>7. Exclusive'
    BY <2>2, <2>6 DEF Exclusive, TypeOK, Idle
  <2>. QED  BY <2>4, <2>5, <2>7 DEF Shape
<1>3. CASE \E d \in Slots : reset(t, d)
  <2>1. PICK d \in Slots : reset(t, d)
    BY <1>3
  <2>2. /\ at' = [at EXCEPT ![t] = [Idle EXCEPT !.pc = Release(d), !.op = "reset",
                                               !.dst = d]]
        /\ ctrl' = ctrl
    BY <2>1 DEF reset
  <2>4. ShapeOf(at[t])'
    BY <2>2 DEF ShapeOf, TypeOK, Idle, Release, Fits, Copying, Slots
  <2>5. \A u \in Contexts \ {t} : ShapeOf(at[u])'
    BY <2>2 DEF Shape, ShapeOf, TypeOK
  <2>6. \A u \in Contexts : at[u].dst # d /\ at[u].src # d
                            /\ (at[u].op = "move" => at[u].src # null)
    BY <2>1 DEF reset, Written, Read, Shape, ShapeOf
  <2>7. Exclusive'
    BY <2>2, <2>6 DEF Exclusive, TypeOK, Idle
  <2>. QED  BY <2>4, <2>5, <2>7 DEF Shape
<1>4. CASE \E d \in SharedSlots, s \in WeakSlots : lock(t, d, s)
  <2>1. PICK d \in SharedSlots, s \in WeakSlots : lock(t, d, s)
    BY <1>4
  <2>2. /\ at' = [at EXCEPT ![t] = [Idle EXCEPT !.pc = "load", !.op = "lock",
                                               !.dst = d, !.src = s]]
        /\ ctrl' = ctrl /\ ctrl[d] = null /\ ctrl[s] # null
    BY <2>1 DEF lock
  <2>4. ShapeOf(at[t])'
    BY <2>2 DEF ShapeOf, TypeOK, Idle, Fits, Copying, Slots
  <2>5. \A u \in Contexts \ {t} : ShapeOf(at[u])'
    BY <2>2 DEF Shape, ShapeOf, TypeOK
  <2>6. \A u \in Contexts : at[u].dst \notin {d, s} /\ at[u].src # d
                            /\ (at[u].op = "move" => at[u].src # s)
    BY <2>1 DEF lock, Written, Read
  <2>7. Exclusive'
    BY <2>2, <2>6 DEF Exclusive, TypeOK, Idle
  <2>. QED  BY <2>4, <2>5, <2>7 DEF Shape
<1>. QED
  BY <1>1, <1>2, <1>3, <1>4 DEF Begin
=============================================================================
