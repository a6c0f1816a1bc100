--------------------------- MODULE SharedPtrProofs ---------------------------
(***************************************************************************)
(* Third part of the proofs about SharedPtr: from exact counts, the life of*)
(* objects and control blocks, and the theorems about the specification.   *)
(***************************************************************************)
EXTENDS SharedPtrCounts
(* The life of objects and blocks.                                         *)

(* Everything with a count is alive.                                       *)
Counted ==
  \A b \in Blocks : /\ weak[b] > 0 => block[b] = "alive"
                    /\ ref[b] > 0 => object[b] = "alive"
                    /\ block[b] = "unused" => object[b] = "unused"

(* Everything alive has a count or is about to be deleted...               *)
Kept ==
  \A b \in Blocks :
    /\ object[b] = "alive" =>
         ref[b] > 0 \/ \E t \in Contexts : at[t].pc = "delete_object" /\ Target(t) = b
    /\ block[b] = "alive" =>
         weak[b] > 0 \/ \E t \in Contexts : at[t].pc = "delete_block" /\ Target(t) = b

(* ... for the first time...                                               *)
Doomed ==
  \A t \in Contexts :
    /\ at[t].pc = "delete_object" => ref[Target(t)] = 0 /\ object[Target(t)] = "alive"
    /\ at[t].pc = "delete_block" => weak[Target(t)] = 0 /\ block[Target(t)] = "alive"

(* ... and by one context only.                                            *)
Alone ==
  \A t, u \in Contexts :
    t # u /\ at[t].pc = at[u].pc /\ at[t].pc \in {"delete_object", "delete_block"} =>
      Target(t) # Target(u)

Lives == Counted /\ Kept /\ Doomed /\ Alone

(* The other contexts' blocks stay where they are.                         *)
LEMMA OtherTargets ==
  ASSUME TypeOK, Shape, Exclusive, NEW t \in Contexts, Local(t),
         NEW u \in Contexts \ {t}, at[u].pc # "idle"
  PROVE  Target(u)' = Target(u) /\ at'[u] = at[u]
<1>0. at[u].dst \in Slots /\ at[t].dst \in Slots
  BY DEF Shape, ShapeOf, Local
<1>1. at[u].dst # at[t].dst /\ at[u].src # at[t].dst
  BY <1>0, SlotsAssumption DEF Exclusive
<1>2. at[t].op = "move" => at[u].dst # at[t].src /\ at[u].src # at[t].src
  BY <1>0, <1>1, SlotsAssumption DEF Exclusive
<1>3. at[u].op = "lock" => at[u].src \in Slots
  BY SMTT(20) DEF Shape, ShapeOf, Slots
<1>. QED
  BY <1>0, <1>1, <1>2, <1>3 DEF Target, Local

(* A context's own block stays where it is until it assigns.               *)
LEMMA OwnTarget ==
  ASSUME TypeOK, Shape, NEW t \in Contexts, Step(t), at'[t].pc \in {"delete_object", "delete_block"}
  PROVE  /\ Target(t)' = Target(t)
         /\ at'[t].pc = "delete_object" => release_ref(t) /\ ref[Target(t)] = 1
         /\ at'[t].pc = "delete_block" => release_weak(t) /\ weak[Target(t)] = 1
<1>. USE DEF TypeOK, Goto, Finish, Idle, Target
<1>1. CASE release_ref(t)
  BY <1>1 DEF release_ref
<1>2. CASE release_weak(t)
  BY <1>2 DEF release_weak
<1>3. CASE load(t) \/ cas(t)
  BY <1>3 DEF load, cas
<1>4. CASE delete_object(t) \/ delete_block(t) \/ add_ref(t)
  BY <1>4 DEF delete_object, delete_block, add_ref
<1>6. CASE add_weak(t)
  <2>1. at'[t] = Idle
    BY <1>6 DEF add_weak
  <2>2. at'[t].pc = "idle"
    BY <2>1
  <2>. QED  BY <2>2
<1>5. CASE assign(t)
  BY <1>5 DEF assign, AfterAssign
<1>. QED
  BY SMTT(20), <1>1, <1>2, <1>3, <1>4, <1>5, <1>6 DEF Step

(* Every access keeps counted things alive and live things counted.        *)
LEMMA StepLives ==
  ASSUME TypeOK, Shape, Exclusive, CountsExact, Lives, NEW t \in Contexts, Step(t)
  PROVE  Lives'
<1>. DEFINE Del == {"delete_object", "delete_block"}
<1>0. Counted /\ Kept /\ Doomed /\ Alone
  BY DEF Lives
<1>1. Local(t)
  BY StepLocal
<1>2. \A u \in Contexts \ {t} :
        /\ at'[u].pc = at[u].pc
        /\ at[u].pc \in Del => Target(u)' = Target(u)
  BY <1>1, OtherTargets DEF Local
<1>3. at'[t].pc \in Del => Target(t)' = Target(t)
  BY OwnTarget
<1>4. \A u \in Contexts :
        /\ at[u].pc \notin {"idle", "assign"} => Target(u) \in Blocks
        /\ at[u].pc \in Releasing \cup Taking => weak[Target(u)] > 0
        /\ at[u].pc \in {"release_ref", "add_ref"} => ref[Target(u)] > 0
  BY Held
<1>5. /\ ref \in [Blocks -> Nat] /\ weak \in [Blocks -> Nat]
      /\ object \in [Blocks -> Life] /\ block \in [Blocks -> Life]
      /\ at \in [Contexts -> Fields]
  BY DEF TypeOK, Fields
<1>6. /\ at'[t].pc = "delete_object" => release_ref(t) /\ ref[Target(t)] = 1
      /\ at'[t].pc = "delete_block" => release_weak(t) /\ weak[Target(t)] = 1
  BY OwnTarget
<1>7. CASE load(t) \/ assign(t)
  <2>1. /\ UNCHANGED <<ref, weak, object, block>> /\ at[t].pc \notin Del
        /\ at[t].pc \in {"load", "assign"}
    BY <1>7 DEF load, assign
  <2>2. at'[t].pc \notin Del
    BY <1>6, <2>1 DEF release_ref, release_weak
  <2>. QED
    <3>1. Counted'
      BY <1>0, <1>2, <2>1, <2>2 DEF Counted, Doomed
    <3>2. Kept'
      BY <1>0, <1>2, <2>1, <2>2 DEF Kept, Doomed
    <3>3. Doomed'
      BY <1>0, <1>2, <2>1, <2>2 DEF Counted, Doomed, Alone
    <3>4. Alone'
      BY <1>0, <1>2, <2>1, <2>2 DEF Counted, Doomed, Alone
    <3>. QED  BY <3>1, <3>2, <3>3, <3>4 DEF Lives
<1>8. CASE cas(t) \/ add_ref(t)
  <2>1. /\ UNCHANGED <<weak, object, block>> /\ at[t].pc \in {"cas", "add_ref"}
        /\ ref' = ref \/ (ref[Target(t)] > 0 /\ ref' = [ref EXCEPT ![Target(t)] = @ + 1])
    <3>1. CASE add_ref(t)
      BY <1>4, <3>1 DEF add_ref
    <3>2. CASE cas(t)
      <4>1. at[t].seen \in Nat \ {0} /\ at[t].pc = "cas"
        BY <1>5, <3>2 DEF cas, Shape, ShapeOf, Fields
      <4>. QED  BY <3>2, <4>1 DEF cas
    <3>. QED  BY <1>8, <3>1, <3>2
  <2>2. at'[t].pc \notin Del
    BY <1>6, <2>1 DEF release_ref, release_weak
  <2>3. Target(t) \in Blocks
    BY <1>4, <2>1
  <2>4. CASE ref' = ref
    <3>1. Counted'
      BY <1>0, <1>2, <2>1, <2>2, <2>4 DEF Counted, Doomed
    <3>2. Kept'
      BY <1>0, <1>2, <2>1, <2>2, <2>4 DEF Kept, Doomed
    <3>3. Doomed'
      BY <1>0, <1>2, <2>1, <2>2, <2>4 DEF Counted, Doomed, Alone
    <3>4. Alone'
      BY SMTT(20), <1>0, <1>2, <2>1, <2>2, <2>4 DEF Counted, Doomed, Alone
    <3>. QED  BY <3>1, <3>2, <3>3, <3>4 DEF Lives
  <2>5. CASE ref[Target(t)] > 0 /\ ref' = [ref EXCEPT ![Target(t)] = @ + 1]
    <3>1. Counted'
      BY <1>0, <1>2, <1>5, <2>1, <2>2, <2>3, <2>5 DEF Counted, Doomed
    <3>2. Kept'
      BY <1>0, <1>2, <1>5, <2>1, <2>2, <2>3, <2>5 DEF Kept, Doomed
    <3>3. Doomed'
      BY <1>0, <1>2, <1>5, <2>1, <2>2, <2>3, <2>5 DEF Counted, Doomed, Alone
    <3>4. Alone'
      BY <1>0, <1>2, <1>5, <2>1, <2>2, <2>3, <2>5 DEF Counted, Doomed, Alone
    <3>. QED  BY <3>1, <3>2, <3>3, <3>4 DEF Lives
  <2>. QED  BY <2>1, <2>4, <2>5
<1>9. CASE add_weak(t)
  <2>1. /\ UNCHANGED <<ref, object, block>> /\ at[t].pc = "add_weak"
        /\ weak' = [weak EXCEPT ![Target(t)] = @ + 1]
    BY <1>9 DEF add_weak
  <2>2. at'[t].pc \notin Del
    BY <1>6, <2>1 DEF release_ref, release_weak
  <2>3. Target(t) \in Blocks /\ weak[Target(t)] > 0
    BY <1>4, <2>1 DEF Taking
  <2>. QED
    <3>1. Counted'
      BY <1>0, <1>2, <1>5, <2>1, <2>2, <2>3 DEF Counted, Doomed
    <3>2. Kept'
      BY <1>0, <1>2, <1>5, <2>1, <2>2, <2>3 DEF Kept, Doomed
    <3>3. Doomed'
      BY <1>0, <1>2, <1>5, <2>1, <2>2, <2>3 DEF Counted, Doomed, Alone
    <3>4. Alone'
      BY <1>0, <1>2, <1>5, <2>1, <2>2, <2>3 DEF Counted, Doomed, Alone
    <3>. QED  BY <3>1, <3>2, <3>3, <3>4 DEF Lives
<1>10. CASE release_ref(t)
  <2>1. /\ UNCHANGED <<weak, object, block>> /\ at[t].pc = "release_ref"
        /\ ref' = [ref EXCEPT ![Target(t)] = @ - 1]
        /\ at'[t].pc = IF ref[Target(t)] = 1 THEN "delete_object" ELSE "release_weak"
    BY <1>5, <1>10 DEF release_ref, Goto, Fields
  <2>2. Target(t) \in Blocks /\ ref[Target(t)] > 0
    BY <1>4, <2>1
  <2>. QED
    <3>1. Counted'
      BY <1>0, <1>2, <1>3, <1>5, <2>1, <2>2 DEF Counted, Doomed
    <3>2. Kept'
      BY <1>0, <1>2, <1>3, <1>5, <2>1, <2>2 DEF Kept, Doomed
    <3>3. Doomed'
      BY <1>0, <1>2, <1>3, <1>5, <2>1, <2>2 DEF Counted, Doomed, Alone
    <3>4. Alone'
      BY <1>0, <1>2, <1>3, <1>5, <2>1, <2>2 DEF Counted, Doomed, Alone
    <3>. QED  BY <3>1, <3>2, <3>3, <3>4 DEF Lives
<1>11. CASE release_weak(t)
  <2>1. /\ UNCHANGED <<ref, object, block>> /\ at[t].pc = "release_weak"
        /\ weak' = [weak EXCEPT ![Target(t)] = @ - 1]
        /\ at'[t].pc = IF weak[Target(t)] = 1 THEN "delete_block" ELSE "assign"
    BY <1>5, <1>11 DEF release_weak, Goto, Fields
  <2>2. Target(t) \in Blocks /\ weak[Target(t)] > 0
    BY <1>4, <2>1 DEF Releasing
  <2>. QED
    <3>1. Counted'
      BY <1>0, <1>2, <1>3, <1>5, <2>1, <2>2 DEF Counted, Doomed
    <3>2. Kept'
      BY <1>0, <1>2, <1>3, <1>5, <2>1, <2>2 DEF Kept, Doomed
    <3>3. Doomed'
      BY <1>0, <1>2, <1>3, <1>5, <2>1, <2>2 DEF Counted, Doomed, Alone
    <3>4. Alone'
      BY <1>0, <1>2, <1>3, <1>5, <2>1, <2>2 DEF Counted, Doomed, Alone
    <3>. QED  BY <3>1, <3>2, <3>3, <3>4 DEF Lives
<1>12. CASE delete_object(t)
  <2>1. /\ UNCHANGED <<ref, weak, block>> /\ at[t].pc = "delete_object"
        /\ object' = [object EXCEPT ![Target(t)] = "dead"] /\ at'[t].pc = "release_weak"
    BY <1>5, <1>12 DEF delete_object, Goto, Fields
  <2>2. Target(t) \in Blocks /\ weak[Target(t)] > 0
    BY <1>4, <2>1 DEF Releasing
  <2>. QED
    <3>1. Counted'
      BY <1>0, <1>2, <1>5, <2>1, <2>2 DEF Counted, Doomed
    <3>2. Kept'
      BY <1>0, <1>2, <1>5, <2>1, <2>2 DEF Kept, Doomed
    <3>3. Doomed'
      BY <1>0, <1>2, <1>5, <2>1, <2>2 DEF Counted, Doomed, Alone
    <3>4. Alone'
      BY <1>0, <1>2, <1>5, <2>1, <2>2 DEF Counted, Doomed, Alone
    <3>. QED  BY <3>1, <3>2, <3>3, <3>4 DEF Lives
<1>13. CASE delete_block(t)
  <2>1. /\ UNCHANGED <<ref, weak, object>> /\ at[t].pc = "delete_block"
        /\ block' = [block EXCEPT ![Target(t)] = "dead"] /\ at'[t].pc = "assign"
    BY <1>5, <1>13 DEF delete_block, Goto, Fields
  <2>2. Target(t) \in Blocks
    BY <1>4, <2>1
  <2>. QED
    <3>1. Counted'
      BY <1>0, <1>2, <1>5, <2>1, <2>2 DEF Counted, Doomed
    <3>2. Kept'
      BY <1>0, <1>2, <1>5, <2>1, <2>2 DEF Kept, Doomed
    <3>3. Doomed'
      BY <1>0, <1>2, <1>5, <2>1, <2>2 DEF Counted, Doomed, Alone
    <3>4. Alone'
      BY <1>0, <1>2, <1>5, <2>1, <2>2 DEF Counted, Doomed, Alone
    <3>. QED  BY <3>1, <3>2, <3>3, <3>4 DEF Lives
<1>. QED
  BY <1>7, <1>8, <1>9, <1>10, <1>11, <1>12, <1>13 DEF Step

(* Entering an operation leaves blocks and objects alone.                  *)
LEMMA EnterLives ==
  ASSUME TypeOK, Lives, NEW t \in Contexts, at[t] = Idle, NEW a,
         at' = [at EXCEPT ![t] = a], UNCHANGED <<ctrl, ref, weak, object, block>>,
         a.pc \in {"assign", "load", "release_ref", "release_weak"}
  PROVE  Lives'
<1>1. /\ \A u \in Contexts \ {t} : at'[u] = at[u]
      /\ at'[t] = a
  BY DEF TypeOK
<1>2. \A u \in Contexts \ {t} : Target(u)' = Target(u)
  BY <1>1 DEF Target
<1>3. at[t].pc = "idle"
  BY DEF Idle
<1>4. Counted'
  BY <1>1, <1>2, <1>3 DEF Lives, Counted
<1>5. Kept'
  BY <1>1, <1>2, <1>3 DEF Lives, Kept
<1>6. Doomed'
  BY <1>1, <1>2, <1>3 DEF Lives, Doomed
<1>7. Alone'
  BY <1>1, <1>2, <1>3 DEF Lives, Alone
<1>. QED
  BY <1>4, <1>5, <1>6, <1>7 DEF Lives

(* make_shared hands out a block nobody has seen.                          *)
LEMMA MakeShared ==
  ASSUME TypeOK, Shape, CountsExact, Lives, NEW t \in Contexts,
         NEW d \in SharedSlots, NEW b \in Blocks, make_shared(t, d, b)
  PROVE  TypeOK' /\ CountsExact' /\ Lives'
<1>. USE SlotsAssumption
<1>1. /\ at' = at /\ ctrl[d] = null /\ d \in Slots
      /\ ctrl' = [ctrl EXCEPT ![d] = b]
      /\ ref' = [ref EXCEPT ![b] = 1] /\ weak' = [weak EXCEPT ![b] = 1]
      /\ object' = [object EXCEPT ![b] = "alive"] /\ block' = [block EXCEPT ![b] = "alive"]
  BY DEF make_shared, Slots
<1>2. \A u \in Contexts : at[u].dst # d /\ at[u].src # d
  BY DEF make_shared, Written, Read
<1>3. ref[b] = 0 /\ weak[b] = 0 /\ object[b] = "unused" /\ block[b] = "unused"
  BY DEF make_shared, Lives, Counted, TypeOK
<1>4. TypeOK'
  BY <1>1 DEF TypeOK, Life
<1>5. \A x \in Slots \ {d} : ctrl'[x] = ctrl[x]
  BY <1>1 DEF TypeOK
<1>6. CountsExact'
  <2>. SUFFICES ASSUME NEW c \in Blocks
                PROVE  ref'[c] = Cardinality(RefSet(c)') /\ weak'[c] = Cardinality(WatchSet(c)')
    BY SMTT(20) DEF CountsExact, RefSet, WatchSet
  <2>1. ASSUME NEW x \in Slots \ {d}
        PROVE  (Refers(x, c)' <=> Refers(x, c)) /\ (Watches(x, c)' <=> Watches(x, c))
    <3>1. \A u \in Contexts : at[u].op = "lock" => ctrl'[at[u].src] = ctrl[at[u].src]
      BY <1>2, <1>5 DEF Shape, ShapeOf, Slots
    <3>. QED  BY <1>1, <1>5, <3>1 DEF Refers, Watches
  <2>2. (Refers(d, c) <=> ctrl[d] = c) /\ (Watches(d, c) <=> ctrl[d] = c)
    BY <1>1, <1>2, AtRest
  <2>3. (Refers(d, c)' <=> ctrl'[d] = c) /\ (Watches(d, c)' <=> ctrl'[d] = c)
    BY <1>1, <1>2 DEF Refers, Watches
  <2>4. ctrl'[d] = b
    BY <1>1 DEF TypeOK
  <2>5. RefSet(c) \ {d} = RefSet(c)' \ {d} /\ WatchSet(c) \ {d} = WatchSet(c)' \ {d}
    BY <2>1 DEF RefSet, WatchSet, Slots
  <2>6. /\ IsFiniteSet(RefSet(c)) /\ IsFiniteSet(WatchSet(c))
        /\ IsFiniteSet(RefSet(c)') /\ IsFiniteSet(WatchSet(c)')
    BY SetsFinite DEF RefSet, WatchSet, Slots
  <2>7. /\ d \notin RefSet(c) /\ d \notin WatchSet(c)
        /\ d \in RefSet(c)' <=> c = b
        /\ d \in WatchSet(c)' <=> c = b
    BY <1>1, <2>2, <2>3, <2>4 DEF RefSet, WatchSet
  <2>8. ref[c] = Cardinality(RefSet(c)) /\ weak[c] = Cardinality(WatchSet(c))
    BY DEF CountsExact, RefSet, WatchSet
  <2>9. /\ ref'[c] = IF c = b THEN ref[c] + 1 ELSE ref[c]
        /\ weak'[c] = IF c = b THEN weak[c] + 1 ELSE weak[c]
    BY <1>1, <1>3 DEF TypeOK
  <2>10. Cardinality(RefSet(c)') = IF c = b THEN ref[c] + 1 ELSE ref[c]
    BY <2>5, <2>6, <2>7, <2>8, CountOne
  <2>11. Cardinality(WatchSet(c)') = IF c = b THEN weak[c] + 1 ELSE weak[c]
    BY <2>5, <2>6, <2>7, <2>8, CountOne
  <2>. QED  BY <2>9, <2>10, <2>11
<1>7. \A u \in Contexts : at[u].pc \in {"delete_object", "delete_block"} =>
         Target(u)' = Target(u) /\ Target(u) # b
  <2>. SUFFICES ASSUME NEW u \in Contexts, at[u].pc \in {"delete_object", "delete_block"}
                PROVE  Target(u)' = Target(u) /\ Target(u) # b
    OBVIOUS
  <2>1. at[u].dst \in Slots /\ at[u].op # "lock"
    BY DEF Shape, ShapeOf
  <2>2. Target(u)' = Target(u)
    BY <1>1, <1>2, <1>5, <2>1 DEF Target
  <2>3. object[Target(u)] = "alive" \/ block[Target(u)] = "alive"
    BY DEF Lives, Doomed
  <2>. QED  BY <1>3, <2>2, <2>3
<1>8. Lives'
  <2>1. Counted'
    BY <1>1, <1>3, <1>7 DEF Lives, Counted, TypeOK
  <2>2. Kept'
    BY <1>1, <1>3, <1>7 DEF Lives, Kept, TypeOK
  <2>3. Doomed'
    BY <1>1, <1>3, <1>7 DEF Lives, Doomed, TypeOK
  <2>4. Alone'
    BY <1>1, <1>3, <1>7 DEF Lives, Alone, TypeOK
  <2>. QED  BY <2>1, <2>2, <2>3, <2>4 DEF Lives
<1>. QED
  BY <1>4, <1>6, <1>8

-----------------------------------------------------------------------------
(* The inductive invariant.                                                *)

IInv == TypeOK /\ Shape /\ Exclusive /\ CountsExact /\ Lives

(* Beginning an operation keeps types, counts and lives.                   *)
LEMMA StartRest ==
  ASSUME "convert" \notin Operations, IInv, NEW t \in Contexts, Begin(t)
  PROVE  TypeOK' /\ CountsExact' /\ Lives'
<1>. USE SlotsAssumption
<1>0. TypeOK /\ Shape /\ CountsExact /\ Lives
  BY DEF IInv
<1>1. CASE \E d \in SharedSlots, b \in Blocks : make_shared(t, d, b)
  BY <1>0, <1>1, MakeShared
<1>2. ASSUME NEW d \in Slots, NEW a \in Fields, at[t] = Idle, ~Written(d), a.dst = d,
             at' = [at EXCEPT ![t] = a], UNCHANGED <<ctrl, ref, weak, object, block>>,
             a.pc = Release(d) \/ (a.pc = "load" /\ ctrl[d] = null)
      PROVE  TypeOK' /\ CountsExact' /\ Lives'
  <2>1. \/ a.pc \in {"assign", "load"} /\ ctrl[d] = null
        \/ a.pc = "release_ref"
        \/ a.pc = "release_weak" /\ d \in WeakSlots
    BY <1>2 DEF Release, Slots
  <2>2. CountsExact'
    BY Zenon, <1>0, <1>2, <2>1, EnterCounts
  <2>3. Lives'
    BY Zenon, <1>0, <1>2, <2>1, EnterLives
  <2>4. TypeOK'
    BY <1>0, <1>2 DEF TypeOK, Fields
  <2>. QED  BY <2>2, <2>3, <2>4
<1>3. CASE \E d, s \in Slots, op \in Operations : assignment(t, op, d, s)
  <2>1. PICK d \in Slots, s \in Slots, op \in Operations : assignment(t, op, d, s)
    BY <1>3
  <2>. DEFINE a == [Idle EXCEPT !.pc = Release(d), !.op = op, !.dst = d, !.src = s]
  <2>2. /\ at[t] = Idle /\ ~Written(d) /\ at' = [at EXCEPT ![t] = a]
        /\ UNCHANGED <<ctrl, ref, weak, object, block>>
    BY <2>1 DEF assignment
  <2>3. op \in Ops
    BY <2>1 DEF assignment, Fits, Ops
  <2>4. a \in Fields /\ a.dst = d /\ a.pc = Release(d)
    BY Zenon, <2>3 DEF Fields, Idle, Release, PCs
  <2>. HIDE DEF a
  <2>. QED  BY Zenon, <1>2, <2>2, <2>4
<1>4. CASE \E d \in Slots : reset(t, d)
  <2>1. PICK d \in Slots : reset(t, d)
    BY <1>4
  <2>. DEFINE a == [Idle EXCEPT !.pc = Release(d), !.op = "reset", !.dst = d]
  <2>2. /\ at[t] = Idle /\ ~Written(d) /\ at' = [at EXCEPT ![t] = a]
        /\ UNCHANGED <<ctrl, ref, weak, object, block>>
    BY <2>1 DEF reset
  <2>4. a \in Fields /\ a.dst = d /\ a.pc = Release(d)
    BY Zenon DEF Fields, Idle, Release, PCs, Ops
  <2>. HIDE DEF a
  <2>. QED  BY Zenon, <1>2, <2>2, <2>4
<1>5. CASE \E d \in SharedSlots, s \in WeakSlots : lock(t, d, s)
  <2>1. PICK d \in SharedSlots, s \in WeakSlots : lock(t, d, s)
    BY <1>5
  <2>. DEFINE a == [Idle EXCEPT !.pc = "load", !.op = "lock", !.dst = d, !.src = s]
  <2>2. /\ at[t] = Idle /\ ~Written(d) /\ at' = [at EXCEPT ![t] = a] /\ ctrl[d] = null
        /\ UNCHANGED <<ctrl, ref, weak, object, block>>
    BY <2>1 DEF lock
  <2>4. a \in Fields /\ a.dst = d /\ a.pc = "load" /\ d \in Slots
    BY Zenon DEF Fields, Idle, PCs, Ops, Slots
  <2>. HIDE DEF a
  <2>. QED  BY Zenon, <1>2, <2>2, <2>4
<1>. QED
  BY <1>1, <1>3, <1>4, <1>5 DEF Begin

(* The invariant holds initially, of empty slots and unused blocks.        *)
LEMMA InitIInv ==
  Init => IInv
<1>. SUFFICES ASSUME Init PROVE IInv
  OBVIOUS
<1>. USE SlotsAssumption DEF Init
<1>1. TypeOK
  BY DEF TypeOK, Idle, Life, PCs, Ops
<1>2. Shape
  BY DEF Shape, ShapeOf, Idle, Copying
<1>3. Exclusive
  BY DEF Exclusive, Idle
<1>4. CountsExact
  <2>1. \A b \in Blocks : RefSet(b) = {} /\ WatchSet(b) = {}
    BY DEF RefSet, WatchSet, Refers, Watches, Slots, Idle
  <2>. QED  BY Zenon, <2>1, FS_EmptySet DEF CountsExact, RefSet, WatchSet
<1>5. Lives
  BY DEF Lives, Counted, Kept, Doomed, Alone, Idle
<1>. QED
  BY <1>1, <1>2, <1>3, <1>4, <1>5 DEF IInv

(* Every step of the program preserves it.                                 *)
LEMMA NextIInv ==
  ASSUME "convert" \notin Operations, IInv, [Next]_vars
  PROVE  IInv'
<1>0. TypeOK /\ Shape /\ Exclusive /\ CountsExact /\ Lives
  BY DEF IInv
<1>1. ASSUME NEW t \in Contexts, Begin(t)  PROVE IInv'
  BY <1>0, <1>1, StartShape, StartRest DEF IInv
<1>2. ASSUME NEW t \in Contexts, Step(t)  PROVE IInv'
  <2>1. CASE at[t].op = "move" /\ at[t].pc = "assign"
    <3>1. assign(t)
      BY <1>2, <2>1 DEF Step, load, cas, release_ref, delete_object, release_weak,
                        delete_block, add_ref, add_weak
    <3>. QED  BY SMTT(20), <1>0, <1>2, <2>1, <3>1, MoveCounts, StepType, StepShape, StepExclusive,
                 StepLives DEF IInv
  <2>2. CASE ~(at[t].op = "move" /\ at[t].pc = "assign")
    BY <1>0, <1>2, <2>2, StepCounts, StepType, StepShape, StepExclusive, StepLives DEF IInv
  <2>. QED  BY <2>1, <2>2
<1>3. CASE UNCHANGED vars
  <2>1. TypeOK' /\ Exclusive'
    BY SMTT(20), <1>0, <1>3 DEF vars, TypeOK, Exclusive
  <2>4. Shape'
    BY SMTT(20), <1>0, <1>3 DEF vars, Shape, ShapeOf
  <2>2. CountsExact'
    <3>1. \A b \in Blocks : RefSet(b)' = RefSet(b) /\ WatchSet(b)' = WatchSet(b)
      BY <1>3 DEF vars, RefSet, WatchSet, Refers, Watches
    <3>. QED  BY <1>0, <1>3, <3>1 DEF vars, CountsExact, RefSet, WatchSet
  <2>3. Lives'
    <3>0. at' = at /\ \A t \in Contexts : Target(t)' = Target(t)
      BY <1>3 DEF vars, Target
    <3>1. Counted'
      BY <1>0, <1>3, <3>0 DEF vars, Lives, Counted
    <3>2. Kept'
      BY <1>0, <1>3, <3>0 DEF vars, Lives, Kept
    <3>3. Doomed'
      BY <1>0, <1>3, <3>0 DEF vars, Lives, Doomed
    <3>4. Alone'
      BY <1>0, <1>3, <3>0 DEF vars, Lives, Alone
    <3>. QED  BY <3>1, <3>2, <3>3, <3>4 DEF Lives
  <2>. QED  BY <2>1, <2>2, <2>3, <2>4 DEF IInv
<1>. QED
  BY <1>1, <1>2, <1>3 DEF Next

(* The invariant holds at every point of every interleaving, for any       *)
(* number of contexts, pointers and blocks, as long as no weak_ptr is      *)
(* assigned from a weak_ptr of another type.                               *)
THEOREM Invariance ==
  ASSUME "convert" \notin Operations
  PROVE  Spec => []IInv
BY InitIInv, NextIInv, PTL DEF Spec

(* The counters and the contexts keep their types; in particular the       *)
(* unsigned counts of the control block never wrap below zero.             *)
THEOREM TypeCorrect ==
  ASSUME "convert" \notin Operations
  PROVE  Spec => []TypeOK
<1>1. IInv => TypeOK
  BY DEF IInv
<1>. QED
  BY <1>1, Invariance, PTL

(* __ref_count is the number of shared_ptrs and __weak_count the number of *)
(* pointers, between any two atomic accesses of any contexts.              *)
THEOREM CountsCorrect ==
  ASSUME "convert" \notin Operations
  PROVE  Spec => []CountsExact
<1>1. IInv => CountsExact
  BY DEF IInv
<1>. QED
  BY <1>1, Invariance, PTL

(* No context accesses a control block whose memory was returned, and no   *)
(* pointer at rest points to one.                                          *)
THEOREM BlocksSafe ==
  ASSUME "convert" \notin Operations
  PROVE  Spec => []BlockOutlivesPointers
<1>1. IInv => BlockOutlivesPointers
  <2>. SUFFICES ASSUME IInv PROVE BlockOutlivesPointers
    OBVIOUS
  <2>0. TypeOK /\ Shape /\ Exclusive /\ CountsExact /\ Lives
    BY DEF IInv
  <2>1. ASSUME NEW t \in Contexts, at[t].pc \notin {"idle", "assign"}
        PROVE  block[Target(t)] = "alive"
    <3>1. Target(t) \in Blocks /\ (at[t].pc \in Releasing \cup Taking => weak[Target(t)] > 0)
      BY <2>0, <2>1, Held
    <3>2. at[t].pc \in Releasing \cup Taking \cup {"delete_block"}
      BY <2>0, <2>1 DEF TypeOK, PCs, Releasing, Taking
    <3>. QED  BY <2>0, <3>1, <3>2 DEF Lives, Counted, Doomed
  <2>2. ASSUME NEW s \in Slots, ctrl[s] # null, ~Written(s)
        PROVE  block[ctrl[s]] = "alive"
    <3>1. ctrl[s] \in Blocks /\ \A u \in Contexts : at[u].dst # s
      BY <2>0, <2>2 DEF TypeOK, Written
    <3>2. weak[ctrl[s]] > 0
      BY <2>0, <3>1, AtRest, Positive
    <3>. QED  BY <2>0, <3>1, <3>2 DEF Lives, Counted, Doomed
  <2>. QED
    BY <2>1, <2>2 DEF BlockOutlivesPointers
<1>. QED
  BY <1>1, Invariance, PTL

(* A shared_ptr at rest keeps its object alive.                            *)
THEOREM ObjectsSafe ==
  ASSUME "convert" \notin Operations
  PROVE  Spec => []ObjectOutlivesShared
<1>1. IInv => ObjectOutlivesShared
  <2>. SUFFICES ASSUME IInv, NEW s \in SharedSlots, ctrl[s] # null, ~Written(s)
                PROVE  object[ctrl[s]] = "alive"
    BY DEF ObjectOutlivesShared
  <2>0. TypeOK /\ CountsExact /\ Lives /\ s \in Slots
    BY DEF IInv, Slots
  <2>1. ctrl[s] \in Blocks /\ \A u \in Contexts : at[u].dst # s
    BY <2>0 DEF TypeOK, Written
  <2>2. ref[ctrl[s]] > 0
    BY SMTT(20), <2>0, <2>1, AtRest, Positive
  <2>. QED  BY <2>0, <2>1, <2>2 DEF Lives, Counted
<1>. QED
  BY <1>1, Invariance, PTL

(* When every operation has finished, what no pointer reaches has been     *)
(* deleted.                                                                *)
THEOREM NoLeak ==
  ASSUME "convert" \notin Operations
  PROVE  Spec => []NothingLeaked
<1>1. IInv => NothingLeaked
  <2>. SUFFICES ASSUME IInv, \A t \in Contexts : at[t] = Idle, NEW b \in Blocks
                PROVE  /\ object[b] = "alive" => \E s \in SharedSlots : ctrl[s] = b
                       /\ block[b] = "alive" => \E s \in Slots : ctrl[s] = b
    BY DEF NothingLeaked
  <2>1. \A t \in Contexts : at[t].pc = "idle" /\ at[t].op = "none"
    BY DEF Idle
  <2>2. (object[b] = "alive" => ref[b] > 0) /\ (block[b] = "alive" => weak[b] > 0)
    BY <2>1 DEF IInv, Lives, Kept
  <2>3. ref[b] = Cardinality(RefSet(b)) /\ weak[b] = Cardinality(WatchSet(b))
    BY DEF IInv, CountsExact, RefSet, WatchSet
  <2>4. (RefSet(b) = {} => ref[b] = 0) /\ (WatchSet(b) = {} => weak[b] = 0)
    BY <2>3, FS_EmptySet
  <2>5. \A s \in Slots : (Refers(s, b) => ctrl[s] = b) /\ (Watches(s, b) => ctrl[s] = b)
    BY <2>1 DEF Refers, Watches
  <2>. QED
    BY <2>2, <2>4, <2>5 DEF RefSet, WatchSet, Slots
<1>. QED
  BY <1>1, Invariance, PTL

(* Once the destructor has run the reference count stays at zero: lock()   *)
(* cannot bring the object back.                                           *)
THEOREM DeadStaysDead ==
  ASSUME "convert" \notin Operations
  PROVE  Spec => NoResurrection
<1>. DEFINE A == \A b \in Blocks : object[b] = "dead" => ref'[b] = 0 /\ object'[b] = "dead"
<1>1. ASSUME IInv, [Next]_vars PROVE [A]_vars
  <2>0. TypeOK /\ Shape /\ Exclusive /\ CountsExact /\ Lives /\ TypeOK' /\ Lives'
    BY <1>1, NextIInv DEF IInv
  <2>1. ASSUME NEW t \in Contexts, Begin(t), NEW b \in Blocks, object[b] = "dead"
        PROVE  object'[b] = "dead"
    <3>1. CASE \E d \in SharedSlots, c \in Blocks : make_shared(t, d, c)
      <4>1. PICK c \in Blocks : block[c] = "unused" /\ object' = [object EXCEPT ![c] = "alive"]
        BY Zenon, <3>1 DEF make_shared
      <4>2. object[c] = "unused"
        BY <2>0, <4>1 DEF Lives, Counted
      <4>. QED  BY <2>0, <2>1, <4>1, <4>2 DEF TypeOK
    <3>2. CASE ~\E d \in SharedSlots, c \in Blocks : make_shared(t, d, c)
      <4>1. object' = object
        BY Zenon, <2>1, <3>2 DEF Begin, assignment, reset, lock
      <4>. QED  BY <2>1, <4>1
    <3>. QED  BY <3>1, <3>2
  <2>2. ASSUME NEW t \in Contexts, Step(t), NEW b \in Blocks, object[b] = "dead"
        PROVE  object'[b] = "dead"
    BY <2>0, <2>2 DEF Step, load, cas, assign, release_ref, delete_object, release_weak,
                      delete_block, add_ref, add_weak, TypeOK
  <2>3. \A b \in Blocks : object'[b] = "dead" => ref'[b] = 0
    BY <2>0 DEF Lives, Counted, TypeOK
  <2>. QED
    BY <1>1, <2>1, <2>2, <2>3 DEF Next
<1>. QED
  BY <1>1, Invariance, PTL DEF Spec, NoResurrection
=============================================================================
