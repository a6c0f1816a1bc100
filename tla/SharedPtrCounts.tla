--------------------------- MODULE SharedPtrCounts ---------------------------
(***************************************************************************)
(* Second part of the proofs about SharedPtr: given Shape and Exclusive,   *)
(* every access changes the two counters of a control block exactly as it  *)
(* changes the set of pointers that account for them.                      *)
(***************************************************************************)
EXTENDS SharedPtrShape, FiniteSetTheorems
(* Counting.                                                               *)

RefSet(b) == {s \in SharedSlots : Refers(s, b)}
WatchSet(b) == {s \in Slots : Watches(s, b)}

(* There are finitely many pointers to count.                              *)
LEMMA SetsFinite ==
  ASSUME NEW S, S \subseteq Slots
  PROVE  IsFiniteSet(S)
BY Zenon, SlotsAssumption, FS_Union, FS_Subset DEF Slots

(* Two sets that differ at most in d.                                      *)
LEMMA CountOne ==
  ASSUME NEW S, NEW T, NEW d, IsFiniteSet(S), IsFiniteSet(T), S \ {d} = T \ {d}
  PROVE  /\ Cardinality(S) \in Nat /\ Cardinality(T) \in Nat
         /\ Cardinality(T) = IF d \in T
                             THEN IF d \in S THEN Cardinality(S) ELSE Cardinality(S) + 1
                             ELSE IF d \in S THEN Cardinality(S) - 1 ELSE Cardinality(S)
<1>1. Cardinality(S \ {d}) = IF d \in S THEN Cardinality(S) - 1 ELSE Cardinality(S)
  BY FS_RemoveElement
<1>2. Cardinality(T \ {d}) = IF d \in T THEN Cardinality(T) - 1 ELSE Cardinality(T)
  BY FS_RemoveElement
<1>3. Cardinality(S) \in Nat /\ Cardinality(T) \in Nat
  BY FS_CardinalityType
<1>. QED
  BY <1>1, <1>2, <1>3

(* A pointer that is not the destination of the access counts as before.   *)
LEMMA OtherSlots ==
  ASSUME TypeOK, Shape, Exclusive, NEW t \in Contexts, Local(t),
         NEW x \in Slots, x # at[t].dst, ctrl'[x] = ctrl[x], NEW b \in Blocks
  PROVE  (Refers(x, b)' <=> Refers(x, b)) /\ (Watches(x, b)' <=> Watches(x, b))
<1>. USE SlotsAssumption
<1>2. \A u \in Contexts : at[u].dst = x \/ at'[u].dst = x => u # t /\ at'[u] = at[u]
  BY DEF Local, Slots
<1>3. \A u \in Contexts : u # t /\ at[u].dst = x /\ at[u].op = "lock" =>
        ctrl'[at[u].src] = ctrl[at[u].src]
  BY DEF Local, Exclusive, Shape, ShapeOf, Slots
<1>. QED
  BY <1>2, <1>3 DEF Refers, Watches

(* Whether t's own destination counts is a matter of where t is.           *)
OwnRef(a, b) ==
  \/ /\ ctrl[a.dst] = b
     /\ a.pc \notin {"delete_object", "release_weak", "delete_block", "assign", "add_ref"}
  \/ a.op = "lock" /\ a.pc = "add_weak" /\ ctrl[a.src] = b
OwnWatch(a, b) ==
  /\ ctrl[a.dst] = b
  /\ a.pc \notin {"delete_block", "assign", "add_ref", "add_weak"}

(* No other context has the same destination, so t alone decides whether   *)
(* its destination counts.                                                 *)
LEMMA OwnSlot ==
  ASSUME TypeOK, Exclusive, NEW t \in Contexts, Local(t), NEW b \in Blocks,
         NEW d \in Slots, d = at[t].dst
  PROVE  /\ Refers(d, b) <=> OwnRef(at[t], b)
         /\ Watches(d, b) <=> OwnWatch(at[t], b)
         /\ at'[t].dst = d => /\ Refers(d, b)' <=> OwnRef(at[t], b)'
                              /\ Watches(d, b)' <=> OwnWatch(at[t], b)'
         /\ at'[t].dst # d => /\ Refers(d, b)' <=> ctrl'[d] = b
                              /\ Watches(d, b)' <=> ctrl'[d] = b
<1>1. \A u \in Contexts \ {t} : at[u].dst # d /\ at'[u].dst # d
  BY SlotsAssumption DEF Exclusive, Local
<1>. QED
  BY <1>1 DEF Refers, Watches, OwnRef, OwnWatch

(* The counts change as the sets do at t's destination, for any step of t  *)
(* that is no move.                                                        *)
LEMMA CountsFollow ==
  ASSUME TypeOK, Shape, Exclusive, CountsExact, NEW t \in Contexts, Local(t),
         NEW d \in Slots, d = at[t].dst, \A x \in Slots \ {d} : ctrl'[x] = ctrl[x],
         \A b \in Blocks :
           /\ ref'[b] = IF d \in SharedSlots
                        THEN IF Refers(d, b)'
                             THEN IF Refers(d, b) THEN ref[b] ELSE ref[b] + 1
                             ELSE IF Refers(d, b) THEN ref[b] - 1 ELSE ref[b]
                        ELSE ref[b]
           /\ weak'[b] = IF Watches(d, b)'
                         THEN IF Watches(d, b) THEN weak[b] ELSE weak[b] + 1
                         ELSE IF Watches(d, b) THEN weak[b] - 1 ELSE weak[b]
  PROVE  CountsExact'
<1>. SUFFICES ASSUME NEW b \in Blocks
              PROVE  ref'[b] = Cardinality(RefSet(b)') /\ weak'[b] = Cardinality(WatchSet(b)')
  BY SMTT(20) DEF CountsExact, RefSet, WatchSet
<1>1. \A x \in Slots \ {d} :
        (Refers(x, b)' <=> Refers(x, b)) /\ (Watches(x, b)' <=> Watches(x, b))
  BY OtherSlots
<1>2. RefSet(b) \ {d} = RefSet(b)' \ {d} /\ WatchSet(b) \ {d} = WatchSet(b)' \ {d}
  BY <1>1 DEF RefSet, WatchSet, Slots
<1>3. IsFiniteSet(RefSet(b)) /\ IsFiniteSet(WatchSet(b))
  BY SetsFinite DEF RefSet, WatchSet, Slots
<1>4. IsFiniteSet(RefSet(b)') /\ IsFiniteSet(WatchSet(b)')
  BY SetsFinite DEF RefSet, WatchSet, Slots
<1>5. /\ d \in RefSet(b) <=> d \in SharedSlots /\ Refers(d, b)
      /\ d \in RefSet(b)' <=> d \in SharedSlots /\ Refers(d, b)'
      /\ d \in WatchSet(b) <=> Watches(d, b)
      /\ d \in WatchSet(b)' <=> Watches(d, b)'
  BY DEF RefSet, WatchSet
<1>6. ref[b] = Cardinality(RefSet(b)) /\ weak[b] = Cardinality(WatchSet(b))
  BY Zenon DEF CountsExact, RefSet, WatchSet
<1>7. ref'[b] = Cardinality(RefSet(b)')
  BY <1>2, <1>3, <1>4, <1>5, <1>6, CountOne
<1>8. weak'[b] = Cardinality(WatchSet(b)')
  BY <1>2, <1>3, <1>4, <1>5, <1>6, CountOne
<1>. QED
  BY <1>7, <1>8

(* Every access other than the pointer exchange of a move keeps the counts *)
(* exact: __add_ref, __release_ref, __add_weak, __release_weak, lock().    *)
LEMMA StepCounts ==
  ASSUME TypeOK, Shape, Exclusive, CountsExact, NEW t \in Contexts, Step(t),
         ~(at[t].op = "move" /\ at[t].pc = "assign")
  PROVE  CountsExact'
<1>. USE SlotsAssumption
<1>1. Local(t)
  BY StepLocal
<1>2. PICK d \in Slots : d = at[t].dst
  BY <1>1 DEF Local
<1>3. \A b \in Blocks :
         /\ Refers(d, b) <=> OwnRef(at[t], b)
         /\ Watches(d, b) <=> OwnWatch(at[t], b)
         /\ at'[t].dst = d => /\ Refers(d, b)' <=> OwnRef(at[t], b)'
                              /\ Watches(d, b)' <=> OwnWatch(at[t], b)'
         /\ at'[t].dst # d => /\ Refers(d, b)' <=> ctrl'[d] = b
                              /\ Watches(d, b)' <=> ctrl'[d] = b
  BY <1>1, <1>2, OwnSlot
<1>. DEFINE Follows ==
       \A b \in Blocks :
           /\ ref'[b] = IF d \in SharedSlots
                        THEN IF Refers(d, b)'
                             THEN IF Refers(d, b) THEN ref[b] ELSE ref[b] + 1
                             ELSE IF Refers(d, b) THEN ref[b] - 1 ELSE ref[b]
                        ELSE ref[b]
           /\ weak'[b] = IF Watches(d, b)'
                         THEN IF Watches(d, b) THEN weak[b] ELSE weak[b] + 1
                         ELSE IF Watches(d, b) THEN weak[b] - 1 ELSE weak[b]
<1>. SUFFICES (\A x \in Slots \ {d} : ctrl'[x] = ctrl[x]) /\ Follows
  BY <1>1, <1>2, CountsFollow
<1>4. ShapeOf(at[t]) /\ at[t] \in Fields /\ ctrl \in [Slots -> Blocks \cup {null}]
      /\ ref \in [Blocks -> Nat] /\ weak \in [Blocks -> Nat]
  BY DEF Shape, TypeOK, Fields
<1>5. at \in [Contexts -> Fields]
  BY DEF TypeOK, Fields
<1>. USE <1>2, <1>4, <1>5 DEF ShapeOf, Goto, Finish, Idle, Target, Fields
<1>6. CASE load(t)
  <2>1. at'[t].dst = null \/ (at'[t].dst = d /\ at'[t].pc = "cas")
    BY <1>6 DEF load
  <2>2. at[t].pc = "load" /\ ctrl[d] = null /\ ctrl' = ctrl /\ ref' = ref /\ weak' = weak
    BY <1>6 DEF load
  <2>3. \A b \in Blocks : /\ ~Refers(d, b) /\ ~Refers(d, b)'
                          /\ ~Watches(d, b) /\ ~Watches(d, b)'
    <3>. HIDE DEF ShapeOf, Fields, Target
    <3>. QED  BY <1>3, <2>1, <2>2 DEF OwnRef, OwnWatch
  <2>. QED  BY <2>2, <2>3
<1>7. CASE cas(t)
  <2>1. /\ at[t].pc = "cas" /\ at[t].op = "lock" /\ ctrl[d] = null /\ d \in SharedSlots
        /\ ctrl' = ctrl /\ weak' = weak /\ ctrl[at[t].src] \in Blocks
    BY <1>7 DEF cas
  <2>2. \A b \in Blocks : ~Refers(d, b) /\ ~Watches(d, b)
    <3>. HIDE DEF ShapeOf, Fields, Target
    <3>. QED  BY <1>3, <2>1 DEF OwnRef, OwnWatch
  <2>3. at'[t].dst = d /\ at'[t].src = at[t].src /\ at'[t].op = "lock"
    BY <1>7, <2>1 DEF cas
  <2>4. \A b \in Blocks : /\ ~Watches(d, b)'
                          /\ Refers(d, b)' <=> at'[t].pc = "add_weak" /\ ctrl[at[t].src] = b
    <3>. HIDE DEF ShapeOf, Fields, Target
    <3>. QED  BY <1>3, <2>1, <2>3 DEF OwnRef, OwnWatch
  <2>5. CASE ref[ctrl[at[t].src]] = at[t].seen
    <3>1. at'[t].pc = "add_weak" /\ ref' = [ref EXCEPT ![ctrl[at[t].src]] = @ + 1]
      BY <1>7, <2>1, <2>5 DEF cas
    <3>. QED  BY <2>1, <2>2, <2>4, <3>1
  <2>6. CASE ref[ctrl[at[t].src]] # at[t].seen
    <3>1. at'[t].pc = "load" /\ ref' = ref
      BY <1>7, <2>1, <2>6 DEF cas
    <3>. QED  BY <2>1, <2>2, <2>4, <3>1
  <2>. QED  BY <2>5, <2>6
<1>8. CASE release_ref(t)
  <2>1. /\ at[t].pc = "release_ref" /\ ctrl' = ctrl /\ weak' = weak /\ d \in SharedSlots
        /\ ctrl[d] \in Blocks /\ at[t].op # "lock"
        /\ ref' = [ref EXCEPT ![ctrl[d]] = @ - 1]
    BY Zenon, <1>8 DEF release_ref
  <2>2. at'[t].dst = d /\ at'[t].op = at[t].op /\ at'[t].pc \in {"delete_object", "release_weak"}
    BY <1>8 DEF release_ref
  <2>3. \A b \in Blocks : /\ Refers(d, b) <=> ctrl[d] = b
                          /\ ~Refers(d, b)'
                          /\ Watches(d, b) <=> Watches(d, b)'
    <3>. HIDE DEF ShapeOf, Fields, Target
    <3>. QED  BY <1>3, <2>1, <2>2 DEF OwnRef, OwnWatch
  <2>. QED  BY <2>1, <2>3
<1>9. CASE delete_object(t) \/ delete_block(t)
  <2>1. /\ ctrl' = ctrl /\ weak' = weak /\ ref' = ref /\ at[t].op # "lock"
        /\ \/ at[t].pc = "delete_object" /\ at'[t].pc = "release_weak"
           \/ at[t].pc = "delete_block" /\ at'[t].pc = "assign"
    BY <1>9 DEF delete_object, delete_block
  <2>2. at'[t].dst = d /\ at'[t].op = at[t].op
    BY <1>9 DEF delete_object, delete_block
  <2>3. \A b \in Blocks : /\ ~Refers(d, b) /\ ~Refers(d, b)'
                          /\ Watches(d, b) <=> Watches(d, b)'
    <3>. HIDE DEF ShapeOf, Fields, Target
    <3>. QED  BY <1>3, <2>1, <2>2 DEF OwnRef, OwnWatch
  <2>. QED  BY <2>1, <2>3
<1>10. CASE release_weak(t)
  <2>1. /\ at[t].pc = "release_weak" /\ ctrl' = ctrl /\ ref' = ref
        /\ ctrl[d] \in Blocks /\ at[t].op # "lock"
        /\ weak' = [weak EXCEPT ![ctrl[d]] = @ - 1]
    BY Zenon, <1>10 DEF release_weak
  <2>2. at'[t].dst = d /\ at'[t].op = at[t].op /\ at'[t].pc \in {"delete_block", "assign"}
    BY <1>10 DEF release_weak
  <2>3. \A b \in Blocks : /\ Watches(d, b) <=> ctrl[d] = b
                          /\ ~Refers(d, b) /\ ~Refers(d, b)' /\ ~Watches(d, b)'
    <3>. HIDE DEF ShapeOf, Fields, Target
    <3>. QED  BY <1>3, <2>1, <2>2 DEF OwnRef, OwnWatch
  <2>. QED  BY <2>1, <2>3
<1>11. CASE add_ref(t)
  <2>1. /\ at[t].pc = "add_ref" /\ ctrl' = ctrl /\ weak' = weak /\ d \in SharedSlots
        /\ ctrl[d] \in Blocks /\ at[t].op = "copy"
        /\ ref' = [ref EXCEPT ![ctrl[d]] = @ + 1]
    BY Zenon, <1>11 DEF add_ref, Fits, Copying
  <2>2. at'[t].dst = d /\ at'[t].op = at[t].op /\ at'[t].pc = "add_weak"
    BY <1>11 DEF add_ref
  <2>3. \A b \in Blocks : /\ ~Refers(d, b) /\ (Refers(d, b)' <=> ctrl[d] = b)
                          /\ ~Watches(d, b) /\ ~Watches(d, b)'
    <3>. HIDE DEF ShapeOf, Fields, Target
    <3>. QED  BY <1>3, <2>1, <2>2 DEF OwnRef, OwnWatch
  <2>. QED  BY <2>1, <2>3
<1>12. CASE add_weak(t)
  <2>1. /\ at[t].pc = "add_weak" /\ ref' = ref /\ at'[t].dst = null
        /\ Target(t) \in Blocks /\ weak' = [weak EXCEPT ![Target(t)] = @ + 1]
        /\ ctrl' = [ctrl EXCEPT ![d] = Target(t)]
    BY <1>12 DEF add_weak
  <2>2. ctrl[d] = IF at[t].op = "lock" THEN null ELSE Target(t)
    BY SMTT(20), <2>1
  <2>3. at[t].op = "lock" => Target(t) = ctrl[at[t].src]
    OBVIOUS
  <2>4. \A b \in Blocks : /\ Refers(d, b) <=> Target(t) = b
                          /\ Refers(d, b)' <=> Target(t) = b
                          /\ ~Watches(d, b) /\ (Watches(d, b)' <=> Target(t) = b)
    <3>. HIDE DEF ShapeOf, Fields, Target
    <3>. QED  BY <1>3, <2>1, <2>2, <2>3 DEF OwnRef, OwnWatch
  <2>. QED  BY <2>1, <2>4
<1>13. CASE assign(t)
  <2>1. /\ at[t].pc = "assign" /\ at[t].op \notin {"move", "lock"} /\ ref' = ref /\ weak' = weak
        /\ ctrl' = [ctrl EXCEPT ![d] = IF at[t].src = null THEN null ELSE ctrl[at[t].src]]
    BY SMTT(20), <1>13 DEF assign
  <2>2. \A b \in Blocks : ~Refers(d, b) /\ ~Watches(d, b)
    <3>. HIDE DEF ShapeOf, Fields, Target
    <3>. QED  BY <1>3, <2>1 DEF OwnRef, OwnWatch
  <2>3. ctrl'[d] = null \/ at[t].op \in Copying
    BY <2>1 DEF Copying, Ops
  <2>4. CASE ctrl'[d] = null
    <3>1. at'[t].dst = null \/ (at'[t].dst = d /\ at'[t].op = at[t].op)
      BY SMTT(20), <1>13 DEF assign
    <3>2. \A b \in Blocks : ~Refers(d, b)' /\ ~Watches(d, b)'
      <4>. HIDE DEF ShapeOf, Fields, Target
      <4>. QED  BY <1>3, <2>1, <2>4, <3>1 DEF OwnRef, OwnWatch
    <3>. QED  BY <2>1, <2>2, <3>2
  <2>5. CASE at[t].op \in Copying /\ ctrl'[d] # null
    <3>1. /\ at'[t].dst = d /\ at'[t].op = at[t].op
          /\ at'[t].pc = IF at[t].op = "copy" THEN "add_ref" ELSE "add_weak"
      BY SMTT(20), <1>13, <2>1, <2>5 DEF assign, AfterAssign, Copying
    <3>2. at[t].op # "copy" => d \notin SharedSlots
      BY SMTT(20), <2>5 DEF Fits, Copying
    <3>3. \A b \in Blocks : ~Watches(d, b)' /\ (d \in SharedSlots => ~Refers(d, b)')
      <4>. HIDE DEF ShapeOf, Fields, Target
      <4>. QED  BY <1>3, <2>1, <3>1, <3>2 DEF OwnRef, OwnWatch
    <3>. QED  BY <2>1, <2>2, <3>3
  <2>. QED  BY Zenon, <2>3, <2>4, <2>5
<1>. QED
  BY Zenon, <1>6, <1>7, <1>8, <1>9, <1>10, <1>11, <1>12, <1>13 DEF Step

(* Exchanging one member for another leaves the number of members alone.   *)
LEMMA CountSwap ==
  ASSUME NEW S, IsFiniteSet(S), NEW s, NEW d, s \in S, d \notin S
  PROVE  Cardinality((S \ {s}) \cup {d}) = Cardinality(S)
<1>1. /\ IsFiniteSet(S \ {s}) /\ Cardinality(S \ {s}) = Cardinality(S) - 1
      /\ Cardinality(S) \in Nat
  BY FS_RemoveElement, FS_CardinalityType
<1>2. Cardinality((S \ {s}) \cup {d}) = Cardinality(S \ {s}) + 1
  BY Zenon, <1>1, FS_AddElement
<1>. QED
  BY <1>1, <1>2

(* A slot nobody writes counts for the block it points to.                 *)
LEMMA AtRest ==
  ASSUME NEW x \in Slots, \A u \in Contexts : at[u].dst # x, NEW b \in Blocks
  PROVE  (Refers(x, b) <=> ctrl[x] = b) /\ (Watches(x, b) <=> ctrl[x] = b)
BY DEF Refers, Watches

(* A move hands the source's counts over to the destination.               *)
LEMMA MoveCounts ==
  ASSUME TypeOK, Shape, Exclusive, CountsExact, NEW t \in Contexts, assign(t),
         at[t].op = "move"
  PROVE  CountsExact'
<1>. USE SlotsAssumption
<1>1. Local(t)
  BY StepLocal DEF Step
<1>2. PICK d \in Slots, s \in Slots :
        /\ d = at[t].dst /\ s = at[t].src /\ d # s
        /\ d \in SharedSlots <=> s \in SharedSlots
  BY DEF assign, Shape, ShapeOf, Fits
<1>3. /\ at[t].pc = "assign" /\ at' = [at EXCEPT ![t] = Idle] /\ ref' = ref /\ weak' = weak
      /\ ctrl' = [ctrl EXCEPT ![d] = ctrl[s], ![s] = null]
  BY Zenon, <1>2 DEF assign, AfterAssign, Finish
<1>4. \A u \in Contexts : at[u].dst # s
  BY <1>2 DEF Exclusive, Shape, ShapeOf, Idle
<1>5. \A u \in Contexts : at'[u].dst \notin {s, d}
  BY <1>2, <1>3, <1>4 DEF Exclusive, TypeOK, Idle
<1>6. ctrl'[d] = ctrl[s] /\ ctrl'[s] = null /\ \A x \in Slots \ {d, s} : ctrl'[x] = ctrl[x]
  BY <1>2, <1>3 DEF TypeOK
<1>. SUFFICES ASSUME NEW b \in Blocks
              PROVE  ref[b] = Cardinality(RefSet(b)') /\ weak[b] = Cardinality(WatchSet(b)')
  BY SMTT(20), <1>3 DEF CountsExact, RefSet, WatchSet
<1>7. \A x \in Slots \ {d, s} :
        (Refers(x, b)' <=> Refers(x, b)) /\ (Watches(x, b)' <=> Watches(x, b))
  BY <1>1, <1>2, <1>6, OtherSlots
<1>8. /\ Refers(s, b) <=> ctrl[s] = b
      /\ Watches(s, b) <=> ctrl[s] = b
      /\ ~Refers(s, b)' /\ ~Watches(s, b)'
      /\ Refers(d, b)' <=> ctrl[s] = b
      /\ Watches(d, b)' <=> ctrl[s] = b
  BY <1>4, <1>5, <1>6 DEF Refers, Watches
<1>9. ~Refers(d, b) /\ ~Watches(d, b)
  BY <1>1, <1>2, <1>3, OwnSlot DEF OwnRef, OwnWatch
<1>10. IsFiniteSet(RefSet(b)) /\ IsFiniteSet(WatchSet(b))
  BY SetsFinite DEF RefSet, WatchSet, Slots
<1>11. ref[b] = Cardinality(RefSet(b)) /\ weak[b] = Cardinality(WatchSet(b))
  BY DEF CountsExact, RefSet, WatchSet
<1>12. CASE ctrl[s] # b
  <2>1. RefSet(b)' = RefSet(b) /\ WatchSet(b)' = WatchSet(b)
    BY <1>7, <1>8, <1>9, <1>12 DEF RefSet, WatchSet, Slots
  <2>. QED  BY <1>11, <2>1
<1>13. CASE ctrl[s] = b
  <2>1. s \in WatchSet(b) /\ d \notin WatchSet(b) /\ d \notin RefSet(b)
    BY <1>8, <1>9, <1>13 DEF RefSet, WatchSet
  <2>2. WatchSet(b)' = (WatchSet(b) \ {s}) \cup {d}
    BY <1>2, <1>7, <1>8, <1>13 DEF WatchSet
  <2>3. weak[b] = Cardinality(WatchSet(b)')
    BY <1>10, <1>11, <2>1, <2>2, CountSwap
  <2>4. ref[b] = Cardinality(RefSet(b)')
    <3>1. CASE s \in SharedSlots
      <4>1. s \in RefSet(b) /\ RefSet(b)' = (RefSet(b) \ {s}) \cup {d}
        BY <1>2, <1>7, <1>8, <1>13, <3>1 DEF RefSet, Slots
      <4>. QED  BY <1>10, <1>11, <2>1, <4>1, CountSwap
    <3>2. CASE s \notin SharedSlots
      <4>1. RefSet(b)' = RefSet(b)
        BY <1>2, <1>7, <3>2 DEF RefSet, Slots
      <4>. QED  BY <1>11, <4>1
    <3>. QED  BY <3>1, <3>2
  <2>. QED  BY <2>3, <2>4
<1>. QED
  BY <1>12, <1>13

(* Entering an operation changes no count: what its first access will      *)
(* release still counts, and a slot that counts for nothing points nowhere.*)
LEMMA EnterCounts ==
  ASSUME TypeOK, CountsExact, NEW t \in Contexts, at[t] = Idle,
         NEW d \in Slots, ~Written(d), NEW a, a.dst = d,
         at' = [at EXCEPT ![t] = a], ctrl' = ctrl, ref' = ref, weak' = weak,
         \/ a.pc \in {"assign", "load"} /\ ctrl[d] = null
         \/ a.pc = "release_ref"
         \/ a.pc = "release_weak" /\ d \in WeakSlots
  PROVE  CountsExact'
<1>. USE SlotsAssumption
<1>1. /\ \A u \in Contexts \ {t} : at'[u] = at[u]
      /\ at'[t] = a
      /\ \A u \in Contexts : at[u].dst # d
  BY DEF TypeOK, Written
<1>. SUFFICES ASSUME NEW b \in Blocks
              PROVE  RefSet(b)' = RefSet(b) /\ WatchSet(b)' = WatchSet(b)
  BY DEF CountsExact, RefSet, WatchSet
<1>2. ASSUME NEW x \in Slots \ {d}
      PROVE  (Refers(x, b)' <=> Refers(x, b)) /\ (Watches(x, b)' <=> Watches(x, b))
  <2>1. \A u \in Contexts : at[u].dst = x \/ at'[u].dst = x => at'[u] = at[u]
    BY <1>1 DEF Idle
  <2>. QED  BY <2>1 DEF Refers, Watches
<1>3. (Refers(d, b) <=> ctrl[d] = b) /\ (Watches(d, b) <=> ctrl[d] = b)
  BY <1>1, AtRest
<1>4. /\ Watches(d, b)' <=> ctrl[d] = b
      /\ d \in SharedSlots => (Refers(d, b)' <=> ctrl[d] = b)
  BY <1>1 DEF Watches, Refers
<1>. QED
  BY <1>2, <1>3, <1>4 DEF RefSet, WatchSet, Slots

-----------------------------------------------------------------------------
(* What the counts guarantee a context in the middle of an operation.      *)

Releasing == {"release_ref", "delete_object", "release_weak"}
Taking == {"add_ref", "add_weak", "load", "cas"}

(* A slot that counts makes the count positive.                            *)
LEMMA Positive ==
  ASSUME TypeOK, CountsExact, NEW b \in Blocks, NEW x \in Slots
  PROVE  /\ Watches(x, b) => weak[b] > 0
         /\ x \in SharedSlots /\ Refers(x, b) => ref[b] > 0
<1>1. IsFiniteSet(RefSet(b)) /\ IsFiniteSet(WatchSet(b))
  BY SetsFinite DEF RefSet, WatchSet, Slots
<1>2. ref[b] = Cardinality(RefSet(b)) /\ weak[b] = Cardinality(WatchSet(b))
  BY DEF CountsExact, RefSet, WatchSet
<1>3. ref[b] \in Nat /\ weak[b] \in Nat
  BY DEF TypeOK
<1>4. (ref[b] = 0 => RefSet(b) = {}) /\ (weak[b] = 0 => WatchSet(b) = {})
  BY <1>1, <1>2, FS_EmptySet
<1>. QED
  BY <1>3, <1>4 DEF RefSet, WatchSet

(* The block a context works on is counted: by its own destination while   *)
(* it releases, by its source while it takes.                              *)
LEMMA Held ==
  ASSUME TypeOK, Shape, Exclusive, CountsExact, NEW t \in Contexts
  PROVE  /\ at[t].pc \notin {"idle", "assign"} => Target(t) \in Blocks
         /\ at[t].pc \in Releasing \cup Taking => weak[Target(t)] > 0
         /\ at[t].pc \in {"release_ref", "add_ref"} => ref[Target(t)] > 0
<1>. USE SlotsAssumption
<1>1. at[t].pc \notin {"idle", "assign"} => Target(t) \in Blocks
  BY DEF Shape, ShapeOf, Target
<1>2. CASE at[t].pc \in Releasing
  <2>1. at[t].dst \in Slots /\ at[t].op # "lock" /\ Target(t) = ctrl[at[t].dst]
    BY <1>2 DEF Shape, ShapeOf, Target, Releasing
  <2>2. \A u \in Contexts \ {t} : at[u].dst # at[t].dst
    BY <2>1 DEF Exclusive
  <2>3. Watches(at[t].dst, Target(t))
    BY SMTT(20), <1>2, <2>1, <2>2 DEF Watches, Releasing
  <2>4. at[t].pc = "release_ref" => at[t].dst \in SharedSlots /\ Refers(at[t].dst, Target(t))
    BY SMTT(20), <2>1, <2>2 DEF Refers, Shape, ShapeOf
  <2>. QED
    BY SMTT(20), <1>1, <1>2, <2>1, <2>3, <2>4, Positive DEF Releasing
<1>3. CASE at[t].pc \in Taking
  <2>1. /\ at[t].src \in Slots /\ Target(t) = ctrl[at[t].src] /\ at[t].src # at[t].dst
        /\ at[t].pc = "add_ref" => at[t].src \in SharedSlots
    BY <1>3 DEF Shape, ShapeOf, Target, Taking, Copying, Fits, Slots
  <2>2. \A u \in Contexts : at[u].dst # at[t].src
    BY <2>1 DEF Exclusive
  <2>3. Watches(at[t].src, Target(t)) /\ Refers(at[t].src, Target(t))
    BY SMTT(20), <2>1, <2>2 DEF Watches, Refers
  <2>. QED
    BY SMTT(20), <1>1, <1>3, <2>1, <2>3, Positive DEF Taking
<1>. QED
  BY <1>1, <1>2, <1>3 DEF Releasing, Taking

(* The counts only change by one, within the naturals: every step keeps    *)
(* the types.                                                              *)
LEMMA StepType ==
  ASSUME TypeOK, Shape, Exclusive, CountsExact, NEW t \in Contexts, Step(t)
  PROVE  TypeOK'
<1>. USE SlotsAssumption
<1>1. at[t].pc \notin {"idle", "assign"} => Target(t) \in Blocks
  BY Held
<1>2. at[t].pc = "release_weak" => weak[Target(t)] > 0
  BY Held DEF Releasing
<1>3. at[t].pc = "release_ref" => ref[Target(t)] > 0
  BY Held
<1>. USE DEF TypeOK, Goto, Finish, Idle, PCs, Ops, Life
<1>4. CASE load(t)
  BY <1>1, <1>4 DEF load
<1>5. CASE cas(t)
  BY <1>1, <1>5 DEF cas
<1>6. CASE release_ref(t)
  BY <1>1, <1>3, <1>6 DEF release_ref
<1>7. CASE delete_object(t)
  BY <1>1, <1>7 DEF delete_object
<1>8. CASE release_weak(t)
  BY <1>1, <1>2, <1>8 DEF release_weak
<1>9. CASE delete_block(t)
  BY <1>1, <1>9 DEF delete_block
<1>10. CASE assign(t)
  <2>1. ctrl' \in [Slots -> Blocks \cup {null}]
    BY <1>10 DEF assign, Shape, ShapeOf
  <2>2. at'[t] = Idle \/ at'[t] = [at[t] EXCEPT !.pc = "add_ref"]
        \/ at'[t] = [at[t] EXCEPT !.pc = "add_weak"]
    BY <1>10 DEF assign, AfterAssign
  <2>3. at'[t] \in Fields
    BY <2>2 DEF Fields
  <2>4. at' \in [Contexts -> Fields]
    BY <1>10, <2>3 DEF assign, Fields
  <2>. QED  BY SMTT(20), <1>10, <2>1, <2>4 DEF assign, Fields
<1>11. CASE add_ref(t)
  BY <1>1, <1>11 DEF add_ref
<1>12. CASE add_weak(t)
  <2>1. /\ at' = [at EXCEPT ![t] = Idle] /\ weak' = [weak EXCEPT ![Target(t)] = @ + 1]
        /\ ctrl' = [ctrl EXCEPT ![at[t].dst] = Target(t)] /\ UNCHANGED <<ref, object, block>>
    BY <1>12 DEF add_weak
  <2>2. Idle \in Fields /\ Target(t) \in Blocks
    BY <1>1, <1>12 DEF add_weak, Fields
  <2>3. at' \in [Contexts -> Fields]
    BY <2>1, <2>2 DEF Fields
  <2>. HIDE DEF Idle
  <2>4. weak' \in [Blocks -> Nat]
    BY <2>1, <2>2
  <2>5. ctrl' \in [Slots -> Blocks \cup {null}]
    BY Zenon, <2>1, <2>2
  <2>. QED  BY <2>1, <2>3, <2>4, <2>5 DEF Fields
<1>. QED
  BY SMTT(20), <1>4, <1>5, <1>6, <1>7, <1>8, <1>9, <1>10, <1>11, <1>12 DEF Step
=============================================================================
