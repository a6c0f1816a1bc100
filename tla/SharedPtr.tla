----------------------------- MODULE SharedPtr -----------------------------
(***************************************************************************)
(* std::shared_ptr and std::weak_ptr of include/libs/libc++/memory: the    *)
(* control block with its two atomic counters, and the operations on       *)
(* pointers, each taken apart into the atomic accesses it makes.  Contexts *)
(* (the main flow, interrupt handlers, other processors) interleave        *)
(* between any two accesses.                                               *)
(*                                                                         *)
(* A slot is a pointer variable; a construction is an assignment to an     *)
(* empty slot.  As the library requires, two contexts never write the same *)
(* slot, nor write one the other reads.  __ptr always travels with __ctrl  *)
(* and is not kept.                                                        *)
(***************************************************************************)
EXTENDS Integers, FiniteSets

CONSTANTS
  Contexts,      \* flows of control
  SharedSlots,   \* variables of type shared_ptr
  WeakSlots,     \* variables of type weak_ptr
  Blocks,        \* control blocks, each with its object
  Operations,    \* the operations the contexts use
  null           \* nullptr

Slots == SharedSlots \cup WeakSlots

ASSUME SlotsAssumption ==
  /\ IsFiniteSet(SharedSlots) /\ IsFiniteSet(WeakSlots)
  /\ SharedSlots \cap WeakSlots = {}
  /\ null \notin Slots /\ null \notin Blocks

VARIABLES
  ctrl,     \* slot -> the block it points to
  ref,      \* block -> __ref_count
  weak,     \* block -> __weak_count
  object,   \* block -> state of the object
  block,    \* block -> state of the block itself
  at        \* context -> the operation it is in, and where

vars == <<ctrl, ref, weak, object, block, at>>

Idle == [pc |-> "idle", op |-> "none", dst |-> null, src |-> null, seen |-> 0]

Init ==
  /\ ctrl = [s \in Slots |-> null]
  /\ ref = [b \in Blocks |-> 0]
  /\ weak = [b \in Blocks |-> 0]
  /\ object = [b \in Blocks |-> "unused"]
  /\ block = [b \in Blocks |-> "unused"]
  /\ at = [t \in Contexts |-> Idle]

-----------------------------------------------------------------------------
(* Who may start what.                                                     *)

Written(s) ==
  \E t \in Contexts : at[t].dst = s \/ (at[t].op = "move" /\ at[t].src = s)

Read(s) == \E t \in Contexts : at[t].src = s

(* The block a context works on: lock() the one its weak_ptr points to,    *)
(* every other operation the one its destination points to.                *)
Target(t) == IF at[t].op = "lock" THEN ctrl[at[t].src] ELSE ctrl[at[t].dst]

Goto(t, pc) == at' = [at EXCEPT ![t].pc = pc]

Finish(t) == at' = [at EXCEPT ![t] = Idle]

(* Sources and destinations of each operation.                             *)
Fits(op, d, s) ==
  \/ op = "copy" /\ d \in SharedSlots /\ s \in SharedSlots
  \/ op = "watch" /\ d \in WeakSlots /\ s \in SharedSlots
  \/ op \in {"weak_copy", "convert"} /\ d \in WeakSlots /\ s \in WeakSlots
  \/ op = "move" /\ (d \in SharedSlots <=> s \in SharedSlots)

-----------------------------------------------------------------------------
(* Operations begin.                                                       *)

(* make_shared: the block is built before anyone else can see it.          *)
make_shared(t, d, b) ==
  /\ at[t] = Idle /\ block[b] = "unused"
  /\ ctrl[d] = null /\ ~Written(d) /\ ~Read(d)
  /\ ctrl' = [ctrl EXCEPT ![d] = b]
  /\ ref' = [ref EXCEPT ![b] = 1]
  /\ weak' = [weak EXCEPT ![b] = 1]
  /\ object' = [object EXCEPT ![b] = "alive"]
  /\ block' = [block EXCEPT ![b] = "alive"]
  /\ UNCHANGED at

Release(d) ==
  IF ctrl[d] = null THEN "assign"
  ELSE IF d \in SharedSlots THEN "release_ref" ELSE "release_weak"

(* Copy and move constructors and assignments: release the old, then take  *)
(* the new.  d # s is the self-assignment test.                            *)
assignment(t, op, d, s) ==
  /\ at[t] = Idle /\ op \in Operations
  /\ Fits(op, d, s) /\ d # s
  /\ ~Written(d) /\ ~Read(d) /\ ~Written(s)
  /\ op = "move" => ~Read(s)
  /\ at' = [at EXCEPT ![t] = [Idle EXCEPT !.pc = Release(d), !.op = op,
                                          !.dst = d, !.src = s]]
  /\ UNCHANGED <<ctrl, ref, weak, object, block>>

(* Destructor, reset() and assignment of nullptr.                          *)
reset(t, d) ==
  /\ at[t] = Idle /\ ctrl[d] # null
  /\ ~Written(d) /\ ~Read(d)
  /\ at' = [at EXCEPT ![t] = [Idle EXCEPT !.pc = Release(d), !.op = "reset",
                                          !.dst = d]]
  /\ UNCHANGED <<ctrl, ref, weak, object, block>>

(* weak_ptr::lock() into a new shared_ptr.                                 *)
lock(t, d, s) ==
  /\ at[t] = Idle /\ d \in SharedSlots /\ s \in WeakSlots
  /\ ctrl[d] = null /\ ctrl[s] # null
  /\ ~Written(d) /\ ~Read(d) /\ ~Written(s)
  /\ at' = [at EXCEPT ![t] = [Idle EXCEPT !.pc = "load", !.op = "lock",
                                          !.dst = d, !.src = s]]
  /\ UNCHANGED <<ctrl, ref, weak, object, block>>

-----------------------------------------------------------------------------
(* The accesses of an operation.                                           *)

(* Off by one: the object goes with the second last reference.             *)
ReleaseRefEarly(t) ==
  LET b == Target(t) IN
  /\ at[t].pc = "release_ref"
  /\ ref' = [ref EXCEPT ![b] = @ - 1]
  /\ Goto(t, IF ref[b] <= 2 THEN "delete_object" ELSE "release_weak")
  /\ UNCHANGED <<ctrl, weak, object, block>>

release_ref(t) ==
  LET b == Target(t) IN
  /\ at[t].pc = "release_ref"
  /\ ref' = [ref EXCEPT ![b] = @ - 1]
  /\ Goto(t, IF ref[b] = 1 THEN "delete_object" ELSE "release_weak")
  /\ UNCHANGED <<ctrl, weak, object, block>>

delete_object(t) ==
  /\ at[t].pc = "delete_object"
  /\ object' = [object EXCEPT ![Target(t)] = "dead"]
  /\ Goto(t, "release_weak")
  /\ UNCHANGED <<ctrl, ref, weak, block>>

(* Off by one: compares the value before the decrement with zero.          *)
ReleaseWeakLate(t) ==
  LET b == Target(t) IN
  /\ at[t].pc = "release_weak"
  /\ weak' = [weak EXCEPT ![b] = @ - 1]
  /\ Goto(t, IF weak[b] = 0 THEN "delete_block" ELSE "assign")
  /\ UNCHANGED <<ctrl, ref, object, block>>

release_weak(t) ==
  LET b == Target(t) IN
  /\ at[t].pc = "release_weak"
  /\ weak' = [weak EXCEPT ![b] = @ - 1]
  /\ Goto(t, IF weak[b] = 1 THEN "delete_block" ELSE "assign")
  /\ UNCHANGED <<ctrl, ref, object, block>>

delete_block(t) ==
  /\ at[t].pc = "delete_block"
  /\ block' = [block EXCEPT ![Target(t)] = "dead"]
  /\ Goto(t, "assign")
  /\ UNCHANGED <<ctrl, ref, weak, object>>

(* The pointer itself.  Converting assignment of a weak_ptr of another     *)
(* type counts nothing; a move takes over the source's count.              *)
AfterAssign(op, b) ==
  IF b = null \/ op \in {"move", "reset", "convert"} THEN "idle"
  ELSE IF op = "copy" THEN "add_ref" ELSE "add_weak"

assign(t) ==
  LET d == at[t].dst
      s == at[t].src
      new == IF s = null THEN null ELSE ctrl[s]
      next == AfterAssign(at[t].op, new)
  IN
  /\ at[t].pc = "assign"
  /\ ctrl' = IF at[t].op = "move" THEN [ctrl EXCEPT ![d] = new, ![s] = null]
                                  ELSE [ctrl EXCEPT ![d] = new]
  /\ IF next = "idle" THEN Finish(t) ELSE Goto(t, next)
  /\ UNCHANGED <<ref, weak, object, block>>

(* A copy that forgets __add_weak() after the reference.                   *)
AddRefAlone(t) ==
  /\ at[t].pc = "add_ref"
  /\ ref' = [ref EXCEPT ![Target(t)] = @ + 1]
  /\ Finish(t)
  /\ UNCHANGED <<ctrl, weak, object, block>>

add_ref(t) ==
  /\ at[t].pc = "add_ref"
  /\ ref' = [ref EXCEPT ![Target(t)] = @ + 1]
  /\ Goto(t, "add_weak")
  /\ UNCHANGED <<ctrl, weak, object, block>>

add_weak(t) ==
  /\ at[t].pc = "add_weak"
  /\ weak' = [weak EXCEPT ![Target(t)] = @ + 1]
  /\ ctrl' = [ctrl EXCEPT ![at[t].dst] = Target(t)]
  /\ Finish(t)
  /\ UNCHANGED <<ref, object, block>>

load(t) ==
  LET n == ref[Target(t)] IN
  /\ at[t].pc = "load"
  /\ IF n = 0 THEN Finish(t)
              ELSE at' = [at EXCEPT ![t].pc = "cas", ![t].seen = n]
  /\ UNCHANGED <<ctrl, ref, weak, object, block>>

(* lock() that increments the count it finds without comparing.            *)
AddWithoutCompare(t) ==
  /\ at[t].pc = "cas"
  /\ ref' = [ref EXCEPT ![Target(t)] = @ + 1]
  /\ Goto(t, "add_weak")
  /\ UNCHANGED <<ctrl, weak, object, block>>

(* lock() that keeps comparing with the count it loaded first.             *)
CompareForever(t) ==
  LET b == Target(t) IN
  /\ at[t].pc = "cas"
  /\ IF ref[b] = at[t].seen
     THEN ref' = [ref EXCEPT ![b] = @ + 1] /\ Goto(t, "add_weak")
     ELSE UNCHANGED <<ref, at>>
  /\ UNCHANGED <<ctrl, weak, object, block>>

cas(t) ==
  LET b == Target(t) IN
  /\ at[t].pc = "cas"
  /\ IF ref[b] = at[t].seen
     THEN ref' = [ref EXCEPT ![b] = @ + 1] /\ Goto(t, "add_weak")
     ELSE Goto(t, "load") /\ UNCHANGED ref
  /\ UNCHANGED <<ctrl, weak, object, block>>

-----------------------------------------------------------------------------

Step(t) ==
  \/ release_ref(t) \/ delete_object(t) \/ release_weak(t) \/ delete_block(t)
  \/ assign(t) \/ add_ref(t) \/ add_weak(t) \/ load(t) \/ cas(t)

Begin(t) ==
  \/ \E d \in SharedSlots, b \in Blocks : make_shared(t, d, b)
  \/ \E d \in Slots, s \in Slots, op \in Operations : assignment(t, op, d, s)
  \/ \E d \in Slots : reset(t, d)
  \/ \E d \in SharedSlots, s \in WeakSlots : lock(t, d, s)

Next == \E t \in Contexts : Begin(t) \/ Step(t)

(* A context that is inside an operation keeps executing it; nothing       *)
(* obliges it to begin another.                                            *)
Spec == Init /\ [][Next]_vars /\ \A t \in Contexts : WF_vars(Step(t))

-----------------------------------------------------------------------------

Life == {"unused", "alive", "dead"}

PCs == {"idle", "release_ref", "delete_object", "release_weak",
        "delete_block", "assign", "add_ref", "add_weak", "load", "cas"}

Ops == {"none", "copy", "watch", "weak_copy", "convert", "move", "reset",
        "lock"}

(* The counters and the state of each context keep their types; a count    *)
(* never goes below zero (they are unsigned in the code).                  *)
TypeOK ==
  /\ ctrl \in [Slots -> Blocks \cup {null}]
  /\ ref \in [Blocks -> Nat] /\ weak \in [Blocks -> Nat]
  /\ object \in [Blocks -> Life] /\ block \in [Blocks -> Life]
  /\ at \in [Contexts -> [pc : PCs, op : Ops, dst : Slots \cup {null},
                          src : Slots \cup {null}, seen : Nat]]

(* Slot s accounts for one of b's references: it points to b and is not    *)
(* between the two halves of a release or of a copy, or lock() has         *)
(* incremented on its behalf.                                              *)
Refers(s, b) ==
  \/ /\ ctrl[s] = b
     /\ \A t \in Contexts : at[t].dst = s =>
          at[t].pc \notin {"delete_object", "release_weak", "delete_block",
                           "assign", "add_ref"}
  \/ \E t \in Contexts : /\ at[t].dst = s /\ at[t].op = "lock"
                         /\ at[t].pc = "add_weak" /\ ctrl[at[t].src] = b

(* Slot s accounts for one of b's weak references.                         *)
Watches(s, b) ==
  /\ ctrl[s] = b
  /\ \A t \in Contexts : at[t].dst = s =>
       at[t].pc \notin {"delete_block", "assign", "add_ref", "add_weak"}

(* __ref_count is the number of shared_ptrs and __weak_count the number of *)
(* pointers of both kinds, at every point between two accesses.            *)
CountsExact ==
  \A b \in Blocks :
    /\ ref[b] = Cardinality({s \in SharedSlots : Refers(s, b)})
    /\ weak[b] = Cardinality({s \in Slots : Watches(s, b)})

(* No operation touches a control block after its memory was returned, and *)
(* no pointer at rest points to one that was.                              *)
BlockOutlivesPointers ==
  /\ \A t \in Contexts : at[t].pc \notin {"idle", "assign"} =>
                           block[Target(t)] = "alive"
  /\ \A s \in Slots : ctrl[s] # null /\ ~Written(s) => block[ctrl[s]] = "alive"

(* A shared_ptr at rest keeps its object alive: its destructor has not run,*)
(* whatever other contexts release, lock or copy meanwhile.                *)
ObjectOutlivesShared ==
  \A s \in SharedSlots :
    ctrl[s] # null /\ ~Written(s) => object[ctrl[s]] = "alive"

(* With nothing in progress, an object no shared_ptr points to has been    *)
(* destroyed and a block nobody points to has been freed.                  *)
NothingLeaked ==
  (\A t \in Contexts : at[t] = Idle) =>
    \A b \in Blocks :
      /\ object[b] = "alive" => \E s \in SharedSlots : ctrl[s] = b
      /\ block[b] = "alive" => \E s \in Slots : ctrl[s] = b

(* Once the object's destructor has begun lock() can no longer bring the   *)
(* reference count back from zero.                                         *)
NoResurrection ==
  [][\A b \in Blocks : object[b] = "dead" => ref'[b] = 0 /\ object'[b] = "dead"]_vars

(* The compare-and-swap loop of lock() fails only because another context  *)
(* moved: every operation ends, unless others keep operating for ever.     *)
FinishesAlone ==
  \A t \in Contexts :
    []<>(at[t] = Idle) \/ []<>(\E u \in Contexts \ {t} : at[u] # Idle)

(* weak_ptr: a control block is deleted by the last weak reference, that   *)
(* is, only once no weak_ptr points to it any more.                        *)
DeletedByLastWeak ==
  \A s \in WeakSlots : ctrl[s] # null /\ ~Written(s) => block[ctrl[s]] # "dead"
=============================================================================
