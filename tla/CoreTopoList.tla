---------------------------- MODULE CoreTopoList ----------------------------
(***************************************************************************)
(* The growable list of (package id, core id) keys of                      *)
(* src/linux/core_topology.c and the life the two callers in               *)
(* src/linux/cpu.c give it: init, any number of adds, sort, count the      *)
(* unique entries, free, and possibly a second life for the fallback.      *)
(*                                                                         *)
(* A block of memory is a function from its slots to their contents; NULL  *)
(* is the block with no slots.  Sizes are computed in size_t, that is      *)
(* modulo SizeMax + 1, so a request that wraps yields too small a block.   *)
(***************************************************************************)
EXTENDS Integers, FiniteSets, Functions

CONSTANTS
  PackageIds,       \* values of topology/physical_package_id
  CoreIds,          \* values of topology/core_id
  InitialCapacity,  \* K_INITIAL_CAPACITY
  KeySize,          \* sizeof(procmetrix_core_topo_key_t)
  SizeMax,          \* SIZE_MAX
  Garbage,          \* contents of a slot nobody wrote
  Unknown           \* no count reported yet (refinement mapping only)

ASSUME IdsAreNaturals == PackageIds \subseteq Nat /\ CoreIds \subseteq Nat

ASSUME SizesAreSane ==
  /\ InitialCapacity \in Nat \ {0}
  /\ KeySize \in Nat \ {0}
  /\ SizeMax \in Nat
  /\ InitialCapacity * KeySize <= SizeMax

Key == PackageIds \X CoreIds

ASSUME MarksAreNotData == Garbage \notin Key /\ Unknown \notin Nat

VARIABLES
  phase,     \* where the caller is: absent, filling, counting, counted
  reserved,  \* list->items_reserved
  present,   \* list->items_present
  data,      \* the block list->data points to
  index,     \* i in procmetrix_core_topo_list_count_unique
  unique     \* unique_items in procmetrix_core_topo_list_count_unique

listVars == <<phase, reserved, present, data, index, unique>>

-----------------------------------------------------------------------------
\* Memory

NULL == [j \in {} |-> Garbage]

\* The slots of a block of n keys: the byte count is a size_t.
Slots(n) == 0 .. (((n * KeySize) % (SizeMax + 1)) \div KeySize) - 1

Fresh(n) == [j \in Slots(n) |-> Garbage]

Resized_Fresh(block, n) == Fresh(n)

\* realloc keeps what fits and leaves the rest uninitialised.
Resized(block, n) ==
  [j \in Slots(n) |-> IF j \in DOMAIN block THEN block[j] ELSE Garbage]

-----------------------------------------------------------------------------
\* procmetrix_core_topo_key_compare: package first, then core.

KeyCompare_CoreOnly(lhs, rhs) ==
  IF lhs[2] < rhs[2] THEN -1 ELSE IF lhs[2] > rhs[2] THEN 1 ELSE 0

KeyCompare(lhs, rhs) ==
  IF lhs[1] < rhs[1] THEN -1
  ELSE IF lhs[1] > rhs[1] THEN 1
  ELSE IF lhs[2] < rhs[2] THEN -1
  ELSE IF lhs[2] > rhs[2] THEN 1
  ELSE 0

InOrder(block, n) ==
  \A i, j \in 0 .. n - 1 : i <= j => KeyCompare(block[i], block[j]) <= 0

-----------------------------------------------------------------------------
\* procmetrix_core_topo_list_init: the capacity is recorded even if malloc fails.

ListInit ==
  /\ phase = "absent"
  /\ phase' = "filling"
  /\ reserved' = InitialCapacity
  /\ present' = 0
  /\ data' \in {Fresh(InitialCapacity), NULL}
  /\ UNCHANGED <<index, unique>>

-----------------------------------------------------------------------------
\* procmetrix_core_topo_list_add

Usable == data # NULL /\ reserved # 0

NeedsGrowing == present >= reserved

\* Doubling would not fit in a size_t.
CannotDouble_Never == FALSE
CannotDouble == reserved > (SizeMax \div KeySize) \div 2

NewCapacity == reserved * 2

\* A list without a block refuses every key: PROCMETRIX_ERROR_INVALID_ARGUMENT.
AddRefused(k) ==
  /\ phase = "filling"
  /\ ~Usable
  /\ UNCHANGED listVars

\* The capacity cannot double, or realloc fails: the list stays as it was.
AddNoMemory(k) ==
  /\ phase = "filling"
  /\ Usable
  /\ NeedsGrowing
  /\ UNCHANGED listVars

AddInPlace(k) ==
  /\ phase = "filling"
  /\ Usable
  /\ ~NeedsGrowing
  /\ data' = [data EXCEPT ![present] = k]
  /\ present' = present + 1
  /\ UNCHANGED <<phase, reserved, index, unique>>

AddGrowing(k) ==
  /\ phase = "filling"
  /\ Usable
  /\ NeedsGrowing
  /\ ~CannotDouble
  /\ reserved' = NewCapacity
  /\ data' = [Resized(data, NewCapacity) EXCEPT ![present] = k]
  /\ present' = present + 1
  /\ UNCHANGED <<phase, index, unique>>

ListAdd(k) ==
  \/ AddRefused(k)
  \/ AddNoMemory(k)
  \/ AddInPlace(k)
  \/ AddGrowing(k)

-----------------------------------------------------------------------------
\* procmetrix_core_topo_list_sort: qsort leaves some ordered rearrangement of
\* the present items and touches nothing else.

Rearranged(block, n, p) ==
  [j \in DOMAIN block |-> IF j < n THEN block[p[j]] ELSE block[j]]

\* The counting call that follows starts with its locals at zero.
ListSort ==
  /\ phase = "filling"
  /\ phase' = "counting"
  /\ \E p \in Bijection(0 .. present - 1, 0 .. present - 1) :
       /\ data' = Rearranged(data, present, p)
       /\ InOrder(data', present)
  /\ index' = 0
  /\ unique' = 0
  /\ UNCHANGED <<reserved, present>>

-----------------------------------------------------------------------------
\* procmetrix_core_topo_list_count_unique, one iteration and the return

StartsNewRun(i) == i = 0 \/ KeyCompare(data[i], data[i - 1]) # 0

CountItem ==
  /\ phase = "counting"
  /\ index < present
  /\ unique' = unique + (IF StartsNewRun(index) THEN 1 ELSE 0)
  /\ index' = index + 1
  /\ UNCHANGED <<phase, reserved, present, data>>

CountReturn ==
  /\ phase = "counting"
  /\ index >= present
  /\ phase' = "counted"
  /\ UNCHANGED <<reserved, present, data, index, unique>>

ListFree_KeepsBlock ==
  /\ phase = "counted"
  /\ phase' = "absent"
  /\ reserved' = 0
  /\ present' = 0
  /\ UNCHANGED <<data, index, unique>>

\* procmetrix_core_topo_list_free: the block goes and the struct is zeroed.
ListFree ==
  /\ phase = "counted"
  /\ phase' = "absent"
  /\ data' = NULL
  /\ reserved' = 0
  /\ present' = 0
  /\ UNCHANGED <<index, unique>>

-----------------------------------------------------------------------------
Init ==
  /\ phase = "absent"
  /\ reserved = 0
  /\ present = 0
  /\ data = NULL
  /\ index = 0
  /\ unique = 0

Next ==
  \/ ListInit
  \/ \E k \in Key : ListAdd(k)
  \/ ListSort
  \/ CountItem
  \/ CountReturn
  \/ ListFree

Spec == Init /\ [][Next]_listVars

-----------------------------------------------------------------------------
\* Properties

Items == {data[j] : j \in 0 .. present - 1}

TypeOK ==
  /\ phase \in {"absent", "filling", "counting", "counted"}
  /\ reserved \in Nat
  /\ present \in Nat
  /\ data \in UNION {[Slots(n) -> Key \cup {Garbage}] : n \in {0, reserved}}
  /\ index \in Nat
  /\ unique \in Nat

\* The block really has the capacity the list believes it has, and the items
\* lie inside it: no add ever writes past the block, whatever the sequence of
\* growths, failed growths and size_t products that led here
\* (core_topology.c:48-70).
FitsItsBlock ==
  /\ present <= reserved
  /\ data # NULL => DOMAIN data = 0 .. reserved - 1
  /\ data = NULL => present = 0

\* What the count reads was written: sort and count never look at a slot
\* malloc or realloc left uninitialised (core_topology.c:108-136).
ItemsAreWritten == \A j \in 0 .. present - 1 : data[j] \in Key

\* The list implements the abstract counter: growing, failing to grow and
\* sorting neither lose nor invent a key, and the linear scan over neighbours
\* reports the number of different keys (core_topology.c:41-136).
Counter == INSTANCE DistinctCounter WITH
             seen <- Items,
             reported <- IF phase = "counted" THEN unique ELSE Unknown

CountsDistinct == Counter!Spec
=============================================================================
