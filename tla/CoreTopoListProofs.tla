------------------------- MODULE CoreTopoListProofs -------------------------
(***************************************************************************)
(* Proofs about CoreTopoList for every set of package and core ids, every  *)
(* initial capacity, every key size and every SIZE_MAX.                    *)
(***************************************************************************)
EXTENDS CoreTopoList, FiniteSetTheorems, TLAPS

-----------------------------------------------------------------------------
\* The inductive invariant: the block is as large as the list believes and
\* its product with KeySize did not wrap; sorted items stay in order until
\* the list is freed; unique counts the part of the block scanned so far.

Scanned == {data[j] : j \in 0 .. index - 1}

BlockOK ==
  /\ reserved \in Nat
  /\ present \in 0 .. reserved
  /\ \/ data = NULL /\ present = 0
     \/ /\ data \in [0 .. reserved - 1 -> Key \cup {Garbage}]
        /\ reserved * KeySize <= SizeMax
  /\ \A j \in 0 .. present - 1 : data[j] \in Key
  /\ phase = "absent" => data = NULL /\ reserved = 0

OrderOK == phase \in {"counting", "counted"} => InOrder(data, present)

CountOK ==
  /\ phase \in {"absent", "filling", "counting", "counted"}
  /\ index \in Nat
  /\ unique \in Nat
  /\ phase \in {"counting", "counted"} =>
       /\ index <= present
       /\ IsFiniteSet(Scanned)
       /\ unique = Cardinality(Scanned)
  /\ phase = "counted" => index = present

IInv == BlockOK /\ OrderOK /\ CountOK

-----------------------------------------------------------------------------
\* Facts about size_t and about the order of keys

\* A product that fits in a size_t does not wrap: the block has the slots
\* that were asked for (the requests of core_topology.c:25-26 and 57-59).
LEMMA SlotsOfFittingRequest ==
  ASSUME NEW n \in Nat, n * KeySize <= SizeMax
  PROVE  Slots(n) = 0 .. n - 1
<1>1. /\ KeySize \in Nat \ {0}
      /\ SizeMax \in Nat
  BY SizesAreSane
<1>2. n * KeySize \in Nat
  BY <1>1
<1>3. (n * KeySize) % (SizeMax + 1) = n * KeySize
  BY <1>1, <1>2
<1>4. (n * KeySize) \div KeySize = n
  BY <1>1
<1> QED
  BY <1>3, <1>4 DEF Slots

\* The guard against doubling leaves room for twice the capacity
\* (core_topology.c:50-55).
LEMMA DoublingFits ==
  ASSUME NEW n \in Nat, ~(n > (SizeMax \div KeySize) \div 2)
  PROVE  (n * 2) * KeySize <= SizeMax
<1>1. /\ KeySize \in Nat \ {0}
      /\ SizeMax \in Nat
  BY SizesAreSane
<1> DEFINE q == SizeMax \div KeySize
<1>2. q \in Nat /\ q * KeySize <= SizeMax
  BY <1>1
<1>3. n * 2 <= q
  <2>1. n <= q \div 2
    BY <1>2
  <2> HIDE DEF q
  <2> QED
    BY <1>2, <2>1
<1> HIDE DEF q
<1>4. (n * 2) * KeySize <= q * KeySize
  BY <1>1, <1>2, <1>3
<1> QED
  BY <1>1, <1>2, <1>4

\* A key has a package id and a core id, both naturals, and nothing else.
LEMMA KeysArePairs ==
  ASSUME NEW k \in Key
  PROVE  k[1] \in Nat /\ k[2] \in Nat /\ k = <<k[1], k[2]>>
<1>1. PICK p \in PackageIds, c \in CoreIds : k = <<p, c>>
  BY DEF Key
<1>2. k[1] = p /\ k[2] = c
  BY <1>1
<1> QED
  BY <1>1, <1>2, IdsAreNaturals

\* procmetrix_core_topo_key_compare is a total order that calls two keys
\* equal only when they are the same (core_topology.c:76-98).
LEMMA CompareOrders ==
  ASSUME NEW a \in Key, NEW b \in Key
  PROVE  /\ KeyCompare(a, b) \in {-1, 0, 1}
         /\ KeyCompare(a, b) = 0 <=> a = b
         /\ KeyCompare(a, b) <= 0 /\ KeyCompare(b, a) <= 0 => a = b
<1>1. /\ a[1] \in Nat /\ a[2] \in Nat /\ a = <<a[1], a[2]>>
      /\ b[1] \in Nat /\ b[2] \in Nat /\ b = <<b[1], b[2]>>
  BY KeysArePairs
<1>2. a[1] = b[1] /\ a[2] = b[2] => a = b
  BY <1>1
<1>3. KeyCompare(a, b) \in {-1, 0, 1}
  BY <1>1 DEF KeyCompare
<1>4. KeyCompare(a, b) = 0 => a[1] = b[1] /\ a[2] = b[2]
  BY <1>1 DEF KeyCompare
<1>5. KeyCompare(a, a) = 0
  BY <1>1 DEF KeyCompare
<1>6. KeyCompare(a, b) <= 0 /\ KeyCompare(b, a) <= 0
        => a[1] = b[1] /\ a[2] = b[2]
  BY <1>1 DEF KeyCompare
<1> QED
  BY <1>2, <1>3, <1>4, <1>5, <1>6

-----------------------------------------------------------------------------
\* Invariance

\* The invariant holds before the first list is made.
LEMMA InitOK == ASSUME Init PROVE IInv
<1>1. BlockOK
  BY DEF Init, BlockOK
<1>2. OrderOK
  BY DEF Init, OrderOK
<1>3. CountOK
  BY DEF Init, CountOK
<1> QED
  BY <1>1, <1>2, <1>3 DEF IInv

\* A fresh list satisfies it, whether malloc succeeded or not.
LEMMA ListInitOK == ASSUME IInv, ListInit PROVE IInv'
<1> USE DEF IInv
<1>1. /\ InitialCapacity \in Nat \ {0}
      /\ InitialCapacity * KeySize <= SizeMax
  BY SizesAreSane
<1>2. Fresh(InitialCapacity) \in
        [0 .. InitialCapacity - 1 -> Key \cup {Garbage}]
  BY <1>1, SlotsOfFittingRequest DEF Fresh
<1>3. BlockOK'
  BY <1>1, <1>2 DEF ListInit, BlockOK
<1>4. OrderOK'
  BY DEF ListInit, OrderOK
<1>5. CountOK'
  BY DEF ListInit, CountOK
<1> QED
  BY <1>3, <1>4, <1>5

\* What both ways of adding a key to a usable list come to.
LEMMA AddKeeps ==
  ASSUME IInv, phase = "filling", UNCHANGED <<phase, index, unique>>,
         NEW k \in Key,
         present' = present + 1,
         reserved' \in Nat, present' <= reserved',
         reserved' * KeySize <= SizeMax,
         data' \in [0 .. reserved' - 1 -> Key \cup {Garbage}],
         data'[present] = k,
         \A j \in 0 .. present - 1 : data'[j] = data[j]
  PROVE  IInv' /\ Items' = Items \cup {k}
<1> USE DEF IInv
<1>1. present \in Nat
  BY DEF BlockOK
<1>2. \A j \in 0 .. present' - 1 : j = present \/ j \in 0 .. present - 1
  BY <1>1
<1>3. \A j \in 0 .. present' - 1 : data'[j] \in Key
  BY <1>1, <1>2 DEF BlockOK
<1>4. BlockOK'
  <2>1. present' \in 0 .. reserved'
    BY <1>1
  <2>2. phase' # "absent"
    OBVIOUS
  <2> QED
    BY <1>3, <2>1, <2>2 DEF BlockOK
<1>5. OrderOK' /\ CountOK'
  BY DEF OrderOK, CountOK
<1>6. Items' = Items \cup {k}
  <2>1. Items' \subseteq Items \cup {k}
    BY <1>1, <1>2 DEF Items
  <2>2. k \in Items' /\ Items \subseteq Items'
    BY <1>1 DEF Items
  <2> QED
    BY <2>1, <2>2
<1> QED
  BY <1>4, <1>5, <1>6

\* An add with room to spare is such a way.
LEMMA AddInPlaceOK ==
  ASSUME IInv, NEW k \in Key, AddInPlace(k)
  PROVE  IInv' /\ Items' = Items \cup {k}
<1>1. /\ reserved \in Nat
      /\ present \in Nat /\ present < reserved
      /\ reserved * KeySize <= SizeMax
      /\ data \in [0 .. reserved - 1 -> Key \cup {Garbage}]
  BY DEF IInv, BlockOK, AddInPlace, Usable, NeedsGrowing
<1>2. /\ phase = "filling"
      /\ UNCHANGED <<phase, reserved, index, unique>>
      /\ present' = present + 1
      /\ data' = [data EXCEPT ![present] = k]
  BY DEF AddInPlace
<1>3. /\ data' \in [0 .. reserved' - 1 -> Key \cup {Garbage}]
      /\ data'[present] = k
      /\ \A j \in 0 .. present - 1 : data'[j] = data[j]
  BY <1>1, <1>2
<1>4. reserved' \in Nat /\ present' <= reserved' /\ reserved' * KeySize <= SizeMax
  BY <1>1, <1>2
<1> QED
  BY <1>2, <1>3, <1>4, AddKeeps

\* So is an add that doubles the block first: the doubled size fits a size_t,
\* and realloc keeps the items.
LEMMA AddGrowingOK ==
  ASSUME IInv, NEW k \in Key, AddGrowing(k)
  PROVE  IInv' /\ Items' = Items \cup {k}
<1>1. /\ reserved \in Nat \ {0}
      /\ present = reserved
      /\ data \in [0 .. reserved - 1 -> Key \cup {Garbage}]
  BY DEF IInv, BlockOK, AddGrowing, Usable, NeedsGrowing
<1>2. /\ phase = "filling"
      /\ UNCHANGED <<phase, index, unique>>
      /\ present' = present + 1
      /\ reserved' = reserved * 2
      /\ data' = [Resized(data, reserved * 2) EXCEPT ![present] = k]
  BY DEF AddGrowing, NewCapacity
<1>3. (reserved * 2) * KeySize <= SizeMax
  BY <1>1, DoublingFits DEF AddGrowing, CannotDouble
<1>4. reserved * 2 \in Nat
  BY <1>1
<1>5. Slots(reserved * 2) = 0 .. (reserved * 2) - 1
  BY <1>3, <1>4, SlotsOfFittingRequest
<1>6. /\ data' \in [0 .. reserved' - 1 -> Key \cup {Garbage}]
      /\ data'[present] = k
      /\ \A j \in 0 .. present - 1 : data'[j] = data[j]
  <2> DEFINE larger == Resized(data, reserved * 2)
  <2>1. larger = [j \in 0 .. (reserved * 2) - 1 |->
                    IF j \in DOMAIN data THEN data[j] ELSE Garbage]
    BY <1>5, Zenon DEF Resized
  <2>2. present \in 0 .. reserved' - 1
    BY <1>1, <1>2
  <2>3. data' = [larger EXCEPT ![present] = k]
    BY <1>2
  <2> HIDE DEF larger
  <2>4. /\ larger \in [0 .. reserved' - 1 -> Key \cup {Garbage}]
        /\ \A j \in 0 .. present - 1 : larger[j] = data[j]
    <3>1. DOMAIN data = 0 .. reserved - 1
      BY <1>1
    <3>2. 0 .. present - 1 \subseteq 0 .. (reserved * 2) - 1
      BY <1>1
    <3>3. \A j \in DOMAIN data : data[j] \in Key \cup {Garbage}
      BY <1>1
    <3>4. larger \in [0 .. (reserved * 2) - 1 -> Key \cup {Garbage}]
      BY <2>1, <3>3
    <3>5. \A j \in 0 .. present - 1 : larger[j] = data[j]
      BY <1>1, <2>1, <3>1, <3>2
    <3> QED BY <1>2, <3>4, <3>5
  <2>5. present \in Nat /\ present \notin 0 .. present - 1 /\ k \in Key
    BY <1>1
  <2> DEFINE room == 0 .. reserved' - 1
             before == 0 .. present - 1
  <2>6. before \subseteq room
    BY <1>1, <1>2
  <2> HIDE DEF room, before
  <2>7. data' \in [room -> Key \cup {Garbage}] /\ data'[present] = k
    BY <2>2, <2>3, <2>4, <2>5 DEF room
  <2>8. \A j \in before : data'[j] = data[j]
    BY <2>3, <2>4, <2>5, <2>6 DEF room, before
  <2> QED BY <2>7, <2>8 DEF room, before
<1>7. reserved' \in Nat /\ present' <= reserved' /\ reserved' * KeySize <= SizeMax
  BY <1>1, <1>2, <1>3
<1> QED
  BY <1>2, <1>6, <1>7, AddKeeps

\* qsort permutes the present items: none is lost, none appears.
LEMMA ListSortOK ==
  ASSUME IInv, ListSort
  PROVE  IInv' /\ Items' = Items
<1>1. PICK p \in Bijection(0 .. present - 1, 0 .. present - 1) :
        data' = Rearranged(data, present, p) /\ InOrder(data', present)
  BY DEF ListSort
<1>2. /\ p \in [0 .. present - 1 -> 0 .. present - 1]
      /\ \A t \in 0 .. present - 1 : \E s \in 0 .. present - 1 : p[s] = t
  BY DEF Bijection, Surjection
<1>3. /\ phase = "filling" /\ phase' = "counting"
      /\ index' = 0 /\ unique' = 0
      /\ UNCHANGED <<reserved, present>>
  BY DEF ListSort
<1>4. /\ reserved \in Nat /\ present \in 0 .. reserved
      /\ \A j \in 0 .. present - 1 : data[j] \in Key
  BY DEF IInv, BlockOK
<1>5. CASE data = NULL /\ present = 0
  <2>1. data' = NULL
    BY <1>1, <1>5 DEF Rearranged, NULL
  <2>2. BlockOK'
    BY <1>3, <1>4, <1>5, <2>1 DEF BlockOK
  <2>3. OrderOK'
    BY <1>1, <1>3 DEF OrderOK
  <2>4. Scanned' = {}
    BY <1>3 DEF Scanned
  <2>5. CountOK'
    BY <1>3, <1>5, <2>4, FS_EmptySet DEF CountOK
  <2>6. Items' = Items
    BY <1>3, <1>5 DEF Items
  <2> QED
    BY <2>2, <2>3, <2>5, <2>6 DEF IInv
<1>6. CASE /\ data \in [0 .. reserved - 1 -> Key \cup {Garbage}]
           /\ reserved * KeySize <= SizeMax
  <2>1. data' = [j \in 0 .. reserved - 1 |->
                   IF j < present THEN data[p[j]] ELSE data[j]]
    BY <1>1, <1>6 DEF Rearranged
  <2>2. \A j \in 0 .. present - 1 : data'[j] = data[p[j]]
    BY <1>4, <2>1
  <2>3. \A j \in 0 .. present - 1 : data'[j] \in Key
    BY <1>2, <1>4, <2>2
  <2>4. data' \in [0 .. reserved - 1 -> Key \cup {Garbage}]
    <3>1. \A j \in 0 .. reserved - 1 : data'[j] \in Key \cup {Garbage}
      <4> TAKE j \in 0 .. reserved - 1
      <4>1. CASE j < present
        BY <1>4, <2>3, <4>1
      <4>2. CASE ~(j < present)
        BY <1>6, <2>1, <4>2
      <4> QED
        BY <4>1, <4>2
    <3> QED
      BY <2>1, <3>1
  <2>5. BlockOK'
    BY <1>3, <1>4, <1>6, <2>3, <2>4 DEF BlockOK
  <2>6. OrderOK'
    BY <1>1, <1>3 DEF OrderOK
  <2>7. Scanned' = {}
    BY <1>3 DEF Scanned
  <2>8. CountOK'
    BY <1>3, <1>4, <2>7, FS_EmptySet DEF CountOK
  <2>9. Items' = Items
    <3>1. Items' = {data'[j] : j \in 0 .. present - 1}
      BY <1>3 DEF Items
    <3> DEFINE P == 0 .. present - 1
    <3> HIDE DEF P
    <3>2. \A j \in P : p[j] \in P /\ data'[j] = data[p[j]]
      BY <1>2, <2>2 DEF P
    <3>3. \A t \in P : \E s \in P : data'[s] = data[t]
      <4>1. \A t \in P : \E s \in P : p[s] = t
        BY <1>2 DEF P
      <4> QED
        BY <3>2, <4>1
    <3>4. Items = {data[j] : j \in P} /\ Items' = {data'[j] : j \in P}
      BY <3>1 DEF Items, P
    <3> QED
      BY <3>2, <3>3, <3>4
  <2> QED
    BY <2>5, <2>6, <2>8, <2>9 DEF IInv
<1> QED
  BY <1>5, <1>6 DEF IInv, BlockOK

\* In an ordered block a key starts a new run exactly when it was not seen
\* before: looking at the neighbour is enough (core_topology.c:128-133).
LEMMA NewRunMeansNewKey ==
  ASSUME IInv, phase = "counting", index < present
  PROVE  StartsNewRun(index) <=> data[index] \notin Scanned
<1>1. /\ present \in Nat /\ index \in Nat
      /\ \A j \in 0 .. present - 1 : data[j] \in Key
  BY DEF IInv, BlockOK, CountOK
<1>2. \A i, j \in 0 .. present - 1 : i <= j => KeyCompare(data[i], data[j]) <= 0
  BY DEF IInv, OrderOK, InOrder
<1>3. CASE index = 0
  BY <1>3 DEF StartsNewRun, Scanned
<1>4. CASE index # 0
  <2>1. /\ index \in 0 .. present - 1 /\ index - 1 \in 0 .. present - 1
        /\ index - 1 \in 0 .. index - 1
    BY <1>1, <1>4
  <2>2. StartsNewRun(index) <=> data[index] # data[index - 1]
    BY <1>1, <1>4, <2>1, CompareOrders DEF StartsNewRun
  <2>3. data[index - 1] \in Scanned
    BY <2>1 DEF Scanned
  <2>4. ASSUME NEW j \in 0 .. index - 1, data[j] = data[index]
        PROVE  data[index] = data[index - 1]
    <3>1. j \in 0 .. present - 1 /\ j <= index - 1 /\ index - 1 <= index
      BY <1>1
    <3>2. KeyCompare(data[j], data[index - 1]) <= 0
      BY <1>2, <2>1, <3>1
    <3>3. KeyCompare(data[index - 1], data[index]) <= 0
      BY <1>2, <2>1, <3>1
    <3> QED
      BY <1>1, <2>1, <2>4, <3>2, <3>3, CompareOrders
  <2>5. data[index] \in Scanned => data[index] = data[index - 1]
    BY <2>4 DEF Scanned
  <2> QED
    BY <2>2, <2>3, <2>5
<1> QED
  BY <1>3, <1>4

\* One more neighbour compared: unique stays the number of keys scanned.
LEMMA CountItemOK == ASSUME IInv, CountItem PROVE IInv'
<1>1. /\ phase = "counting" /\ index < present /\ index' = index + 1
      /\ unique' = unique + (IF StartsNewRun(index) THEN 1 ELSE 0)
      /\ UNCHANGED <<phase, reserved, present, data>>
  BY DEF CountItem
<1>2. /\ present \in Nat /\ index \in Nat /\ unique \in Nat
      /\ IsFiniteSet(Scanned) /\ unique = Cardinality(Scanned)
  BY <1>1 DEF IInv, BlockOK, CountOK
<1>3. Scanned' = Scanned \cup {data[index]}
  <2>1. Scanned' = {data[j] : j \in 0 .. index}
    BY <1>1, <1>2 DEF Scanned
  <2>2. 0 .. index = (0 .. index - 1) \cup {index}
    BY <1>2
  <2> QED
    BY <2>1, <2>2 DEF Scanned
<1>4. /\ IsFiniteSet(Scanned')
      /\ unique' = Cardinality(Scanned')
  BY <1>1, <1>2, <1>3, NewRunMeansNewKey, FS_AddElement
<1>5. BlockOK' /\ OrderOK'
  BY <1>1 DEF IInv, BlockOK, OrderOK
<1>6. CountOK'
  BY <1>1, <1>2, <1>4 DEF CountOK
<1> QED
  BY <1>5, <1>6 DEF IInv

\* At the end of the scan unique is the number of different items.
LEMMA CountReturnOK ==
  ASSUME IInv, CountReturn
  PROVE  IInv' /\ unique' = Cardinality(Items)
<1>1. /\ phase = "counting" /\ index >= present /\ phase' = "counted"
      /\ UNCHANGED <<reserved, present, data, index, unique>>
  BY DEF CountReturn
<1>2. index = present /\ unique = Cardinality(Scanned)
  BY <1>1 DEF IInv, BlockOK, CountOK
<1>3. Scanned = Items
  BY <1>2 DEF Scanned, Items
<1>4. BlockOK' /\ OrderOK'
  BY <1>1 DEF IInv, BlockOK, OrderOK
<1>5. CountOK'
  BY <1>1, <1>2 DEF IInv, CountOK, Scanned
<1> QED
  BY <1>1, <1>2, <1>3, <1>4, <1>5 DEF IInv

\* Freeing the list leaves no items and no block.
LEMMA ListFreeOK == ASSUME IInv, ListFree PROVE IInv' /\ Items' = {}
<1>1. BlockOK' /\ OrderOK' /\ CountOK'
  BY DEF IInv, BlockOK, OrderOK, CountOK, ListFree
<1>2. Items' = {}
  BY DEF ListFree, Items
<1> QED
  BY <1>1, <1>2 DEF IInv

\* Every step of the list keeps the invariant.
LEMMA StepOK == ASSUME IInv, [Next]_listVars PROVE IInv'
<1>1. CASE ListInit
  BY <1>1, ListInitOK
<1>2. ASSUME NEW k \in Key, ListAdd(k) PROVE IInv'
  <2>1. CASE AddRefused(k) \/ AddNoMemory(k)
    BY <2>1 DEF AddRefused, AddNoMemory, listVars, IInv, BlockOK, OrderOK,
                CountOK, Scanned
  <2>2. CASE AddInPlace(k)
    BY <2>2, AddInPlaceOK
  <2>3. CASE AddGrowing(k)
    BY <2>3, AddGrowingOK
  <2> QED
    BY <1>2, <2>1, <2>2, <2>3 DEF ListAdd
<1>3. CASE ListSort
  BY <1>3, ListSortOK
<1>4. CASE CountItem
  BY <1>4, CountItemOK
<1>5. CASE CountReturn
  BY <1>5, CountReturnOK
<1>6. CASE ListFree
  BY <1>6, ListFreeOK
<1>7. CASE UNCHANGED listVars
  BY <1>7 DEF listVars, IInv, BlockOK, OrderOK, CountOK, Scanned
<1> QED
  BY <1>1, <1>2, <1>3, <1>4, <1>5, <1>6, <1>7 DEF Next

\* The inductive invariant holds in every reachable state.
THEOREM Invariance == Spec => []IInv
<1>1. Init => IInv
  BY InitOK
<1>2. IInv /\ [Next]_listVars => IInv'
  BY StepOK
<1> QED
  BY <1>1, <1>2, PTL DEF Spec

-----------------------------------------------------------------------------
\* The properties the runs check

\* Every variable keeps its type; a block always has the slots its recorded
\* capacity stands for, or none (core_topology.c:24-38).
THEOREM TypeCorrect == Spec => []TypeOK
<1>1. IInv => TypeOK
  <2> SUFFICES ASSUME IInv PROVE TypeOK
    OBVIOUS
  <2> USE DEF IInv
  <2>1. /\ phase \in {"absent", "filling", "counting", "counted"}
        /\ reserved \in Nat /\ present \in Nat
        /\ index \in Nat /\ unique \in Nat
    BY DEF BlockOK, CountOK
  <2>2. CASE data = NULL
    <3>1. Slots(0) = {}
      BY SizesAreSane, SlotsOfFittingRequest
    <3> QED
      BY <2>1, <2>2, <3>1 DEF TypeOK, NULL
  <2>3. CASE data # NULL
    <3>1. /\ data \in [0 .. reserved - 1 -> Key \cup {Garbage}]
          /\ reserved * KeySize <= SizeMax
      BY <2>3 DEF BlockOK
    <3>2. Slots(reserved) = 0 .. reserved - 1
      BY <2>1, <3>1, SlotsOfFittingRequest
    <3> QED
      BY <2>1, <3>1, <3>2 DEF TypeOK
  <2> QED
    BY <2>2, <2>3
<1> QED
  BY <1>1, Invariance, PTL

\* The block has the capacity the list believes it has and holds every item:
\* no add writes past the end, for any initial capacity and any SIZE_MAX
\* (core_topology.c:41-74).
THEOREM NeverOverrun == Spec => []FitsItsBlock
<1>1. IInv => FitsItsBlock
  BY DEF IInv, BlockOK, FitsItsBlock, NULL
<1> QED
  BY <1>1, Invariance, PTL

\* The items sort and count read were written by an add
\* (core_topology.c:108-136).
THEOREM NoGarbageRead == Spec => []ItemsAreWritten
<1>1. IInv => ItemsAreWritten
  BY DEF IInv, BlockOK, ItemsAreWritten
<1> QED
  BY <1>1, Invariance, PTL

-----------------------------------------------------------------------------
\* Refinement

reportedNow == IF phase = "counted" THEN unique ELSE Unknown

\* Every step of the list is a step of the abstract counter or none.
LEMMA StepRefines ==
  ASSUME IInv, [Next]_listVars
  PROVE  [Counter!Next]_<<Items, reportedNow>>
<1> USE DEF Counter!Next
<1>1. CASE ListInit
  BY <1>1 DEF ListInit, Items, IInv, BlockOK, reportedNow, NULL
<1>2. ASSUME NEW k \in Key, ListAdd(k)
      PROVE  [Counter!Next]_<<Items, reportedNow>>
  <2>1. CASE AddRefused(k) \/ AddNoMemory(k)
    BY <2>1 DEF AddRefused, AddNoMemory, listVars, Items, reportedNow
  <2>2. CASE AddInPlace(k)
    BY <2>2, AddInPlaceOK DEF AddInPlace, Counter!Accept, reportedNow
  <2>3. CASE AddGrowing(k)
    BY <2>3, AddGrowingOK DEF AddGrowing, Counter!Accept, reportedNow
  <2> QED
    BY <1>2, <2>1, <2>2, <2>3 DEF ListAdd
<1>3. CASE ListSort
  BY <1>3, ListSortOK DEF ListSort, reportedNow
<1>4. CASE CountItem
  BY <1>4 DEF CountItem, Items, reportedNow
<1>5. CASE CountReturn
  <2>1. unique' = Cardinality(Items)
    BY <1>5, CountReturnOK
  <2>2. Counter!Cardinality(Items) = Cardinality(Items)
    BY DEF Counter!Cardinality, Cardinality
  <2> QED
    BY <1>5, <2>1, <2>2 DEF CountReturn, Counter!Report, Items, reportedNow
<1>6. CASE ListFree
  BY <1>6, ListFreeOK DEF ListFree, Counter!Discard, reportedNow
<1>7. CASE UNCHANGED listVars
  BY <1>7 DEF listVars, Items, reportedNow
<1> QED
  BY <1>1, <1>2, <1>3, <1>4, <1>5, <1>6, <1>7 DEF Next

\* The list counts exactly the different keys it accepted: growth, failed
\* growth and sorting lose and invent nothing (core_topology.c:41-136).
THEOREM ListCountsDistinct == Spec => CountsDistinct
<1>1. Init => Counter!Init
  BY DEF Init, Counter!Init, Items
<1>2. IInv /\ [Next]_listVars => [Counter!Next]_(Counter!dcVars)
  BY StepRefines DEF Counter!dcVars, reportedNow
<1> QED
  BY <1>1, <1>2, Invariance, PTL DEF Spec, CountsDistinct, Counter!Spec

=============================================================================
