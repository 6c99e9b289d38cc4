---------------------------- MODULE PyCpuProofs -----------------------------
(***************************************************************************)
(* For any machine, however its CPUs come and go and whatever fails: what  *)
(* the frequencies, their average and the Python methods on top of them    *)
(* promise.                                                                *)
(***************************************************************************)
EXTENDS PyCpu, FiniteSetTheorems, TLAPS

-----------------------------------------------------------------------------
\* The frequencies

ByPolicy == {"nextPolicy", "readFields", "fill"}
ByCpuinfo == {"cpuinfo", "nextBlock"}

\* What is held at each point of a call, and what is known there.
FreqPhases ==
  /\ maxCount \in Nat
  /\ pc \in {"idle", "glob", "cpuinfo"} => held = {}
  /\ pc = "nextPolicy" => held = {"glob"}
  /\ pc \in {"readFields", "fill"} =>
       held = {"glob", "affected_cpus"} /\ policy \in Policies
  /\ pc = "nextBlock" => held = {"cpuinfo"}
  /\ pc = "glob" => route = "none"
  /\ pc \in ByPolicy => route = "policies"
  /\ pc \in ByCpuinfo => route = "cpuinfo"
  /\ pc \in {"glob", "cpuinfo"} => readCount = 0
  /\ pc # "idle" => status \in {"NONE", "MORE_DATA"}
  /\ pc \in {"glob", "cpuinfo", "nextBlock"} => status = "NONE"
  /\ status = "MORE_DATA" => route # "none"
  /\ route = "cpuinfo" /\ "cpuinfo" \notin kernel => readCount = 0
  /\ route = "cpuinfo" /\ "policies" \in kernel => faults

\* Every frequency in the array is one that a policy shows, or zero.
Shown(entry) ==
  entry \in Entry /\ \A f \in Fields :
    entry[f] = 0 \/ \E p \in Policies : entry[f] = Freq[p][f]

\* What has been read of a policy belongs to it and to CPUs that were online.
Cleared ==
  route = "policies" \/ pc = "nextBlock" =>
    \A j \in DOMAIN array : /\ array[j] \in Entry
                            /\ j >= readCount => array[j] = Zero

AllShown == \A j \in DOMAIN array : array[j] = Untouched \/ Shown(array[j])

ReadOfPolicy ==
  pc \in {"readFields", "fill"} =>
    \A f \in Fields : scaling[f] = 0 \/ scaling[f] = Freq[policy][f]

FillOfPolicy ==
  pc = "fill" =>
    affected \subseteq ever /\ \A c \in affected : PolicyOf[c] = policy

Truth == /\ SlotsTellTheTruth /\ Cleared
         /\ AllShown /\ ReadOfPolicy /\ FillOfPolicy

\* Where a CPU is that stayed online: its policy is still to be visited, it
\* is still to be parsed, it has been put in its place, or has none.
Ahead(c) ==
  \/ pc \in ByPolicy /\ PolicyOf[c] \in todo
  \/ pc = "readFields" /\ PolicyOf[c] = policy
  \/ pc = "fill" /\ c \in affected

Placed(c) ==
  \/ c < readCount /\ array[c]["cur"] = Freq[PolicyOf[c]]["cur"]
  \/ c >= maxCount /\ status = "MORE_DATA"

Between == stayed \subseteq online /\ online \subseteq ever

Reached ==
  ~faults /\ route = "policies" => \A c \in stayed : Ahead(c) \/ Placed(c)

CurrentRead ==
  ~faults /\ (pc = "fill" \/ (pc = "readFields" /\ "cur" \notin fieldsTodo)) =>
    \A c \in stayed :
      PolicyOf[c] = policy => scaling["cur"] = Freq[policy]["cur"]

NoFalseAlarm ==
  route = "policies" /\ status = "MORE_DATA" => \E c \in ever : c >= maxCount

\* Between the CPUs up to the reader's place that stayed online and those
\* that were ever online is the number of the blocks read.
UpTo(S, last) == {c \in S : c <= last}

CountBetween ==
  pc = "nextBlock" /\ "cpuinfo" \in kernel =>
    /\ Cardinality(UpTo(stayed, cursor)) <= readCount
    /\ readCount <= Cardinality(UpTo(ever, cursor))

Missing == /\ Between /\ Reached /\ CurrentRead /\ NoFalseAlarm /\ CountBetween
           /\ NoCpuIsMissing

\* Sums of what is in the slots, and of what CPUs really run at.
Sum(g, S) == MapThenSumSet(LAMBDA x : g[x], S)
SlotSum == Sum([j \in 0 .. readCount - 1 |-> array[j]["cur"]],
               0 .. readCount - 1)
CpuSum(S) == Sum([c \in S |-> Freq[PolicyOf[c]]["cur"]], S)

Undiminished ==
  route = "cpuinfo" /\ "cpuinfo" \in kernel /\ stayed = ever /\ ~faults =>
    /\ pc = "nextBlock" => SlotSum = CpuSum(UpTo(ever, cursor))
    /\ pc = "idle" /\ status = "NONE" => SlotSum = CpuSum(ever)

FreqInv == TypeOK /\ FreqPhases /\ Truth /\ Missing /\ Undiminished

-----------------------------------------------------------------------------
\* Their average, and the methods

Reading == sysPc = "read" \/ (pyPc = "read" /\ method = "cpu_freqs")

\* What a call for the frequencies was made with, and what calm means for it.
Calls ==
  /\ ~Reading => pc = "idle"
  /\ Reading => maxCount = ncpus /\ (pc # "glob" => route # "none")
  /\ Reading /\ calm => stayed = online /\ ever = online /\ ~faults
  /\ calm /\ (\/ sysPc \in {"allocate", "read"}
              \/ method \in Lists /\ pyPc \in {"array", "read"}) =>
       ncpus = Cardinality(online)
  /\ sysPc # "idle" => average = Nothing /\ sysStatus = "NONE"
  /\ sysStatus = "NONE" => method = "cpu_freq_system"

Wrappers == Reads \cup {"cpu_times_delta", "cpu_freqs_average"}

PyPhases ==
  /\ pyPc = "parse" => method \in Takers
  /\ pyPc = "number" => method \in Counts \cup Figures
  /\ pyPc \in {"count", "list", "fill"} => method \in Lists
  /\ pyPc = "array" => method \in Lists \cup {"cpu_freqs_average"}
  /\ pyPc = "copy" => method = "cpu_freqs_average"
  /\ pyPc = "wrapper" => method \in Wrappers
  /\ pyPc = "read" => method \in Wrappers \cup Lists
  /\ pyPc = "system" => method = "cpu_freq_system"
  /\ native => pyPc \in {"copy", "wrapper", "read", "list", "fill"}
  /\ native => method \in Lists \cup {"cpu_freqs_average"}
  /\ pyPc # "returned" => exception = "none"
  /\ pyPc \in {"list", "fill"} =>
       /\ items <= ncpus
       /\ calm /\ (method = "cpu_freqs" => kernel # {}) =>
            items = Cardinality(online)

\* A list with its first n items, and the references to them.
ListOf(n) == [k \in 1 .. n |-> k]
WithItems(n) == [o \in {Object} \cup {Item(i) : i \in 1 .. n} |-> 1]

Objects ==
  /\ \/ pyPc \in {"idle", "parse", "number", "count", "array", "copy",
                  "wrapper", "list"}
     \/ pyPc = "read" /\ method \in Lists
     => refs = None /\ slots = None
  /\ pyPc = "system" \/ (pyPc = "read" /\ method \in Wrappers) =>
       refs = WithItems(0) /\ slots = None
  /\ pyPc = "fill" =>
       \E n \in 0 .. items : refs = WithItems(n) /\ slots = ListOf(n)

PyInv == /\ PyTypeOK /\ FreqInv /\ AverageIsSound /\ Calls /\ PyPhases
         /\ Objects /\ MethodsReturnCleanly /\ ListsEveryCpu
-----------------------------------------------------------------------------
\* Numbers

\* A set of numbers that is not empty has a least one.
LEMMA LeastNumber ==
  ASSUME NEW S \in SUBSET Nat, S # {}
  PROVE  \E m \in S : \A n \in S : m <= n
<1> DEFINE R == {ss \in Nat \X Nat : ss[1] < ss[2]}
<1>1. IsWellFoundedOn(R, Nat)
  BY NatLessThanWellFounded DEF OpToRel
<1>2. \A n, k \in Nat : n < k => <<n, k>> \in R
  OBVIOUS
<1> HIDE DEF R
<1>3. PICK m \in S : \A n \in S : ~(<<n, m>> \in R)
  BY <1>1, WFMin
<1>4. ASSUME NEW n \in S PROVE m <= n
  <2>1. n \in Nat /\ m \in Nat
    OBVIOUS
  <2>2. ~(n < m)
    BY <1>2, <1>3, <2>1
  <2> QED BY <2>1, <2>2
<1> QED BY <1>4

\* Induction: a set of numbers with 0 and all successors has all.
LEMMA AllNumbers ==
  ASSUME NEW P \in SUBSET Nat, 0 \in P, \A n \in P : n + 1 \in P
  PROVE  P = Nat
<1>1. SUFFICES ASSUME Nat \ P # {} PROVE FALSE
  OBVIOUS
<1>2. PICK m \in Nat \ P : \A n \in Nat \ P : m <= n
  BY <1>1, LeastNumber
<1>3. m # 0 /\ m - 1 \in Nat /\ ~(m <= m - 1) /\ (m - 1) + 1 = m
  OBVIOUS
<1>4. m - 1 \in P
  BY <1>2, <1>3
<1> QED BY <1>3, <1>4

\* The least CPU of a set.
LEMMA MinOfIsLeast ==
  ASSUME NEW S \in SUBSET Cpus, S # {}
  PROVE  MinOf(S) \in S /\ \A d \in S : MinOf(S) <= d
BY LeastNumber, CpusAreNumbered DEF MinOf

\* The larger of two numbers.
LEMMA MaxOfTwo ==
  ASSUME NEW m \in Nat, NEW n \in Nat
  PROVE  Max({m, n}) \in {m, n} /\ m <= Max({m, n}) /\ n <= Max({m, n})
<1>1. \E x \in {m, n} : \A y \in {m, n} : x >= y
  <2>1. CASE m <= n
    BY <2>1
  <2>2. CASE n <= m
    BY <2>2
  <2> QED BY <2>1, <2>2
<1>2. Max({m, n}) \in {m, n} /\ \A y \in {m, n} : Max({m, n}) >= y
  BY <1>1 DEF Max
<1> QED BY <1>2

\* A function on a finite set has a largest value.
LEMMA Largest ==
  ASSUME NEW S, IsFiniteSet(S), S # {}, NEW g \in [S -> Nat]
  PROVE  \E x \in S : \A y \in S : g[y] <= g[x]
<1> DEFINE P == {n \in Nat : \A T \in SUBSET S :
                   T # {} /\ Cardinality(T) = n =>
                     \E x \in T : \A y \in T : g[y] <= g[x]}
<1>1. 0 \in P
  BY FS_Subset, FS_EmptySet
<1>2. ASSUME NEW n \in P PROVE n + 1 \in P
  <2>1. ASSUME NEW T \in SUBSET S, T # {}, Cardinality(T) = n + 1
        PROVE  \E x \in T : \A y \in T : g[y] <= g[x]
    <3>1. PICK z \in T : TRUE
      BY <2>1
    <3>2. IsFiniteSet(T) /\ T \ {z} \in SUBSET S
      BY FS_Subset
    <3>3. Cardinality(T \ {z}) = n
      <4>1. Cardinality(T \ {z}) = Cardinality(T) - 1 /\ n \in Nat
        BY <3>1, <3>2, FS_RemoveElement
      <4> HIDE DEF P
      <4> QED BY <2>1, <4>1
    <3>4. CASE T \ {z} = {}
      BY <3>4
    <3>5. CASE T \ {z} # {}
      <4>1. PICK x \in T \ {z} : \A y \in T \ {z} : g[y] <= g[x]
        BY <3>2, <3>3, <3>5
      <4>2. CASE g[z] <= g[x]
        BY <4>1, <4>2
      <4>3. CASE ~(g[z] <= g[x])
        <5>1. \A y \in T : g[y] <= g[z]
          BY <4>1, <4>3
        <5> QED BY <5>1
      <4> QED BY <4>2, <4>3
    <3> QED BY <3>4, <3>5
  <2> QED BY <2>1
<1>3. P = Nat
  <2> HIDE DEF P
  <2> QED BY <1>1, <1>2, AllNumbers DEF P
<1>4. Cardinality(S) \in P
  BY <1>3, FS_CardinalityType
<1> QED BY <1>4

-----------------------------------------------------------------------------
\* Sums

\* The function behind the sum of g over S.
IsSum(it, g, S) ==
  it = [s \in SUBSET S |->
          IF s = {} THEN 0
          ELSE LET x == CHOOSE x \in s : TRUE IN g[x] + it[s \ {x}]]

\* What such a function is, set by set.
LEMMA SumValue ==
  ASSUME NEW S, NEW g, NEW it, IsSum(it, g, S), NEW T \in SUBSET S
  PROVE  /\ T = {} => it[T] = 0
         /\ T # {} => /\ (CHOOSE x \in T : TRUE) \in T
                      /\ it[T] = g[CHOOSE x \in T : TRUE]
                                   + it[T \ {CHOOSE x \in T : TRUE}]
<1>1. it[T] = IF T = {} THEN 0
              ELSE LET x == CHOOSE x \in T : TRUE IN g[x] + it[T \ {x}]
  BY Zenon DEF IsSum
<1>2. T # {} => (CHOOSE x \in T : TRUE) \in T
  OBVIOUS
<1> QED BY <1>1, <1>2

\* It exists for every finite set.
LEMMA SumExists ==
  ASSUME NEW S, IsFiniteSet(S), NEW g
  PROVE  \E it : IsSum(it, g, S)
<1> DEFINE Small(n) == {s \in SUBSET S : Cardinality(s) <= n}
           First(s) == CHOOSE x \in s : TRUE
           IsSumTo(it, n) ==
             it = [s \in Small(n) |-> IF s = {} THEN 0
                                      ELSE g[First(s)] + it[s \ {First(s)}]]
           P == {n \in Nat : \E it : IsSumTo(it, n)}
<1>1. \A s \in SUBSET S : /\ IsFiniteSet(s) /\ Cardinality(s) \in Nat
                          /\ Cardinality(s) = 0 <=> s = {}
                          /\ Cardinality(s) <= Cardinality(S)
  BY FS_Subset, FS_CardinalityType, FS_EmptySet
<1>2. \A s \in SUBSET S : s # {} =>
        /\ First(s) \in s /\ s \ {First(s)} \in SUBSET S
        /\ Cardinality(s \ {First(s)}) = Cardinality(s) - 1
  BY <1>1, FS_RemoveElement
<1>3. 0 \in P
  <2> DEFINE it == [s \in Small(0) |-> 0]
  <2>1. \A s \in Small(0) : s = {}
    BY <1>1
  <2>2. IsSumTo(it, 0)
    BY <2>1, Zenon
  <2> QED BY <2>2
<1>4. ASSUME NEW n \in P PROVE n + 1 \in P
  <2>1. PICK it : IsSumTo(it, n)
    OBVIOUS
  <2> DEFINE next == [s \in Small(n + 1) |->
                        IF s = {} THEN 0
                        ELSE g[First(s)] + it[s \ {First(s)}]]
  <2>2. \A s \in Small(n) : next[s] = it[s]
    <3>1. \A s \in Small(n) : s \in Small(n + 1)
      BY <1>1
    <3>2. \A s \in Small(n) : it[s] = IF s = {} THEN 0
                                ELSE g[First(s)] + it[s \ {First(s)}]
      <4> HIDE DEF Small, First
      <4> QED BY <2>1
    <3> HIDE DEF Small, First
    <3> QED BY <3>1, <3>2
  <2>3. \A s \in Small(n + 1) : s # {} => s \ {First(s)} \in Small(n)
    <3> HIDE DEF First
    <3> QED BY <1>1, <1>2
  <2>4. IsSumTo(next, n + 1)
    <3>1. \A s \in Small(n + 1) :
            (IF s = {} THEN 0 ELSE g[First(s)] + it[s \ {First(s)}])
            = (IF s = {} THEN 0 ELSE g[First(s)] + next[s \ {First(s)}])
      <4> HIDE DEF Small, First, next
      <4> QED BY <2>2, <2>3
    <3>2. next = [s \in Small(n + 1) |->
                    IF s = {} THEN 0
                    ELSE g[First(s)] + next[s \ {First(s)}]]
      <4>1. next = [s \in Small(n + 1) |->
                      IF s = {} THEN 0
                      ELSE g[First(s)] + it[s \ {First(s)}]]
        OBVIOUS
      <4> HIDE DEF Small, First, next
      <4> QED BY <3>1, <4>1
    <3> HIDE DEF Small, First, next
    <3> QED BY <3>2
  <2> HIDE DEF IsSumTo, next
  <2> QED BY <2>4
<1>5. P = Nat
  <2> HIDE DEF P
  <2> QED BY <1>3, <1>4, AllNumbers DEF P
<1>6. PICK it : IsSumTo(it, Cardinality(S))
  <2>1. Cardinality(S) \in P
    BY <1>5, FS_CardinalityType
  <2> QED BY <2>1
<1>7. Small(Cardinality(S)) = SUBSET S
  BY <1>1
<1> QED BY <1>6, <1>7, Zenon DEF IsSum

\* The library's sum is such a function's value.
LEMMA SumIsValue ==
  ASSUME NEW S, IsFiniteSet(S), NEW g
  PROVE  \E it : IsSum(it, g, S) /\ Sum(g, S) = it[S]
<1> DEFINE it == CHOOSE iter : IsSum(iter, g, S)
<1>1. IsSum(it, g, S)
  BY SumExists
<1>2. Sum(g, S) = it[S]
  BY DEF Sum, IsSum, MapThenSumSet, MapThenFoldSet
<1> QED BY <1>1, <1>2

\* Two such functions agree where what they add agrees.
LEMMA SumsAgree ==
  ASSUME NEW S, NEW g, NEW it, IsSum(it, g, S),
         NEW S2, NEW g2, NEW it2, IsSum(it2, g2, S2),
         NEW U, U \subseteq S, U \subseteq S2, IsFiniteSet(U),
         \A x \in U : g[x] = g2[x]
  PROVE  it[U] = it2[U]
<1> DEFINE P == {n \in Nat : \A T \in SUBSET U :
                               Cardinality(T) = n => it[T] = it2[T]}
<1>1. \A T \in SUBSET U :
        /\ IsFiniteSet(T) /\ T \in SUBSET S /\ T \in SUBSET S2
        /\ Cardinality(T) = 0 <=> T = {}
  BY FS_Subset, FS_EmptySet
<1>2. 0 \in P
  <2>1. ASSUME NEW T \in SUBSET U, Cardinality(T) = 0 PROVE it[T] = it2[T]
    <3>1. T = {} /\ T \in SUBSET S /\ T \in SUBSET S2
      BY <1>1, <2>1
    <3>2. it[T] = 0
      BY <3>1, SumValue
    <3>3. it2[T] = 0
      BY <3>1, SumValue
    <3> QED BY <3>2, <3>3
  <2> QED BY <2>1
<1>3. ASSUME NEW n \in P PROVE n + 1 \in P
  <2>1. ASSUME NEW T \in SUBSET U, Cardinality(T) = n + 1
        PROVE  it[T] = it2[T]
    <3>1. T # {}
      BY <1>1, <2>1
    <3>2. PICK x \in T : /\ it[T] = g[x] + it[T \ {x}]
                         /\ it2[T] = g2[x] + it2[T \ {x}]
      <4>1. /\ (CHOOSE x \in T : TRUE) \in T
            /\ it[T] = g[CHOOSE x \in T : TRUE]
                         + it[T \ {CHOOSE x \in T : TRUE}]
        BY <1>1, <3>1, SumValue
      <4>2. it2[T] = g2[CHOOSE x \in T : TRUE]
                       + it2[T \ {CHOOSE x \in T : TRUE}]
        BY <1>1, <3>1, SumValue
      <4> QED BY <4>1, <4>2, Zenon
    <3>4. Cardinality(T \ {x}) = n /\ T \ {x} \in SUBSET U
      <4>1. Cardinality(T \ {x}) = Cardinality(T) - 1 /\ n \in Nat
        BY <1>1, FS_RemoveElement
      <4> HIDE DEF P
      <4> QED BY <2>1, <4>1
    <3>5. it[T \ {x}] = it2[T \ {x}] /\ g[x] = g2[x]
      BY <2>1, <3>2, <3>4
    <3> QED BY <3>2, <3>5
  <2> QED BY <2>1
<1>4. P = Nat
  <2> HIDE DEF P
  <2> QED BY <1>2, <1>3, AllNumbers DEF P
<1>5. Cardinality(U) \in P
  BY <1>4, FS_CardinalityType
<1> QED BY <1>5


\* What is added up from numbers is a number.
LEMMA SumIsNumber ==
  ASSUME NEW S, IsFiniteSet(S), NEW g, \A s \in S : g[s] \in Nat,
         NEW it, IsSum(it, g, S), NEW U \in SUBSET S
  PROVE  it[U] \in Nat
<1> DEFINE P == {n \in Nat : \A T \in SUBSET S :
                               Cardinality(T) = n => it[T] \in Nat}
<1>1. \A T \in SUBSET S : /\ IsFiniteSet(T) /\ Cardinality(T) \in Nat
                          /\ Cardinality(T) = 0 <=> T = {}
  BY FS_Subset, FS_EmptySet, FS_CardinalityType
<1>2. 0 \in P
  <2>1. ASSUME NEW T \in SUBSET S, Cardinality(T) = 0 PROVE it[T] \in Nat
    <3>1. T = {}
      BY <1>1, <2>1
    <3>2. it[T] = 0
      BY <3>1, SumValue
    <3> QED BY <3>1, <3>2
  <2> QED BY <2>1
<1>3. ASSUME NEW n \in P PROVE n + 1 \in P
  <2>1. ASSUME NEW T \in SUBSET S, Cardinality(T) = n + 1
        PROVE  it[T] \in Nat
    <3>1. PICK c \in T : it[T] = g[c] + it[T \ {c}]
      <4>1. T # {}
        BY <1>1, <2>1
      <4>2. /\ (CHOOSE x \in T : TRUE) \in T
            /\ it[T] = g[CHOOSE x \in T : TRUE]
                         + it[T \ {CHOOSE x \in T : TRUE}]
        BY <4>1, SumValue
      <4> QED BY <4>2, Zenon
    <3>2. T \ {c} \in SUBSET S /\ Cardinality(T \ {c}) = n
      <4>1. Cardinality(T \ {c}) = Cardinality(T) - 1 /\ n \in Nat
        BY <1>1, FS_RemoveElement
      <4> HIDE DEF P
      <4> QED BY <2>1, <4>1
    <3>3. it[T \ {c}] \in Nat /\ g[c] \in Nat
      BY <3>2
    <3> HIDE DEF P
    <3> QED BY <3>1, <3>3
  <2> QED BY <2>1
<1>4. P = Nat
  <2> HIDE DEF P
  <2> QED BY <1>2, <1>3, AllNumbers DEF P
<1>5. Cardinality(U) \in P
  BY <1>1, <1>4
<1> QED BY <1>5

\* Where numbers are added, any element can be taken out of the sum.
LEMMA TakenOut ==
  ASSUME NEW S, IsFiniteSet(S), NEW g, \A s \in S : g[s] \in Nat,
         NEW it, IsSum(it, g, S), NEW U \in SUBSET S
  PROVE  \A x \in U : it[U] = g[x] + it[U \ {x}]
<1> DEFINE OutOf(T) == \A x \in T : it[T] = g[x] + it[T \ {x}]
           P == {n \in Nat : \A T \in SUBSET S :
                               Cardinality(T) = n => OutOf(T)}
<1>1. \A T \in SUBSET S : /\ IsFiniteSet(T) /\ Cardinality(T) \in Nat
                          /\ Cardinality(T) = 0 <=> T = {}
  BY FS_Subset, FS_EmptySet, FS_CardinalityType
<1>2. 0 \in P
  BY <1>1
<1>3. ASSUME NEW n \in P PROVE n + 1 \in P
  <2>1. ASSUME NEW T \in SUBSET S, Cardinality(T) = n + 1 PROVE OutOf(T)
    <3>1. ASSUME NEW x \in T PROVE OutOf(T \ {x})
      <4>1. T \ {x} \in SUBSET S /\ Cardinality(T \ {x}) = n
        <5>1. Cardinality(T \ {x}) = Cardinality(T) - 1 /\ n \in Nat
          BY <1>1, FS_RemoveElement
        <5> HIDE DEF P
        <5> QED BY <2>1, <5>1
      <4> HIDE DEF OutOf
      <4> QED BY <4>1
    <3>2. PICK c \in T : it[T] = g[c] + it[T \ {c}]
      <4>1. T # {}
        BY <1>1, <2>1
      <4>2. /\ (CHOOSE x \in T : TRUE) \in T
            /\ it[T] = g[CHOOSE x \in T : TRUE]
                         + it[T \ {CHOOSE x \in T : TRUE}]
        BY <4>1, SumValue
      <4> QED BY <4>2, Zenon
    <3>3. ASSUME NEW x \in T, x # c PROVE it[T] = g[x] + it[T \ {x}]
      <4>1. (T \ {c}) \ {x} = (T \ {x}) \ {c}
        OBVIOUS
      <4>2. it[T \ {c}] = g[x] + it[(T \ {x}) \ {c}]
        BY <3>1, <3>3, <4>1
      <4>3. it[T \ {x}] = g[c] + it[(T \ {x}) \ {c}]
        BY <3>1, <3>3
      <4>4. g[x] \in Nat /\ g[c] \in Nat /\ it[(T \ {x}) \ {c}] \in Nat
        BY SumIsNumber
      <4> HIDE DEF P, OutOf
      <4> QED BY <3>2, <4>2, <4>3, <4>4
    <3> QED BY <3>2, <3>3
  <2> QED BY <2>1
<1>4. P = Nat
  <2> HIDE DEF P
  <2> QED BY <1>2, <1>3, AllNumbers DEF P
<1>5. OutOf(U)
  <2> HIDE DEF OutOf
  <2> QED BY <1>1, <1>4
<1> QED BY <1>5

\* An empty sum.
LEMMA SumOfNone == ASSUME NEW g PROVE Sum(g, {}) = 0
<1>1. PICK it : IsSum(it, g, {}) /\ Sum(g, {}) = it[{}]
  BY SumIsValue, FS_EmptySet
<1> QED BY <1>1, SumValue

\* Sums of the same numbers are the same.
LEMMA SameSum ==
  ASSUME NEW S, IsFiniteSet(S), NEW g, NEW h, \A x \in S : g[x] = h[x]
  PROVE  Sum(g, S) = Sum(h, S)
<1>1. PICK it : IsSum(it, g, S) /\ Sum(g, S) = it[S]
  BY SumIsValue
<1>2. PICK it2 : IsSum(it2, h, S) /\ Sum(h, S) = it2[S]
  BY SumIsValue
<1> QED BY <1>1, <1>2, SumsAgree

\* A sum with one element more.
LEMMA SumWithout ==
  ASSUME NEW S, IsFiniteSet(S), NEW g, \A s \in S : g[s] \in Nat, NEW x \in S
  PROVE  Sum(g, S) = g[x] + Sum(g, S \ {x})
<1>1. PICK it : IsSum(it, g, S) /\ Sum(g, S) = it[S]
  BY SumIsValue
<1>2. PICK it2 : IsSum(it2, g, S \ {x}) /\ Sum(g, S \ {x}) = it2[S \ {x}]
  BY SumIsValue, FS_Subset
<1>3. it[S \ {x}] = it2[S \ {x}]
  BY <1>1, <1>2, SumsAgree, FS_Subset
<1>4. it[S] = g[x] + it[S \ {x}]
  BY <1>1, TakenOut
<1> QED BY <1>1, <1>2, <1>3, <1>4

\* One more number below n adds its value to the sum.
LEMMA SumPlusOne ==
  ASSUME NEW S, IsFiniteSet(S), NEW x, x \notin S, NEW g,
         \A s \in S \cup {x} : g[s] \in Nat
  PROVE  Sum(g, S \cup {x}) = g[x] + Sum(g, S)
<1>1. IsFiniteSet(S \cup {x}) /\ (S \cup {x}) \ {x} = S
  BY FS_AddElement
<1> QED BY <1>1, SumWithout

\* The type of a sum, and its bound.
LEMMA SumIsBounded ==
  ASSUME NEW S, IsFiniteSet(S), NEW g, NEW b \in Nat,
         \A s \in S : g[s] \in Nat /\ g[s] <= b
  PROVE  Sum(g, S) \in Nat /\ Sum(g, S) <= Cardinality(S) * b
<1> DEFINE P == {n \in Nat : \A T \in SUBSET S :
                   Cardinality(T) = n =>
                     Sum(g, T) \in Nat /\ Sum(g, T) <= n * b}
<1>1. \A T \in SUBSET S : /\ IsFiniteSet(T) /\ Cardinality(T) \in Nat
                          /\ Cardinality(T) = 0 <=> T = {}
  BY FS_Subset, FS_EmptySet, FS_CardinalityType
<1>2. 0 \in P
  BY <1>1, SumOfNone
<1>3. ASSUME NEW n \in P PROVE n + 1 \in P
  <2>1. ASSUME NEW T \in SUBSET S, Cardinality(T) = n + 1
        PROVE  Sum(g, T) \in Nat /\ Sum(g, T) <= (n + 1) * b
    <3>1. PICK x \in T : TRUE
      BY <1>1, <2>1
    <3>2. T \ {x} \in SUBSET S /\ Cardinality(T \ {x}) = n
      <4>1. Cardinality(T \ {x}) = Cardinality(T) - 1 /\ n \in Nat
        BY <1>1, FS_RemoveElement
      <4> HIDE DEF P
      <4> QED BY <2>1, <4>1
    <3>3. Sum(g, T) = g[x] + Sum(g, T \ {x})
      BY <1>1, SumWithout
    <3>4. Sum(g, T \ {x}) \in Nat /\ Sum(g, T \ {x}) <= n * b
      BY <3>2
    <3>5. g[x] \in Nat /\ g[x] <= b /\ n \in Nat
      OBVIOUS
    <3>6. (n + 1) * b = n * b + b /\ n * b \in Nat
      BY <3>5
    <3> HIDE DEF P
    <3> QED BY <3>3, <3>4, <3>5, <3>6
  <2> QED BY <2>1
<1>4. P = Nat
  <2> HIDE DEF P
  <2> QED BY <1>2, <1>3, AllNumbers DEF P
<1>5. Cardinality(S) \in P
  BY <1>1, <1>4
<1> QED BY <1>5

\* The same for the sums the code's average is made of.
LEMMA AverageIsSum ==
  ASSUME NEW block, NEW n \in Nat, NEW f \in Fields
  PROVE  Average(block, n).sum[f]
         = Sum([j \in 0 .. n - 1 |-> block[j][f]], 0 .. n - 1)
<1> DEFINE S == 0 .. n - 1
           g == [j \in S |-> block[j][f]]
           Like(it) == it = [s \in SUBSET S |->
                               IF s = {} THEN 0
                               ELSE LET x == CHOOSE x \in s : TRUE
                                    IN  block[x][f] + it[s \ {x}]]
           iter == CHOOSE it : Like(it)
<1>1. ASSUME NEW it PROVE Like(it) <=> IsSum(it, g, S)
  <2>1. \A s \in SUBSET S : s # {} =>
          g[CHOOSE x \in s : TRUE] = block[CHOOSE x \in s : TRUE][f]
    OBVIOUS
  <2>2. [s \in SUBSET S |->
           IF s = {} THEN 0
           ELSE LET x == CHOOSE x \in s : TRUE IN block[x][f] + it[s \ {x}]]
        = [s \in SUBSET S |->
             IF s = {} THEN 0
             ELSE LET x == CHOOSE x \in s : TRUE IN g[x] + it[s \ {x}]]
    <3> HIDE DEF g, S
    <3> QED BY <2>1
  <2> QED BY <2>2, Zenon DEF IsSum
<1>2. IsFiniteSet(S)
  BY FS_Interval
<1>3. Like(iter)
  <2> HIDE DEF Like, g, S
  <2>1. \E it : Like(it)
    BY <1>1, <1>2, SumExists
  <2> QED BY <2>1
<1>4. Average(block, n).sum[f] = iter[S]
  BY DEF Average, MapThenSumSet, MapThenFoldSet
<1>5. PICK it : IsSum(it, g, S) /\ Sum(g, S) = it[S]
  BY <1>2, SumIsValue
<1> HIDE DEF Like, g, S, iter
<1>6. IsSum(iter, g, S)
  BY <1>1, <1>3
<1>7. iter[S] = it[S]
  BY <1>2, <1>5, <1>6, SumsAgree
<1> QED BY <1>4, <1>5, <1>7 DEF g, S

\* And of those the average is compared with.
LEMMA CpusAreSum ==
  ASSUME NEW S, IsFiniteSet(S), NEW f \in Fields
  PROVE  MapThenSumSet(LAMBDA c : Freq[PolicyOf[c]][f], S)
         = Sum([c \in S |-> Freq[PolicyOf[c]][f]], S)
<1> DEFINE g == [c \in S |-> Freq[PolicyOf[c]][f]]
           Like(it) == it = [s \in SUBSET S |->
                               IF s = {} THEN 0
                               ELSE LET x == CHOOSE x \in s : TRUE
                                    IN  Freq[PolicyOf[x]][f] + it[s \ {x}]]
           iter == CHOOSE it : Like(it)
<1>1. ASSUME NEW it PROVE Like(it) <=> IsSum(it, g, S)
  <2>1. \A s \in SUBSET S : s # {} =>
          g[CHOOSE x \in s : TRUE] =
            Freq[PolicyOf[CHOOSE x \in s : TRUE]][f]
    OBVIOUS
  <2>2. [s \in SUBSET S |->
           IF s = {} THEN 0
           ELSE LET x == CHOOSE x \in s : TRUE
                IN  Freq[PolicyOf[x]][f] + it[s \ {x}]]
        = [s \in SUBSET S |->
             IF s = {} THEN 0
             ELSE LET x == CHOOSE x \in s : TRUE IN g[x] + it[s \ {x}]]
    <3> HIDE DEF g
    <3> QED BY <2>1
  <2> QED BY <2>2, Zenon DEF IsSum
<1>3. Like(iter)
  <2> HIDE DEF Like, g
  <2>1. \E it : Like(it)
    BY <1>1, SumExists
  <2> QED BY <2>1
<1>4. MapThenSumSet(LAMBDA c : Freq[PolicyOf[c]][f], S) = iter[S]
  BY DEF MapThenSumSet, MapThenFoldSet
<1>5. PICK it : IsSum(it, g, S) /\ Sum(g, S) = it[S]
  BY SumIsValue
<1> HIDE DEF Like, g, iter
<1>6. IsSum(iter, g, S)
  BY <1>1, <1>3
<1>7. iter[S] = it[S]
  BY <1>5, <1>6, SumsAgree
<1> QED BY <1>4, <1>5, <1>7 DEF g

-----------------------------------------------------------------------------
\* Slots and entries

\* Zero is an entry, what the caller's memory held is none.
LEMMA Entries ==
  /\ Zero \in Entry /\ Untouched \notin Entry
  /\ \A f \in Fields : Zero[f] = 0
  /\ \A p \in Policies, f \in Fields : Freq[p][f] \in Nat /\ Freq[p][f] # 0
  /\ \A c \in Cpus : PolicyOf[c] \in Policies /\ c \in Nat
<1>1. Zero \in Entry /\ \A f \in Fields : Zero[f] = 0
  BY DEF Zero, Entry
<1>2. Untouched \notin Entry
  BY FrequenciesArePositive DEF Untouched, Entry
<1>3. \A p \in Policies, f \in Fields : Freq[p][f] \in Nat /\ Freq[p][f] # 0
  BY FrequenciesArePositive
<1>4. \A c \in Cpus : PolicyOf[c] \in Policies /\ c \in Nat
  BY PoliciesCoverCpus, CpusAreNumbered
<1> QED BY <1>1, <1>2, <1>3, <1>4

\* A slot within the array is all that a store changes.
LEMMA StoredInside ==
  ASSUME NEW n \in Nat, NEW block, DOMAIN block = 0 .. n - 1,
         NEW j \in 0 .. n - 1, NEW entry
  PROVE  /\ DOMAIN Stored(block, j, entry) = 0 .. n - 1
         /\ Stored(block, j, entry)[j] = entry
         /\ \A k \in 0 .. n - 1 :
              k # j => Stored(block, j, entry)[k] = block[k]
BY DEF Stored

\* A block of one kind of entry.
LEMMA FilledWith ==
  ASSUME NEW n \in Nat, NEW entry
  PROVE  /\ DOMAIN Filled(n, entry) = 0 .. n - 1
         /\ \A j \in 0 .. n - 1 : Filled(n, entry)[j] = entry
BY DEF Filled

\* More CPUs, not fewer, in a larger set.
LEMMA UpToGrows ==
  ASSUME NEW S \in SUBSET Cpus, NEW T \in SUBSET S, NEW last
  PROVE  /\ Cardinality(UpTo(T, last)) \in Nat
         /\ Cardinality(UpTo(T, last)) <= Cardinality(UpTo(S, last))
         /\ Cardinality(UpTo(T, last)) <= Cardinality(T)
         /\ Cardinality(T) \in Nat
<1>1. IsFiniteSet(UpTo(S, last)) /\ IsFiniteSet(T)
  BY FS_Subset, CpusAreNumbered DEF UpTo
<1>2. UpTo(T, last) \in SUBSET UpTo(S, last) /\ UpTo(T, last) \in SUBSET T
  BY DEF UpTo
<1> QED BY <1>1, <1>2, FS_Subset, FS_CardinalityType

\* What one more CPU adds, and one more slot.
LEMMA CpuSumGrows ==
  ASSUME NEW S \in SUBSET Cpus, NEW c \in Cpus \ S
  PROVE  CpuSum(S \cup {c}) = Freq[PolicyOf[c]]["cur"] + CpuSum(S)
<1> DEFINE g == [d \in S \cup {c} |-> Freq[PolicyOf[d]]["cur"]]
           h == [d \in S |-> Freq[PolicyOf[d]]["cur"]]
<1>1. IsFiniteSet(S) /\ \A d \in S \cup {c} : g[d] \in Nat
  BY Entries, FrequenciesArePositive, CpusAreNumbered, FS_Subset
<1>2. g[c] = Freq[PolicyOf[c]]["cur"] /\ \A d \in S : g[d] = h[d]
  OBVIOUS
<1> HIDE DEF g, h
<1>3. Sum(g, S \cup {c}) = g[c] + Sum(g, S)
  BY <1>1, SumPlusOne
<1>4. Sum(g, S) = Sum(h, S)
  BY <1>1, <1>2, SameSum
<1> QED BY <1>2, <1>3, <1>4 DEF CpuSum, g, h

\* A slot filled at n, right above those read so far, adds its value to the
\* sum of the slots.
LEMMA SlotSumGrows ==
  ASSUME NEW n \in Nat, NEW block, NEW next, next[n]["cur"] \in Nat,
         \A j \in 0 .. n - 1 :
           next[j]["cur"] = block[j]["cur"] /\ next[j]["cur"] \in Nat
  PROVE  Sum([j \in 0 .. (n + 1) - 1 |-> next[j]["cur"]], 0 .. (n + 1) - 1)
         = next[n]["cur"]
           + Sum([j \in 0 .. n - 1 |-> block[j]["cur"]], 0 .. n - 1)
<1> DEFINE S == 0 .. n - 1
           g == [j \in S \cup {n} |-> next[j]["cur"]]
           h == [j \in S |-> block[j]["cur"]]
<1>1. 0 .. (n + 1) - 1 = S \cup {n} /\ n \notin S /\ IsFiniteSet(S)
  <2>1. IsFiniteSet(S)
    BY FS_Interval
  <2> QED BY <2>1
<1>2. /\ g[n] = next[n]["cur"] /\ \A j \in S : g[j] = h[j]
      /\ \A j \in S \cup {n} : g[j] \in Nat
  OBVIOUS
<1> HIDE DEF S, g, h
<1>3. Sum(g, S \cup {n}) = g[n] + Sum(g, S)
  BY <1>1, <1>2, SumPlusOne
<1>4. Sum(g, S) = Sum(h, S)
  BY <1>1, <1>2, SameSum
<1> QED BY <1>1, <1>2, <1>3, <1>4 DEF S, g, h

-----------------------------------------------------------------------------
\* Objects

\* Every object there is has a reference, every item in a list is there.
Proper(counts, list) ==
  /\ \A o \in DOMAIN counts : counts[o] > 0
  /\ \A k \in DOMAIN list : Item(list[k]) \in DOMAIN counts

\* What a new object, an item and the last reference to a wrapper make of
\* the references.
LEMMA FirstObject ==
  /\ New(None, Object) = WithItems(0)
  /\ Decref(WithItems(0), Object) = None
  /\ OnlyTheResult(WithItems(0), None, TRUE)
  /\ OnlyTheResult(None, None, FALSE)
  /\ ListOf(0) = None
  /\ DOMAIN None = {}
  /\ Proper(None, None) /\ Proper(WithItems(0), None)
<1> USE DEF Object, Item, None
<1>1. {Item(i) : i \in 1 .. 0} = {}
  OBVIOUS
<1>2. WithItems(0) = [o \in {Object} |-> 1]
  BY <1>1 DEF WithItems
<1>3. New(None, Object) = WithItems(0)
  BY <1>2 DEF New, With
<1>4. Decref(WithItems(0), Object) = None
  BY <1>2 DEF Decref, Restrict
<1>5. /\ OnlyTheResult(WithItems(0), None, TRUE)
      /\ OnlyTheResult(None, None, FALSE)
  BY <1>2 DEF OnlyTheResult
<1>6. ListOf(0) = None /\ DOMAIN None = {}
  BY DEF ListOf
<1>7. Proper(None, None) /\ Proper(WithItems(0), None)
  BY <1>2 DEF Proper
<1> QED BY <1>3, <1>4, <1>5, <1>6, <1>7

\* One item more.
LEMMA OneItemMore ==
  ASSUME NEW n \in Nat
  PROVE  /\ New(WithItems(n), Item(n + 1)) = WithItems(n + 1)
         /\ With(ListOf(n), n + 1, n + 1) = ListOf(n + 1)
         /\ Cardinality(DOMAIN ListOf(n)) = n
         /\ DOMAIN ListOf(n) = 1 .. n
         /\ OnlyTheResult(WithItems(n), ListOf(n), TRUE)
         /\ Proper(WithItems(n), ListOf(n))
<1>1. 1 .. (n + 1) = (1 .. n) \cup {n + 1}
  OBVIOUS
<1>2. {Item(i) : i \in 1 .. (n + 1)}
        = {Item(i) : i \in 1 .. n} \cup {Item(n + 1)}
  BY <1>1
<1>3. New(WithItems(n), Item(n + 1)) = WithItems(n + 1)
  <2> DEFINE D == {Object} \cup {Item(i) : i \in 1 .. n}
  <2>1. DOMAIN WithItems(n) = D /\ \A o \in D : WithItems(n)[o] = 1
    BY DEF WithItems
  <2>2. WithItems(n + 1) = [o \in D \cup {Item(n + 1)} |-> 1]
    BY <1>2 DEF WithItems
  <2> HIDE DEF D
  <2> QED BY <2>1, <2>2 DEF New, With
<1>4. With(ListOf(n), n + 1, n + 1) = ListOf(n + 1)
  BY <1>1 DEF With, ListOf
<1>5. DOMAIN ListOf(n) = 1 .. n
  BY DEF ListOf
<1>6. Cardinality(1 .. n) = n
  BY FS_Interval
<1>7. {Item(ListOf(n)[k]) : k \in DOMAIN ListOf(n)} = {Item(i) : i \in 1 .. n}
  BY DEF ListOf
<1>8. OnlyTheResult(WithItems(n), ListOf(n), TRUE)
  BY <1>7 DEF OnlyTheResult, WithItems
<1>9. Proper(WithItems(n), ListOf(n))
  BY DEF Proper, WithItems, ListOf
<1> QED BY <1>3, <1>4, <1>5, <1>6, <1>8, <1>9

\* Dropping a list drops its items, each once.
LEMMA ListDropped ==
  ASSUME NEW n \in Nat
  PROVE  DropObject(WithItems(n), ListOf(n)) = None
<1> DEFINE S == 1 .. n
           Left(T) == [o \in {Object} \cup {Item(i) : i \in S \ T} |-> 1]
           Like(it) == it = [s \in SUBSET S |->
                               IF s = {} THEN WithItems(n)
                               ELSE LET x == CHOOSE x \in s : TRUE
                                    IN  Decref(it[s \ {x}],
                                               Item(ListOf(n)[x]))]
           witness == [T \in SUBSET S |-> Left(T)]
           iter == CHOOSE it : Like(it)
<1>1. ASSUME NEW T \in SUBSET S, NEW x \in T
      PROVE  Decref(Left(T \ {x}), Item(ListOf(n)[x])) = Left(T)
  <2>1. ListOf(n)[x] = x
    BY DEF ListOf
  <2>2. /\ DOMAIN Left(T \ {x}) = DOMAIN Left(T) \cup {Item(x)}
        /\ Item(x) \notin DOMAIN Left(T)
        /\ \A o \in DOMAIN Left(T \ {x}) : Left(T \ {x})[o] = 1
        /\ \A o \in DOMAIN Left(T) : Left(T)[o] = 1
    BY DEF Object, Item
  <2>3. Left(T) = [o \in DOMAIN Left(T) |-> 1]
    OBVIOUS
  <2> HIDE DEF Left
  <2>4. (DOMAIN Left(T) \cup {Item(x)}) \ {Item(x)} = DOMAIN Left(T)
    BY <2>2
  <2>5. Decref(Left(T \ {x}), Item(x))
        = [o \in DOMAIN Left(T) |-> Left(T \ {x})[o]]
    <3>1. Item(x) \in DOMAIN Left(T \ {x}) /\ ~(Left(T \ {x})[Item(x)] > 1)
      BY <2>2
    <3>2. DOMAIN Left(T \ {x}) \ {Item(x)} = DOMAIN Left(T)
      BY <2>2, <2>4
    <3>3. Decref(Left(T \ {x}), Item(x))
          = Restrict(Left(T \ {x}), DOMAIN Left(T \ {x}) \ {Item(x)})
      BY <3>1 DEF Decref
    <3> QED BY <3>2, <3>3 DEF Restrict
  <2> QED BY <2>1, <2>2, <2>3, <2>5
<1>2. Left({}) = WithItems(n)
  BY DEF WithItems
<1>3. Like(witness)
  <2>1. ASSUME NEW s \in SUBSET S, s # {}
        PROVE  Left(s) = Decref(witness[s \ {CHOOSE x \in s : TRUE}],
                                Item(ListOf(n)[CHOOSE x \in s : TRUE]))
    <3>1. PICK x \in s : x = CHOOSE y \in s : TRUE
      BY <2>1
    <3>2. witness[s \ {x}] = Left(s \ {x})
      <4> HIDE DEF Left
      <4> QED OBVIOUS
    <3> HIDE DEF Left, witness
    <3> QED BY <1>1, <3>1, <3>2
  <2>2. witness = [s \in SUBSET S |->
                     IF s = {} THEN WithItems(n)
                     ELSE LET x == CHOOSE x \in s : TRUE
                          IN  Decref(witness[s \ {x}], Item(ListOf(n)[x]))]
    <3>1. witness = [s \in SUBSET S |-> Left(s)]
      OBVIOUS
    <3> HIDE DEF Left, witness, S
    <3> QED BY <1>2, <2>1, <3>1
  <2> HIDE DEF witness
  <2> QED BY <2>2
<1>4. Like(iter)
  <2> HIDE DEF Like, witness
  <2> QED BY <1>3
<1> DEFINE P == {m \in Nat : \A T \in SUBSET S :
                               Cardinality(T) = m => iter[T] = Left(T)}
<1>5. \A T \in SUBSET S : /\ IsFiniteSet(T) /\ Cardinality(T) \in Nat
                          /\ Cardinality(T) = 0 <=> T = {}
  <2>1. IsFiniteSet(S)
    BY FS_Interval
  <2> HIDE DEF S
  <2> QED BY <2>1, FS_Subset, FS_EmptySet, FS_CardinalityType
<1>6. \A T \in SUBSET S :
        iter[T] = IF T = {} THEN WithItems(n)
                  ELSE LET x == CHOOSE x \in T : TRUE
                       IN  Decref(iter[T \ {x}], Item(ListOf(n)[x]))
  <2> HIDE DEF iter, S
  <2> QED BY <1>4, Zenon
<1> HIDE DEF Like, iter, Left, S
<1>7. 0 \in P
  BY <1>2, <1>5, <1>6
<1>8. ASSUME NEW m \in P PROVE m + 1 \in P
  <2>1. ASSUME NEW T \in SUBSET S, Cardinality(T) = m + 1
        PROVE  iter[T] = Left(T)
    <3>1. T # {}
      BY <1>5, <2>1
    <3>2. PICK x \in T : iter[T] = Decref(iter[T \ {x}], Item(ListOf(n)[x]))
      BY <1>6, <3>1
    <3>3. T \ {x} \in SUBSET S /\ Cardinality(T \ {x}) = m
      <4>1. Cardinality(T \ {x}) = Cardinality(T) - 1 /\ m \in Nat
        BY <1>5, FS_RemoveElement
      <4> HIDE DEF P
      <4> QED BY <2>1, <4>1
    <3>4. iter[T \ {x}] = Left(T \ {x})
      BY <3>3
    <3> HIDE DEF P
    <3> QED BY <1>1, <3>2, <3>4
  <2> QED BY <2>1
<1>9. P = Nat
  <2> HIDE DEF P
  <2> QED BY <1>7, <1>8, AllNumbers DEF P
<1>10. iter[S] = Left(S)
  <2>1. Cardinality(S) \in P
    BY <1>5, <1>9
  <2> QED BY <2>1
<1>11. Left(S) = WithItems(0)
  BY DEF Left, WithItems
<1>12. DropObject(WithItems(n), ListOf(n)) = Decref(iter[S], Object)
  <2>1. DOMAIN ListOf(n) = S
    BY DEF ListOf, S
  <2> QED BY <2>1 DEF DropObject, FoldSet, MapThenFoldSet, iter, Like
<1> QED BY <1>10, <1>11, <1>12, FirstObject

-----------------------------------------------------------------------------
\* Each action of the call keeps what is known.

\* A CPU goes offline.
LEMMA GoOfflineKeeps ==
  ASSUME FreqInv, NEW c \in Cpus, GoOffline(c)
  PROVE  FreqInv'
<1> USE DEF FreqInv, Truth, Missing, machine, output, visit, history
<1> USE Entries
<1>0. /\ online' \in (SUBSET Cpus) \ {{}} /\ hotplugs' \in 0 .. MaxHotplug
      /\ stayed' \subseteq stayed
  <2>1. online' # {}
    BY DEF GoOffline, CpuLeaves
  <2>2. hotplugs' \in 0 .. MaxHotplug
    BY BoundIsNatural DEF TypeOK, GoOffline, CpuLeaves
  <2> QED BY <2>1, <2>2 DEF TypeOK, GoOffline, CpuLeaves
<1>a. /\ Cardinality(UpTo(stayed', cursor)) \in Nat
      /\ Cardinality(UpTo(stayed', cursor))
           <= Cardinality(UpTo(stayed, cursor))
      /\ Cardinality(UpTo(stayed, cursor)) \in Nat
      /\ Cardinality(stayed') \in Nat /\ Cardinality(stayed) \in Nat
      /\ Cardinality(stayed') <= Cardinality(stayed)
      /\ Cardinality(UpTo(ever, cursor)) \in Nat
  <2>1. /\ stayed \in SUBSET Cpus
        /\ stayed' \in SUBSET stayed /\ ever \in SUBSET Cpus
    BY <1>0 DEF TypeOK
  <2>2. Cardinality(stayed') <= Cardinality(stayed)
    BY <2>1, FS_Subset, CpusAreNumbered
  <2> QED BY <2>1, <2>2, UpToGrows
<1>1. TypeOK' /\ FreqPhases'
  BY <1>0, <1>a DEF TypeOK, FreqPhases, ByPolicy, ByCpuinfo, GoOffline,
     CpuLeaves
<1>2. Truth'
  BY DEF TypeOK, FreqPhases, SlotsTellTheTruth, Cleared, AllShown, Shown,
     ReadOfPolicy, FillOfPolicy, ByPolicy, ByCpuinfo, GoOffline, CpuLeaves
<1>3. Missing'
  BY <1>0, <1>a DEF TypeOK, FreqPhases, Between, Reached, Ahead, Placed,
     ByPolicy, CurrentRead, NoFalseAlarm, CountBetween, NoCpuIsMissing,
     ByCpuinfo, GoOffline, CpuLeaves
<1>4. Undiminished'
  BY DEF TypeOK, FreqPhases, Undiminished, SlotSum, ByPolicy, ByCpuinfo,
     GoOffline, CpuLeaves
<1> QED BY <1>1, <1>2, <1>3, <1>4

\* A CPU comes online.
LEMMA GoOnlineKeeps ==
  ASSUME FreqInv, NEW c \in Cpus, GoOnline(c)
  PROVE  FreqInv'
<1> USE DEF FreqInv, Truth, Missing, machine, output, visit, history
<1> USE Entries
<1>0. /\ online' \in (SUBSET Cpus) \ {{}} /\ hotplugs' \in 0 .. MaxHotplug
      /\ ever \subseteq ever' /\ ever' \subseteq Cpus
  <2>1. online' # {} /\ online' \subseteq Cpus /\ ever' \subseteq Cpus
    BY DEF TypeOK, GoOnline, CpuComes
  <2>2. hotplugs' \in 0 .. MaxHotplug
    BY BoundIsNatural DEF TypeOK, GoOnline, CpuComes
  <2> QED BY <2>1, <2>2 DEF GoOnline, CpuComes
<1>a. /\ Cardinality(UpTo(ever', cursor)) \in Nat
      /\ Cardinality(UpTo(ever, cursor)) <= Cardinality(UpTo(ever', cursor))
      /\ Cardinality(UpTo(ever, cursor)) \in Nat
      /\ Cardinality(UpTo(stayed, cursor)) \in Nat
      /\ Cardinality(ever) <= Cardinality(ever')
      /\ Cardinality(ever) \in Nat /\ Cardinality(ever') \in Nat
  <2>1. /\ stayed \in SUBSET Cpus
        /\ ever \in SUBSET ever' /\ ever' \in SUBSET Cpus
    BY <1>0 DEF TypeOK
  <2>2. Cardinality(ever) <= Cardinality(ever')
    BY <2>1, FS_Subset, CpusAreNumbered
  <2> QED BY <2>1, <2>2, UpToGrows
<1>1. TypeOK' /\ FreqPhases'
  BY <1>0, <1>a DEF TypeOK, FreqPhases, ByPolicy, ByCpuinfo, GoOnline, CpuComes
<1>2. Truth'
  BY DEF TypeOK, FreqPhases, SlotsTellTheTruth, Cleared, AllShown, Shown,
     ReadOfPolicy, FillOfPolicy, ByPolicy, ByCpuinfo, GoOnline, CpuComes
<1>3. Missing'
  BY <1>0, <1>a DEF TypeOK, FreqPhases, Between, Reached, Ahead, Placed,
     ByPolicy, CurrentRead, NoFalseAlarm, CountBetween, NoCpuIsMissing,
     ByCpuinfo, GoOnline, CpuComes
<1>4. Undiminished'
  BY DEF TypeOK, FreqPhases, Undiminished, SlotSum, ByPolicy, ByCpuinfo,
     GoOnline, CpuComes
<1> QED BY <1>1, <1>2, <1>3, <1>4

\* The call begins.
LEMMA CallWithKeeps ==
  ASSUME FreqInv, NEW n \in Nat, CallWith(n)
  PROVE  FreqInv'
<1> USE DEF FreqInv, Truth, Missing, machine, output, visit, history
<1> USE Entries
<1>0. /\ DOMAIN array' = 0 .. n - 1
      /\ \A j \in DOMAIN array' : array'[j] = Untouched
  BY FilledWith DEF CallWith
<1>1. FreqPhases'
  BY DEF TypeOK, FreqPhases, ByPolicy, ByCpuinfo, CallWith
<1>2. TypeOK'
  <2>1. /\ DOMAIN array' = 0 .. maxCount' - 1
        /\ \A j \in DOMAIN array' : array'[j] \in Entry \cup {Untouched}
    BY <1>0 DEF CallWith, TypeOK
  <2>2. /\ readCount' \in 0 .. maxCount'
        /\ stayed' \subseteq ever' /\ ever' \subseteq Cpus
    BY DEF CallWith, TypeOK, FreqPhases
  <2>3. /\ online' \in (SUBSET Cpus) \ {{}} /\ hotplugs' \in 0 .. MaxHotplug
        /\ kernel' \in SUBSET {"policies", "cpuinfo"}
        /\ pc' \in {"glob", "nextPolicy", "cpuinfo"}
        /\ status' \in {"NONE", status}
        /\ route' \in {"none", "policies", "cpuinfo"}
        /\ todo' \subseteq Policies /\ policy' = policy /\ scaling' = scaling
        /\ fieldsTodo' = fieldsTodo /\ affected' = affected /\ cursor' = cursor
        /\ held' \subseteq {"glob"} \cup held
    BY DEF CallWith, TypeOK
  <2>4. faults' \in BOOLEAN
    BY DEF CallWith, TypeOK
  <2> HIDE DEF FreqInv
  <2> QED BY <2>1, <2>2, <2>3, <2>4 DEF TypeOK, FreqInv
<1>3. Truth'
  BY <1>0 DEF TypeOK, FreqPhases, SlotsTellTheTruth, Cleared, AllShown,
     Shown, ReadOfPolicy, FillOfPolicy, ByPolicy, ByCpuinfo, CallWith
<1>4. Missing'
  BY DEF TypeOK, FreqPhases, Between, Reached, Ahead, Placed, ByPolicy,
     CurrentRead, NoFalseAlarm, CountBetween, NoCpuIsMissing, ByCpuinfo,
     CallWith
<1>5. Undiminished'
  BY DEF TypeOK, FreqPhases, Undiminished, SlotSum, ByPolicy, ByCpuinfo,
     CallWith
<1> QED BY <1>1, <1>2, <1>3, <1>4, <1>5

\* The glob decides the route.
LEMMA GlobKeeps ==
  ASSUME FreqInv, Glob
  PROVE  FreqInv'
<1> USE DEF FreqInv, Truth, Missing, machine, output, visit, history
<1> USE Entries
<1>0. /\ DOMAIN array' = 0 .. maxCount - 1
      /\ \/ array' = array
         \/ \A j \in DOMAIN array' : array'[j] = Zero
      /\ route' = "policies" => \A j \in DOMAIN array' : array'[j] = Zero
  <2>1. DOMAIN array = 0 .. maxCount - 1 /\ maxCount \in Nat
    BY DEF TypeOK, FreqPhases
  <2> QED BY <2>1, FilledWith DEF Glob
<1>1. FreqPhases'
  BY DEF TypeOK, FreqPhases, ByPolicy, ByCpuinfo, Glob
<1>2. TypeOK'
  <2>1. /\ DOMAIN array' = 0 .. maxCount' - 1
        /\ \A j \in DOMAIN array' : array'[j] \in Entry \cup {Untouched}
    BY <1>0 DEF Glob, TypeOK
  <2>2. /\ readCount' \in 0 .. maxCount'
        /\ stayed' \subseteq ever' /\ ever' \subseteq Cpus
    BY DEF Glob, TypeOK, FreqPhases
  <2>3. /\ online' \in (SUBSET Cpus) \ {{}} /\ hotplugs' \in 0 .. MaxHotplug
        /\ kernel' \in SUBSET {"policies", "cpuinfo"}
        /\ pc' \in {"glob", "nextPolicy", "cpuinfo"}
        /\ status' \in {"NONE", status}
        /\ route' \in {"none", "policies", "cpuinfo"}
        /\ todo' \subseteq Policies /\ policy' = policy /\ scaling' = scaling
        /\ fieldsTodo' = fieldsTodo /\ affected' = affected /\ cursor' = cursor
        /\ held' \subseteq {"glob"} \cup held
    BY DEF Glob, TypeOK
  <2>4. faults' \in BOOLEAN
    <3>1. faults' = faults \/ faults' = ("policies" \in kernel)
      BY Zenon DEF Glob, history
    <3>2. faults \in BOOLEAN
      BY DEF TypeOK
    <3>3. ("policies" \in kernel) \in BOOLEAN
      <4>1. ("policies" \in kernel) = TRUE \/ ("policies" \in kernel) = FALSE
        OBVIOUS
      <4> QED BY <4>1, Zenon
    <3> QED BY <3>1, <3>2, <3>3, Zenon
  <2> HIDE DEF FreqInv
  <2> QED BY <2>1, <2>2, <2>3, <2>4 DEF TypeOK, FreqInv
<1>3. Truth'
  BY <1>0 DEF TypeOK, FreqPhases, SlotsTellTheTruth, Cleared, AllShown,
     Shown, ReadOfPolicy, FillOfPolicy, ByPolicy, ByCpuinfo, Glob
<1>4. Missing'
  BY DEF TypeOK, FreqPhases, Between, Reached, Ahead, Placed, ByPolicy,
     CurrentRead, NoFalseAlarm, CountBetween, NoCpuIsMissing, ByCpuinfo,
     Glob
<1>5. Undiminished'
  BY DEF TypeOK, FreqPhases, Undiminished, SlotSum, ByPolicy, ByCpuinfo,
     Glob
<1> QED BY <1>1, <1>2, <1>3, <1>4, <1>5

\* The next policy is opened.
LEMMA OpenAffectedKeeps ==
  ASSUME FreqInv, NEW p \in Policies, OpenAffected(p)
  PROVE  FreqInv'
<1> USE DEF FreqInv, Truth, Missing, machine, output, visit, history
<1> USE Entries
<1>1. TypeOK' /\ FreqPhases'
  BY DEF TypeOK, FreqPhases, ByPolicy, ByCpuinfo, OpenAffected
<1>2. Truth'
  BY DEF TypeOK, FreqPhases, SlotsTellTheTruth, Cleared, AllShown, Shown,
     ReadOfPolicy, FillOfPolicy, ByPolicy, ByCpuinfo, OpenAffected
<1>3. Missing'
  BY FrequenciesArePositive DEF TypeOK, FreqPhases, Between, Reached, Ahead,
     Placed, ByPolicy, CurrentRead, NoFalseAlarm, CountBetween,
     NoCpuIsMissing, ByCpuinfo, OpenAffected
<1>4. Undiminished'
  BY DEF TypeOK, FreqPhases, Undiminished, SlotSum, ByPolicy, ByCpuinfo,
     OpenAffected
<1> QED BY <1>1, <1>2, <1>3, <1>4

\* Its file cannot be opened.
LEMMA OpenAffectedFailsKeeps ==
  ASSUME FreqInv, OpenAffectedFails
  PROVE  FreqInv'
<1> USE DEF FreqInv, Truth, Missing, machine, output, visit, history
<1> USE Entries
<1>1. TypeOK' /\ FreqPhases'
  BY DEF TypeOK, FreqPhases, ByPolicy, ByCpuinfo, OpenAffectedFails
<1>2. Truth'
  BY DEF TypeOK, FreqPhases, SlotsTellTheTruth, Cleared, AllShown, Shown,
     ReadOfPolicy, FillOfPolicy, ByPolicy, ByCpuinfo, OpenAffectedFails
<1>3. Missing'
  BY DEF TypeOK, FreqPhases, Between, Reached, Ahead, Placed, ByPolicy,
     CurrentRead, NoFalseAlarm, CountBetween, NoCpuIsMissing, ByCpuinfo,
     OpenAffectedFails
<1>4. Undiminished'
  BY DEF TypeOK, FreqPhases, Undiminished, SlotSum, ByPolicy, ByCpuinfo,
     OpenAffectedFails
<1> QED BY <1>1, <1>2, <1>3, <1>4

\* One of its frequencies is read.
LEMMA ReadFieldKeeps ==
  ASSUME FreqInv, NEW f \in Fields, ReadField(f)
  PROVE  FreqInv'
<1> USE DEF FreqInv, Truth, Missing, machine, output, visit, history
<1> USE Entries
<1>0. /\ scaling' \in Entry
      /\ \A e \in Fields :
           \/ scaling'[e] = scaling[e]
           \/ e = f /\ scaling'[e] = Freq[policy][e]
      /\ policy \in Policies
  <2>1. policy \in Policies /\ scaling \in Entry /\ f \in Fields
    BY DEF ReadField, TypeOK, FreqPhases
  <2>2. \/ scaling' = scaling
        \/ scaling' = [scaling EXCEPT ![f] = Freq[policy][f]]
    BY DEF ReadField
  <2>3. CASE scaling' = scaling
    BY <2>1, <2>3
  <2>4. CASE scaling' = [scaling EXCEPT ![f] = Freq[policy][f]]
    BY <2>1, <2>4 DEF Entry
  <2> QED BY <2>2, <2>3, <2>4
<1>1. TypeOK' /\ FreqPhases'
  BY <1>0 DEF TypeOK, FreqPhases, ByPolicy, ByCpuinfo, ReadField, OnlineOf
<1>2. Truth'
  BY <1>0 DEF TypeOK, FreqPhases, SlotsTellTheTruth, Cleared, AllShown,
     Shown, ReadOfPolicy, FillOfPolicy, ByPolicy, ByCpuinfo, ReadField,
     OnlineOf
<1>3. /\ Between' /\ Reached' /\ NoFalseAlarm' /\ CountBetween'
      /\ NoCpuIsMissing'
  BY DEF TypeOK, FreqPhases, Between, Reached, Ahead, Placed, ByPolicy,
     NoFalseAlarm, CountBetween, NoCpuIsMissing, ByCpuinfo, ReadField,
     OnlineOf
<1>4. CurrentRead'
  <2>1. SUFFICES ASSUME ~faults', "cur" \notin fieldsTodo',
                        NEW c \in stayed, PolicyOf[c] = policy
                 PROVE  scaling'["cur"] = Freq[policy]["cur"]
    BY DEF CurrentRead, ReadField
  <2>2. c \in OnlineOf(policy) /\ ~faults /\ pc = "readFields"
    BY <2>1 DEF Between, OnlineOf, ReadField
  <2>3. scaling' = [scaling EXCEPT ![f] = Freq[policy][f]]
    BY <2>1, <2>2 DEF ReadField
  <2>4. CASE "cur" = f
    BY <2>3, <2>4 DEF TypeOK, Entry
  <2>5. CASE "cur" # f
    <3>1. "cur" \notin fieldsTodo
      BY <2>1, <2>5 DEF ReadField
    <3>2. scaling["cur"] = Freq[policy]["cur"]
      BY <2>1, <2>2, <3>1 DEF CurrentRead
    <3> QED BY <2>3, <2>5, <3>2 DEF TypeOK, Entry
  <2> QED BY <2>4, <2>5
<1>5. Undiminished'
  BY DEF TypeOK, FreqPhases, Undiminished, SlotSum, ByPolicy, ByCpuinfo,
     ReadField, OnlineOf
<1> QED BY <1>1, <1>2, <1>3, <1>4, <1>5

\* The list of its CPUs is read.
LEMMA ReadAffectedKeeps ==
  ASSUME FreqInv, ReadAffected
  PROVE  FreqInv'
<1> USE DEF FreqInv, Truth, Missing, machine, output, visit, history
<1> USE Entries
<1>1. TypeOK' /\ FreqPhases'
  BY DEF TypeOK, FreqPhases, ByPolicy, ByCpuinfo, ReadAffected, OnlineOf
<1>2. SlotsTellTheTruth' /\ Cleared' /\ AllShown' /\ ReadOfPolicy'
  BY DEF TypeOK, FreqPhases, SlotsTellTheTruth, Cleared, AllShown, Shown,
     ReadOfPolicy, ByPolicy, ByCpuinfo, ReadAffected, OnlineOf
<1>3. FillOfPolicy'
  BY DEF ReadAffected, FillOfPolicy, OnlineOf, Between
<1>4. /\ Between' /\ CurrentRead' /\ NoFalseAlarm' /\ CountBetween'
      /\ NoCpuIsMissing'
  BY DEF TypeOK, FreqPhases, Between, CurrentRead, NoFalseAlarm,
     CountBetween, NoCpuIsMissing, Reached, Ahead, Placed, ByPolicy,
     ByCpuinfo, ReadAffected, OnlineOf
<1>5. Reached'
  <2>1. SUFFICES ASSUME ~faults', NEW c \in stayed
                 PROVE  Ahead(c)' \/ Placed(c)'
    BY DEF Reached, ReadAffected
  <2>2. affected' = OnlineOf(policy) /\ c \in online /\ ~faults
    BY <2>1 DEF ReadAffected, Between
  <2>3. route = "policies" /\ pc = "readFields"
    BY DEF ReadAffected, FreqPhases, ByPolicy
  <2>4. Ahead(c) \/ Placed(c)
    BY <2>2, <2>3 DEF Reached
  <2> QED BY <2>2, <2>3, <2>4
          DEF Ahead, Placed, ReadAffected, OnlineOf, ByPolicy
<1>6. Undiminished'
  BY DEF TypeOK, FreqPhases, Undiminished, SlotSum, ByPolicy, ByCpuinfo,
     ReadAffected, OnlineOf
<1> QED BY <1>1, <1>2, <1>3, <1>4, <1>5, <1>6

\* One of them gets its slot.
LEMMA FillSlotKeeps ==
  ASSUME FreqInv, FillSlot
  PROVE  FreqInv'
<1> USE DEF FreqInv, Truth, Missing, machine, output, visit, history
<1> USE Entries
<1>0. PICK c \in affected :
        /\ c \in Cpus /\ c \in 0 .. maxCount - 1
        /\ array' = Stored(array, c, scaling)
        /\ readCount' = Counted(c) /\ affected' = affected \ {c}
        /\ pc = "fill" /\ route = "policies"
  <2>1. affected \in SUBSET Cpus /\ affected # {}
    BY DEF FillSlot, TypeOK
  <2>2. MinOf(affected) \in affected
    BY <2>1, MinOfIsLeast
  <2> QED BY <2>1, <2>2 DEF FillSlot, InRange, FreqPhases, ByPolicy
<1>a. /\ DOMAIN array' = 0 .. maxCount - 1 /\ array'[c] = scaling
      /\ \A k \in 0 .. maxCount - 1 : k # c => array'[k] = array[k]
  BY <1>0, StoredInside DEF TypeOK, FreqPhases
<1>b. /\ readCount' \in 0 .. maxCount
      /\ c < readCount' /\ readCount <= readCount'
      /\ scaling \in Entry
  BY <1>0 DEF Counted, TypeOK, FreqPhases
<1>1. TypeOK' /\ FreqPhases'
  BY <1>0, <1>a, <1>b DEF TypeOK, FreqPhases, ByPolicy, ByCpuinfo, FillSlot,
     InRange, Counted
<1>2. Cleared'
  BY <1>0, <1>a, <1>b DEF TypeOK, FreqPhases, Cleared, ByPolicy, ByCpuinfo,
     FillSlot, InRange, Counted
<1>3. ReadOfPolicy' /\ FillOfPolicy'
  BY DEF TypeOK, FreqPhases, ReadOfPolicy, FillOfPolicy, ByPolicy,
     ByCpuinfo, FillSlot, InRange, Counted
<1>4. SlotsTellTheTruth'
  <2>1. pc' = "fill" /\ route' = "policies" /\ ever' = ever
    BY <1>0 DEF FillSlot
  <2>2. c \in ever /\ PolicyOf[c] = policy
        /\ \A f \in Fields : scaling[f] = 0 \/ scaling[f] = Freq[policy][f]
    BY <1>0 DEF FillOfPolicy, ReadOfPolicy
  <2>3. ASSUME NEW j \in DOMAIN array', NEW f \in Fields, array'[j][f] # 0
        PROVE  j \in ever /\ array'[j][f] = Freq[PolicyOf[j]][f]
    <3>1. CASE j = c
      BY <1>a, <2>2, <2>3, <3>1
    <3>2. CASE j # c
      BY <1>0, <1>a, <2>3, <3>2 DEF SlotsTellTheTruth, TypeOK
    <3> QED BY <3>1, <3>2
  <2> QED BY <2>1, <2>3 DEF SlotsTellTheTruth
<1>5. AllShown'
  <2>1. Shown(scaling)
    BY <1>0, <1>b DEF Shown, ReadOfPolicy, FreqPhases
  <2> QED BY <1>0, <1>a, <2>1 DEF AllShown, Shown, TypeOK
<1>6. /\ Between' /\ CurrentRead' /\ NoFalseAlarm' /\ CountBetween'
      /\ NoCpuIsMissing'
  BY DEF TypeOK, FreqPhases, Between, CurrentRead, NoFalseAlarm,
     CountBetween, NoCpuIsMissing, Reached, Ahead, Placed, ByPolicy,
     ByCpuinfo, FillSlot, InRange, Counted
<1>7. Reached'
  <2>1. SUFFICES ASSUME ~faults, NEW d \in stayed
                 PROVE  Ahead(d)' \/ Placed(d)'
    BY DEF Reached, FillSlot
  <2>2. Ahead(d) \/ Placed(d)
    BY <1>0, <2>1 DEF Reached
  <2>3. CASE d = c
    <3>1. PolicyOf[d] = policy /\ scaling["cur"] = Freq[policy]["cur"]
      BY <1>0, <2>1, <2>3 DEF FillOfPolicy, CurrentRead
    <3> QED BY <1>a, <1>b, <2>3, <3>1 DEF Placed
  <2>4. CASE d # c /\ Ahead(d)
    BY <1>0, <2>4 DEF Ahead, FillSlot, ByPolicy
  <2>5. CASE d # c /\ Placed(d)
    <3>1. /\ d \in Nat /\ maxCount \in Nat
          /\ maxCount' = maxCount /\ status' = status
      BY DEF TypeOK, FreqPhases, FillSlot
    <3> QED BY <1>a, <1>b, <2>5, <3>1 DEF Placed, TypeOK
  <2> QED BY <2>2, <2>3, <2>4, <2>5
<1>8. Undiminished'
  BY DEF TypeOK, FreqPhases, Undiminished, SlotSum, ByPolicy, ByCpuinfo,
     FillSlot, InRange, Counted
<1> QED BY <1>1, <1>2, <1>3, <1>4, <1>5, <1>6, <1>7, <1>8

\* The list ends, or the array.
LEMMA FillEndsKeeps ==
  ASSUME FreqInv, FillEnds
  PROVE  FreqInv'
<1> USE DEF FreqInv, Truth, Missing, machine, output, visit, history
<1> USE Entries
<1>0. \A c \in affected :
        /\ c >= maxCount /\ status' = "MORE_DATA" /\ c \in ever
        /\ maxCount' = maxCount
  <2>1. affected \in SUBSET Cpus /\ affected \subseteq ever /\ maxCount \in Nat
    BY DEF FillEnds, TypeOK, FillOfPolicy, FreqPhases
  <2>2. affected # {} =>
          /\ MinOf(affected) \in affected
          /\ \A c \in affected : MinOf(affected) <= c
    BY <2>1, MinOfIsLeast
  <2>3. affected # {} => ~(MinOf(affected) < maxCount)
    BY DEF FillEnds, InRange
  <2>4. \A c \in affected : c >= maxCount
    BY <2>1, <2>2, <2>3
  <2> QED BY <2>1, <2>4 DEF FillEnds
<1>1. TypeOK' /\ FreqPhases'
  BY DEF TypeOK, FreqPhases, ByPolicy, ByCpuinfo, FillEnds, InRange
<1>2. Truth'
  BY DEF TypeOK, FreqPhases, SlotsTellTheTruth, Cleared, AllShown, Shown,
     ReadOfPolicy, FillOfPolicy, ByPolicy, ByCpuinfo, FillEnds, InRange
<1>3. Between' /\ CurrentRead' /\ CountBetween' /\ NoCpuIsMissing'
  BY DEF TypeOK, FreqPhases, Between, CurrentRead, CountBetween,
     NoCpuIsMissing, Reached, Ahead, Placed, NoFalseAlarm, ByPolicy,
     ByCpuinfo, FillEnds, InRange
<1>4. Reached'
  <2>1. SUFFICES ASSUME ~faults, NEW d \in stayed, route = "policies"
                 PROVE  Ahead(d)' \/ Placed(d)'
    BY DEF Reached, FillEnds
  <2>2. Ahead(d) \/ Placed(d)
    BY <2>1 DEF Reached
  <2>3. CASE d \in affected
    BY <1>0, <2>3 DEF Placed
  <2>4. CASE d \notin affected /\ Ahead(d)
    BY <2>4 DEF Ahead, FillEnds, ByPolicy
  <2>5. CASE Placed(d)
    BY <2>5 DEF Placed, FillEnds
  <2> QED BY <2>2, <2>3, <2>4, <2>5
<1>5. NoFalseAlarm'
  BY <1>0 DEF NoFalseAlarm, FillEnds
<1>6. Undiminished'
  BY DEF TypeOK, FreqPhases, Undiminished, SlotSum, ByPolicy, ByCpuinfo,
     FillEnds, InRange
<1> QED BY <1>1, <1>2, <1>3, <1>4, <1>5, <1>6

\* All policies have been visited.
LEMMA PoliciesDoneKeeps ==
  ASSUME FreqInv, PoliciesDone
  PROVE  FreqInv'
<1> USE DEF FreqInv, Truth, Missing, machine, output, visit, history
<1> USE Entries
<1>1. TypeOK' /\ FreqPhases'
  BY DEF TypeOK, FreqPhases, ByPolicy, ByCpuinfo, PoliciesDone
<1>2. Truth'
  BY DEF TypeOK, FreqPhases, SlotsTellTheTruth, Cleared, AllShown, Shown,
     ReadOfPolicy, FillOfPolicy, ByPolicy, ByCpuinfo, PoliciesDone
<1>3. Missing'
  BY DEF TypeOK, FreqPhases, Between, Reached, Ahead, Placed, ByPolicy,
     CurrentRead, NoFalseAlarm, CountBetween, NoCpuIsMissing, ByCpuinfo,
     PoliciesDone
<1>4. Undiminished'
  BY DEF TypeOK, FreqPhases, Undiminished, SlotSum, ByPolicy, ByCpuinfo,
     PoliciesDone
<1> QED BY <1>1, <1>2, <1>3, <1>4

\* /proc/cpuinfo is opened.
LEMMA OpenCpuinfoKeeps ==
  ASSUME FreqInv, OpenCpuinfo
  PROVE  FreqInv'
<1> USE DEF FreqInv, Truth, Missing, machine, output, visit, history
<1> USE Entries
<1>0. /\ DOMAIN array' = 0 .. maxCount - 1
      /\ \A j \in DOMAIN array' : array'[j] = Zero
  BY FilledWith DEF OpenCpuinfo, FreqPhases
<1>a. \A S \in SUBSET Cpus : UpTo(S, -1) = {} /\ Cardinality(UpTo(S, -1)) = 0
  <2>1. ASSUME NEW S \in SUBSET Cpus PROVE UpTo(S, -1) = {}
    BY DEF UpTo
  <2> QED BY <2>1, FS_EmptySet
<1>1. TypeOK' /\ FreqPhases'
  BY <1>0, <1>a DEF TypeOK, FreqPhases, ByPolicy, ByCpuinfo, OpenCpuinfo
<1>2. Truth'
  BY <1>0, <1>a DEF TypeOK, FreqPhases, SlotsTellTheTruth, Cleared,
     AllShown, Shown, ReadOfPolicy, FillOfPolicy, ByPolicy, ByCpuinfo,
     OpenCpuinfo
<1>3. Missing'
  BY <1>0, <1>a DEF TypeOK, FreqPhases, Between, Reached, Ahead, Placed,
     ByPolicy, CurrentRead, NoFalseAlarm, CountBetween, NoCpuIsMissing,
     ByCpuinfo, OpenCpuinfo
<1>4. Undiminished'
  <2>1. /\ route' = "cpuinfo" /\ pc' = "nextBlock" /\ readCount' = 0
        /\ cursor' = -1 /\ ever' = ever /\ ever \in SUBSET Cpus
    BY DEF OpenCpuinfo, FreqPhases, ByCpuinfo, TypeOK
  <2>2. 0 .. readCount' - 1 = {} /\ UpTo(ever', cursor') = {}
    BY <1>a, <2>1
  <2>3. SlotSum' = 0 /\ CpuSum(UpTo(ever', cursor')) = 0
    BY <2>2, SumOfNone DEF SlotSum, CpuSum
  <2> QED BY <2>1, <2>3 DEF Undiminished
<1> QED BY <1>1, <1>2, <1>3, <1>4

\* It cannot be opened.
LEMMA OpenCpuinfoFailsKeeps ==
  ASSUME FreqInv, OpenCpuinfoFails
  PROVE  FreqInv'
<1> USE DEF FreqInv, Truth, Missing, machine, output, visit, history
<1> USE Entries
<1>1. TypeOK' /\ FreqPhases'
  BY DEF TypeOK, FreqPhases, ByPolicy, ByCpuinfo, OpenCpuinfoFails
<1>2. Truth'
  BY DEF TypeOK, FreqPhases, SlotsTellTheTruth, Cleared, AllShown, Shown,
     ReadOfPolicy, FillOfPolicy, ByPolicy, ByCpuinfo, OpenCpuinfoFails
<1>3. Missing'
  BY DEF TypeOK, FreqPhases, Between, Reached, Ahead, Placed, ByPolicy,
     CurrentRead, NoFalseAlarm, CountBetween, NoCpuIsMissing, ByCpuinfo,
     OpenCpuinfoFails
<1>4. Undiminished'
  BY DEF TypeOK, FreqPhases, Undiminished, SlotSum, ByPolicy, ByCpuinfo,
     OpenCpuinfoFails
<1> QED BY <1>1, <1>2, <1>3, <1>4

\* The block of the next CPU is read.
LEMMA NextBlockKeeps ==
  ASSUME FreqInv, NextBlock
  PROVE  FreqInv'
<1> USE DEF FreqInv, Truth, Missing, machine, output, visit, history
<1> USE Entries
<1>0. PICK c \in LaterCpus :
        /\ c \in Cpus /\ c \in online /\ c > cursor /\ cursor' = c
        /\ \A d \in LaterCpus : c <= d
        /\ pc = "nextBlock" /\ route = "cpuinfo"
  <2>1. LaterCpus \in SUBSET Cpus /\ LaterCpus # {}
    BY DEF LaterCpus, NextBlock, TypeOK
  <2>2. /\ MinOf(LaterCpus) \in LaterCpus
        /\ \A d \in LaterCpus : MinOf(LaterCpus) <= d
    BY <2>1, MinOfIsLeast
  <2> QED BY <2>1, <2>2 DEF NextBlock, FreqPhases, ByCpuinfo, LaterCpus
<1> DEFINE entry == [Zero EXCEPT !["cur"] = Freq[PolicyOf[c]]["cur"]]
           Stores == /\ "cpuinfo" \in kernel /\ readCount < maxCount
                     /\ array' = Stored(array, readCount, entry)
                     /\ readCount' = readCount + 1
                     /\ UNCHANGED <<pc, maxCount, status, held>>
           IsFull == /\ "cpuinfo" \in kernel /\ ~(readCount < maxCount)
                     /\ status' = "MORE_DATA" /\ held' = {} /\ pc' = "idle"
                     /\ UNCHANGED <<maxCount, array, readCount>>
           Passes == "cpuinfo" \notin kernel /\ UNCHANGED <<pc, output, held>>
<1>a. Stores \/ IsFull \/ Passes
  BY <1>0 DEF NextBlock, InRange
<1>b. /\ entry \in Entry
      /\ entry["cur"] = Freq[PolicyOf[c]]["cur"] /\ Shown(entry)
  BY <1>0, FrequenciesArePositive DEF Shown, Entry, Zero
<1>c. /\ UNCHANGED <<machine, route, todo, visit, history>>
      /\ readCount \in 0 .. maxCount /\ maxCount \in Nat
      /\ DOMAIN array = 0 .. maxCount - 1
  BY DEF NextBlock, TypeOK, FreqPhases
<1>d. Stores => /\ readCount \in 0 .. maxCount - 1
                /\ DOMAIN array' = 0 .. maxCount - 1
                /\ array'[readCount] = entry
                /\ \A k \in 0 .. maxCount - 1 :
                     k # readCount => array'[k] = array[k]
  BY <1>c, StoredInside
<1> HIDE DEF entry
<1>e. /\ UpTo(stayed, c) \subseteq UpTo(stayed, cursor) \cup {c}
      /\ UpTo(ever, cursor) \cup {c} \subseteq UpTo(ever, c)
      /\ c \notin UpTo(ever, cursor)
      /\ stayed = ever => UpTo(ever, c) = UpTo(ever, cursor) \cup {c}
  <2>1. \A d \in stayed : d \in Nat /\ (d > cursor => d \in LaterCpus)
    BY DEF TypeOK, Between, LaterCpus
  <2>2. /\ c \in Nat /\ cursor < c /\ cursor \in Int /\ c \in ever
        /\ ever \subseteq Nat
    BY <1>0 DEF TypeOK, Between
  <2>3. ASSUME NEW d \in UpTo(stayed, c)
        PROVE  d \in UpTo(stayed, cursor) \cup {c}
    BY <1>0, <2>1, <2>2 DEF UpTo
  <2>4. UpTo(ever, cursor) \cup {c} \subseteq UpTo(ever, c)
    <3>1. ASSUME NEW d \in ever, d <= cursor PROVE d <= c
      BY <2>2, <3>1
    <3>2. c \in UpTo(ever, c)
      BY <2>2 DEF UpTo
    <3>3. UpTo(ever, cursor) \subseteq UpTo(ever, c)
      BY <3>1 DEF UpTo
    <3> QED BY <3>2, <3>3
  <2>5. c \notin UpTo(ever, cursor)
    BY <2>2 DEF UpTo
  <2> QED BY <2>3, <2>4, <2>5
<1>f. /\ Cardinality(UpTo(stayed, c)) <= Cardinality(UpTo(stayed, cursor)) + 1
      /\ Cardinality(UpTo(ever, cursor)) + 1 <= Cardinality(UpTo(ever, c))
      /\ Cardinality(UpTo(ever, c)) <= Cardinality(ever)
      /\ Cardinality(UpTo(stayed, c)) \in Nat
      /\ Cardinality(UpTo(stayed, cursor)) \in Nat
      /\ Cardinality(UpTo(ever, c)) \in Nat
      /\ Cardinality(UpTo(ever, cursor)) \in Nat /\ Cardinality(ever) \in Nat
  <2>1. stayed \in SUBSET Cpus /\ ever \in SUBSET Cpus
    BY DEF TypeOK
  <2>2. /\ IsFiniteSet(UpTo(stayed, cursor)) /\ IsFiniteSet(UpTo(ever, cursor))
        /\ IsFiniteSet(UpTo(ever, c))
    BY <2>1, CpusAreNumbered, FS_Subset DEF UpTo
  <2>3. /\ IsFiniteSet(UpTo(stayed, cursor) \cup {c})
        /\ Cardinality(UpTo(stayed, cursor) \cup {c})
             <= Cardinality(UpTo(stayed, cursor)) + 1
        /\ Cardinality(UpTo(ever, cursor) \cup {c})
             = Cardinality(UpTo(ever, cursor)) + 1
        /\ Cardinality(UpTo(stayed, cursor) \cup {c}) \in Nat
    <3>1. /\ IsFiniteSet(UpTo(stayed, cursor) \cup {c})
          /\ Cardinality(UpTo(stayed, cursor) \cup {c})
               = IF c \in UpTo(stayed, cursor)
                 THEN Cardinality(UpTo(stayed, cursor))
                 ELSE Cardinality(UpTo(stayed, cursor)) + 1
      BY <2>2, FS_AddElement
    <3>2. Cardinality(UpTo(ever, cursor) \cup {c})
            = Cardinality(UpTo(ever, cursor)) + 1
      BY <1>e, <2>2, FS_AddElement
    <3>3. Cardinality(UpTo(stayed, cursor)) \in Nat
      BY <2>2, FS_CardinalityType
    <3> QED BY <3>1, <3>2, <3>3
  <2>4. /\ Cardinality(UpTo(stayed, c))
             <= Cardinality(UpTo(stayed, cursor) \cup {c})
        /\ Cardinality(UpTo(ever, cursor) \cup {c})
             <= Cardinality(UpTo(ever, c))
    BY <1>e, <2>2, <2>3, FS_Subset
  <2>5. /\ Cardinality(UpTo(ever, c)) <= Cardinality(ever)
        /\ Cardinality(UpTo(stayed, c)) \in Nat
        /\ Cardinality(UpTo(stayed, cursor)) \in Nat
        /\ Cardinality(UpTo(ever, c)) \in Nat
        /\ Cardinality(UpTo(ever, cursor)) \in Nat /\ Cardinality(ever) \in Nat
    BY <2>1, UpToGrows
  <2> QED BY <2>3, <2>4, <2>5
<1>1. FreqPhases'
  BY DEF TypeOK, FreqPhases, ByPolicy, ByCpuinfo, NextBlock, LaterCpus,
     InRange
<1>2. TypeOK'
  <2>1. /\ DOMAIN array' = 0 .. maxCount' - 1
        /\ \A j \in DOMAIN array' : array'[j] \in Entry \cup {Untouched}
        /\ readCount' \in 0 .. maxCount'
    BY <1>a, <1>b, <1>c, <1>d DEF TypeOK
  <2>2. /\ pc' \in {"idle", "nextBlock"} /\ held' \subseteq held
        /\ status' \in {"MORE_DATA", status}
    BY <1>0, <1>a
  <2> QED BY <1>0, <1>c, <2>1, <2>2 DEF TypeOK
<1>3. SlotsTellTheTruth' /\ ReadOfPolicy' /\ FillOfPolicy'
  BY DEF TypeOK, FreqPhases, SlotsTellTheTruth, Cleared, ReadOfPolicy,
     FillOfPolicy, ByPolicy, ByCpuinfo, NextBlock, LaterCpus, InRange
<1>4. Cleared'
  BY <1>0, <1>a, <1>b, <1>c, <1>d DEF TypeOK, FreqPhases, Cleared
<1>5. AllShown'
  BY <1>0, <1>a, <1>b, <1>c, <1>d DEF TypeOK, AllShown, Shown
<1>6. Between' /\ CurrentRead' /\ NoFalseAlarm'
  BY DEF TypeOK, FreqPhases, Between, CurrentRead, NoFalseAlarm, ByPolicy,
     ByCpuinfo, NextBlock, LaterCpus, InRange
<1>7. Reached'
  BY <1>0, <1>c DEF Reached
<1>8. CountBetween'
  <2>1. SUFFICES ASSUME pc' = "nextBlock", "cpuinfo" \in kernel
                 PROVE  /\ Cardinality(UpTo(stayed, c)) <= readCount'
                        /\ readCount' <= Cardinality(UpTo(ever, c))
    BY <1>0, <1>c DEF CountBetween
  <2>2. Stores
    BY <1>a, <2>1
  <2>3. readCount' = readCount + 1 /\ readCount \in Nat
    BY <1>c, <2>2
  <2>4. /\ Cardinality(UpTo(stayed, cursor)) <= readCount
        /\ readCount <= Cardinality(UpTo(ever, cursor))
    BY <1>0, <2>1 DEF CountBetween
  <2> QED BY <1>f, <2>3, <2>4
<1>9. NoCpuIsMissing'
  <2>1. CASE IsFull
    <3>1. /\ readCount = maxCount
          /\ readCount' = readCount /\ maxCount' = maxCount
      BY <1>c, <2>1
    <3>2. readCount <= Cardinality(UpTo(ever, cursor))
      BY <1>0, <2>1 DEF CountBetween
    <3>3. Cardinality(ever) > maxCount
      BY <1>c, <1>f, <3>1, <3>2
    <3> QED BY <1>0, <1>c, <2>1, <3>1, <3>3 DEF NoCpuIsMissing
  <2>2. CASE ~IsFull
    <3>1. pc' = "nextBlock"
      BY <1>0, <1>a, <2>2
    <3> QED BY <3>1 DEF NoCpuIsMissing
  <2> QED BY <2>1, <2>2
<1>10. Undiminished'
  <2>1. SUFFICES ASSUME "cpuinfo" \in kernel, stayed = ever, ~faults, Stores
                 PROVE  SlotSum' = CpuSum(UpTo(ever, c))
    BY <1>0, <1>a, <1>c DEF Undiminished
  <2>2. SlotSum = CpuSum(UpTo(ever, cursor))
    BY <1>0, <2>1 DEF Undiminished
  <2> DEFINE cur == Freq[PolicyOf[c]]["cur"]
  <2>3. CpuSum(UpTo(ever, c)) = cur + CpuSum(UpTo(ever, cursor))
    <3>1. UpTo(ever, cursor) \in SUBSET Cpus /\ c \in Cpus \ UpTo(ever, cursor)
      BY <1>0, <1>e DEF TypeOK, UpTo
    <3> QED BY <1>e, <2>1, <3>1, CpuSumGrows
  <2>4. SlotSum' = cur + SlotSum
    <3>1. /\ readCount \in Nat /\ readCount' = readCount + 1
          /\ array'[readCount]["cur"] = cur /\ cur \in Nat
      BY <1>0, <1>b, <1>c, <1>d, <2>1, FrequenciesArePositive
    <3>2. \A j \in 0 .. readCount - 1 :
            array'[j]["cur"] = array[j]["cur"] /\ array'[j]["cur"] \in Nat
      <4>1. ASSUME NEW j \in 0 .. readCount - 1
            PROVE  array'[j] = array[j] /\ array[j] \in Entry
        <5>1. j \in 0 .. maxCount - 1 /\ j # readCount
          BY <1>c, <2>1
        <5> QED BY <1>0, <1>c, <1>d, <2>1, <5>1 DEF Cleared
      <4> QED BY <4>1, FrequenciesArePositive DEF Entry
    <3> HIDE DEF cur
    <3> QED BY <3>1, <3>2, SlotSumGrows DEF SlotSum
  <2> QED BY <2>2, <2>3, <2>4
<1> QED BY <1>1, <1>2, <1>3, <1>4, <1>5, <1>6, <1>7, <1>8, <1>9, <1>10

\* The file ends.
LEMMA CpuinfoEndsKeeps ==
  ASSUME FreqInv, CpuinfoEnds
  PROVE  FreqInv'
<1> USE DEF FreqInv, Truth, Missing, machine, output, visit, history
<1> USE Entries
<1>0. ~faults' => /\ UpTo(stayed, cursor) = stayed
                  /\ stayed = ever => UpTo(ever, cursor) = ever
  <2>1. SUFFICES ASSUME ~faults' PROVE \A c \in stayed : c <= cursor
    BY DEF UpTo
  <2>2. LaterCpus = {}
    BY <2>1 DEF CpuinfoEnds
  <2>3. \A c \in stayed : c \in online /\ c \in Nat
    BY DEF TypeOK, Between
  <2>4. cursor \in Int
    BY DEF TypeOK
  <2> QED BY <2>2, <2>3, <2>4 DEF LaterCpus
<1>1. TypeOK' /\ FreqPhases'
  BY DEF TypeOK, FreqPhases, ByPolicy, ByCpuinfo, CpuinfoEnds, LaterCpus
<1>2. Truth'
  BY DEF TypeOK, FreqPhases, SlotsTellTheTruth, Cleared, AllShown, Shown,
     ReadOfPolicy, FillOfPolicy, ByPolicy, ByCpuinfo, CpuinfoEnds, LaterCpus
<1>3. Missing'
  BY <1>0 DEF TypeOK, FreqPhases, Between, Reached, Ahead, Placed, ByPolicy,
     CurrentRead, NoFalseAlarm, CountBetween, NoCpuIsMissing, ByCpuinfo,
     CpuinfoEnds, LaterCpus
<1>4. Undiminished'
  BY <1>0 DEF TypeOK, FreqPhases, Undiminished, SlotSum, ByPolicy,
     ByCpuinfo, CpuinfoEnds, LaterCpus
<1> QED BY <1>1, <1>2, <1>3, <1>4

\* A call for the frequencies begins like this.
LEMMA FreqStarts == Init => FreqInv
<1> SUFFICES ASSUME Init PROVE FreqInv
  OBVIOUS
<1> USE Entries DEF Init
<1>1. DOMAIN array = {}
  BY DEF Filled
<1>2. TypeOK
  <2>1. DOMAIN array = 0 .. maxCount - 1 /\ readCount \in 0 .. maxCount
    BY <1>1
  <2>2. hotplugs \in 0 .. MaxHotplug
    BY BoundIsNatural
  <2>3. stayed \subseteq ever /\ ever \subseteq Cpus
    OBVIOUS
  <2> QED BY <1>1, <2>1, <2>2, <2>3 DEF TypeOK
<1>3. FreqPhases
  BY DEF FreqPhases, ByPolicy, ByCpuinfo
<1>4. Truth
  BY <1>1 DEF Truth, SlotsTellTheTruth, Cleared, AllShown, ReadOfPolicy,
              FillOfPolicy
<1>5. Missing
  BY DEF Missing, Between, Reached, CurrentRead, NoFalseAlarm, CountBetween,
         NoCpuIsMissing
<1>6. Undiminished
  BY DEF Undiminished
<1> QED BY <1>2, <1>3, <1>4, <1>5, <1>6 DEF FreqInv

\* Nothing is known less while nothing happens.
LEMMA FreqStays ==
  ASSUME FreqInv, UNCHANGED freqVars
  PROVE  FreqInv'
<1> USE DEF FreqInv, freqVars, machine, output, visit, history
<1>1. TypeOK' /\ FreqPhases'
  BY DEF TypeOK, FreqPhases
<1>2. Truth'
  BY DEF Truth, SlotsTellTheTruth, Cleared, AllShown, Shown, ReadOfPolicy,
         FillOfPolicy
<1>3. Missing'
  BY DEF Missing, Between, Reached, Ahead, Placed, CurrentRead, NoFalseAlarm,
         CountBetween, NoCpuIsMissing
<1>4. Undiminished'
  BY DEF Undiminished, SlotSum
<1> QED BY <1>1, <1>2, <1>3, <1>4

\* Every step of a call and every change of the CPUs keeps the invariant.
LEMMA FreqSteps ==
  ASSUME FreqInv, Hotplug \/ CallStep
  PROVE  FreqInv'
<1>1. CASE Hotplug
  BY <1>1, GoOfflineKeeps, GoOnlineKeeps DEF Hotplug
<1>2. CASE CallStep
  BY <1>2, GlobKeeps, OpenAffectedKeeps, OpenAffectedFailsKeeps,
     ReadFieldKeeps, ReadAffectedKeeps, FillSlotKeeps, FillEndsKeeps,
     PoliciesDoneKeeps, OpenCpuinfoKeeps, OpenCpuinfoFailsKeeps,
     NextBlockKeeps, CpuinfoEndsKeeps DEF CallStep
<1> QED BY <1>1, <1>2

\* What a step of a call leaves alone.
LEMMA CallStepIsLocal ==
  ASSUME FreqInv, CallStep
  PROVE  /\ UNCHANGED <<machine, maxCount, stayed, ever>>
         /\ pc # "idle" /\ pc' # "glob"
         /\ (pc # "glob" => route # "none") => route' # "none"
         /\ faults' \in BOOLEAN
<1> USE DEF machine, output, visit, history
<1>1. /\ UNCHANGED <<machine, maxCount, stayed, ever>>
      /\ pc # "idle" /\ pc' # "glob"
      /\ (pc # "glob" => route # "none") => route' # "none"
  BY DEF CallStep, Glob, OpenAffected, OpenAffectedFails, ReadField,
         ReadAffected, FillSlot, FillEnds, PoliciesDone, OpenCpuinfo,
         OpenCpuinfoFails, NextBlock, CpuinfoEnds
<1>2. faults' \in BOOLEAN
  BY FreqSteps DEF FreqInv, TypeOK
<1> QED BY <1>1, <1>2

\* How many CPUs are online.
LEMMA OnlineCount ==
  ASSUME NEW S \in (SUBSET Cpus) \ {{}}
  PROVE  /\ IsFiniteSet(S)
         /\ Cardinality(S) \in 1 .. Cardinality(Cpus)
         /\ Cardinality(Cpus) \in Nat
<1>1. IsFiniteSet(S) /\ Cardinality(S) \in Nat /\ Cardinality(S) # 0
  BY CpusAreNumbered, FS_Subset, FS_CardinalityType, FS_EmptySet
<1>2. Cardinality(S) <= Cardinality(Cpus) /\ Cardinality(Cpus) \in Nat
  BY CpusAreNumbered, FS_Subset, FS_CardinalityType
<1> QED BY <1>1, <1>2

\* The bound on the entries of a method's array.
LEMMA ItemBound ==
  /\ Max({MaxList, Cardinality(Cpus)}) \in Nat
  /\ MaxList <= Max({MaxList, Cardinality(Cpus)})
  /\ Cardinality(Cpus) <= Max({MaxList, Cardinality(Cpus)})
  /\ MaxList \in Nat /\ Cardinality(Cpus) \in Nat
BY MaxOfTwo, ListIsBounded, CpusAreNumbered, FS_CardinalityType

\* Numbers below their count are numbered without a gap.
LEMMA NoGap ==
  ASSUME NEW S \in SUBSET Nat, IsFiniteSet(S),
         \A c \in S : c < Cardinality(S)
  PROVE  S = 0 .. Cardinality(S) - 1
<1>1. Cardinality(S) \in Nat
  BY FS_CardinalityType
<1> DEFINE n == Cardinality(S)
<1>2. IsFiniteSet(0 .. n - 1) /\ Cardinality(0 .. n - 1) = n
  <2> HIDE DEF n
  <2>1. n \in Nat
    BY <1>1 DEF n
  <2>2. 0 \in Int /\ n - 1 \in Int /\ (0 > n - 1 => n = 0)
    BY <2>1
  <2> QED BY <2>1, <2>2, FS_Interval
<1>3. S \in SUBSET (0 .. n - 1)
  BY <1>1
<1> QED BY <1>2, <1>3, FS_Subset

-----------------------------------------------------------------------------
\* The average

\* The bound of an average, and its type.
LEMMA AverageOfSlots ==
  ASSUME FreqInv, pc = "idle", HaveFreqs, readCount > 0
  PROVE  /\ Average(array, readCount).sum \in Entry
         /\ Average(array, readCount).count = readCount
         /\ \A f \in Fields : \E p \in Policies :
              Average(array, readCount).sum[f] <= readCount * Freq[p][f]
<1> DEFINE S == 0 .. readCount - 1
           avg == Average(array, readCount)
<1>1. readCount \in Nat /\ IsFiniteSet(S) /\ Cardinality(S) = readCount
  <2>1. readCount \in Nat
    BY DEF FreqInv, TypeOK, FreqPhases
  <2> QED BY <2>1, FS_Interval
<1>2. \A j \in S : array[j] \in Entry /\ Shown(array[j])
  <2>1. \A j \in S : j \in DOMAIN array
    BY DEF FreqInv, TypeOK, FreqPhases
  <2> QED BY <2>1, Entries DEF FreqInv, Truth, SlotsTellTheTruth, AllShown,
                               HaveFreqs
<1>3. ASSUME NEW f \in Fields
      PROVE  /\ avg.sum[f] \in Nat
             /\ \E p \in Policies : avg.sum[f] <= readCount * Freq[p][f]
  <2> DEFINE g == [j \in S |-> array[j][f]]
             h == [p \in Policies |-> Freq[p][f]]
  <2>1. Policies # {} /\ IsFiniteSet(Policies) /\ h \in [Policies -> Nat]
    BY Entries, PoliciesCoverCpus, CpusAreNumbered
  <2>2. PICK p \in Policies : \A q \in Policies : h[q] <= h[p]
    <3> HIDE DEF h
    <3> QED BY <2>1, Largest
  <2>3. \A q \in Policies : Freq[q][f] <= Freq[p][f] /\ Freq[q][f] \in Nat
    BY <2>2, Entries
  <2>4. \A j \in S : g[j] \in Nat /\ g[j] <= Freq[p][f]
    BY <1>2, <2>3 DEF Shown, Entry
  <2>5. avg.sum[f] = Sum(g, S)
    BY <1>1, AverageIsSum
  <2> HIDE DEF g, S, avg
  <2>6. Sum(g, S) \in Nat /\ Sum(g, S) <= Cardinality(S) * Freq[p][f]
    BY <1>1, <2>3, <2>4, SumIsBounded
  <2> QED BY <1>1, <2>5, <2>6
<1>4. avg.count = readCount /\ avg.sum = [f \in Fields |-> avg.sum[f]]
  BY DEF Average
<1> HIDE DEF avg
<1>5. avg.sum \in Entry
  BY <1>3, <1>4 DEF Entry
<1> QED BY <1>3, <1>4, <1>5 DEF avg

\* The property in terms of the sums above.
MeansOf(avg, S) ==
  avg.sum["cur"] * Cardinality(S) = avg.count * CpuSum(S)

\* When every slot is its CPU's and the CPUs are all there, the sum that was
\* formed is that of the CPUs online.
LEMMA TrueAverage ==
  /\ IsFiniteSet(online) =>
       (TrueAverageOf(online, "cur") <=> MeansOf(average, online))
  /\ IsFiniteSet(online') =>
       (TrueAverageOf(online, "cur")' <=> MeansOf(average', online'))
<1>1. "cur" \in Fields
  BY FrequenciesArePositive
<1>2. ASSUME NEW S, IsFiniteSet(S)
      PROVE  CpuSum(S) = MapThenSumSet(LAMBDA c : Freq[PolicyOf[c]]["cur"], S)
  BY <1>1, <1>2, CpusAreSum DEF CpuSum
<1>3. ASSUME IsFiniteSet(online)
      PROVE  TrueAverageOf(online, "cur") <=> MeansOf(average, online)
  BY <1>2, <1>3 DEF TrueAverageOf, MeansOf
<1>4. ASSUME IsFiniteSet(online')
      PROVE  TrueAverageOf(online, "cur")' <=> MeansOf(average', online')
  <2>1. CpuSum(online')
          = MapThenSumSet(LAMBDA c : Freq[PolicyOf[c]]["cur"], online')
    BY <1>2, <1>4
  <2>2. TrueAverageOf(online, "cur")' <=>
          average'.sum["cur"] * Cardinality(online') =
            average'.count
              * MapThenSumSet(LAMBDA c : Freq[PolicyOf[c]]["cur"], online')
    BY DEF TrueAverageOf, MapThenSumSet, MapThenFoldSet
  <2> QED BY <2>1, <2>2 DEF MeansOf, MapThenSumSet, MapThenFoldSet
<1> QED BY <1>3, <1>4

\* An average stays sound while nobody touches it.
LEMMA AverageStays ==
  ASSUME AverageIsSound, average' = average, sysStatus' = sysStatus,
         Undisturbed' => Undisturbed /\ online' = online /\ route' = route,
         online \in (SUBSET Cpus) \ {{}}
  PROVE  AverageIsSound'
<1>1. ASSUME Undisturbed', Numbered' \/ route' = "cpuinfo"
      PROVE  TrueAverageOf(online, "cur")'
  <2>1. Undisturbed /\ (Numbered \/ route = "cpuinfo") /\ online' = online
    BY <1>1 DEF Numbered
  <2>2. TrueAverageOf(online, "cur")
    BY <2>1 DEF AverageIsSound
  <2> QED BY <2>1, <2>2, TrueAverage, OnlineCount
<1> QED BY <1>1 DEF AverageIsSound

\* Undisturbed, with no gap or by cpuinfo, every CPU's frequency was read.
LEMMA AllRead ==
  ASSUME FreqInv, Calls, Reading, calm, pc = "idle", HaveFreqs,
         readCount > 0, ncpus = Cardinality(online),
         Numbered \/ route = "cpuinfo"
  PROVE  readCount = Cardinality(online) /\ SlotSum = CpuSum(online)
<1>1. /\ stayed = online /\ ever = online /\ ~faults /\ route # "none"
      /\ maxCount = Cardinality(online) /\ online \in (SUBSET Cpus) \ {{}}
      /\ readCount \in 0 .. maxCount /\ readCount \in Nat
      /\ Cardinality(online) \in 1 .. Cardinality(Cpus)
      /\ Cardinality(Cpus) \in Nat /\ IsFiniteSet(online)
  BY OnlineCount DEF Calls, FreqInv, TypeOK, FreqPhases
<1>2. CASE route = "cpuinfo"
  <2>1. "cpuinfo" \in kernel
    BY <1>2 DEF FreqInv, FreqPhases
  <2>2. readCount = Cardinality(online) /\ status = "NONE"
    BY <1>1, <1>2, <2>1 DEF FreqInv, Missing, NoCpuIsMissing
  <2> QED BY <1>1, <1>2, <2>1, <2>2 DEF FreqInv, Undiminished
<1>3. CASE route = "policies" /\ Numbered
  <2>1. online = 0 .. Cardinality(online) - 1
    BY <1>3 DEF Numbered
  <2>2. \A c \in online :
          c < readCount /\ array[c]["cur"] = Freq[PolicyOf[c]]["cur"]
    BY <1>1, <1>3, <2>1 DEF FreqInv, Missing, NoCpuIsMissing
  <2>3. readCount = Cardinality(online)
    <3>1. Cardinality(online) - 1 \in online
      BY <1>1, <2>1
    <3> QED BY <1>1, <2>2, <3>1
  <2> DEFINE g == [j \in 0 .. readCount - 1 |-> array[j]["cur"]]
             h == [c \in online |-> Freq[PolicyOf[c]]["cur"]]
  <2>4. online = 0 .. readCount - 1 /\ \A j \in online : g[j] = h[j]
    BY <2>1, <2>2, <2>3
  <2> HIDE DEF g, h
  <2>5. Sum(g, online) = Sum(h, online)
    BY <1>1, <2>4, SameSum
  <2> QED BY <2>3, <2>4, <2>5 DEF SlotSum, CpuSum, g, h
<1> QED BY <1>1, <1>2, <1>3 DEF FreqInv, TypeOK

\* What a list's entries are when nothing was disturbed.
LEMMA AllListed ==
  ASSUME FreqInv, Calls, Reading, calm, pc = "idle",
         ncpus = Cardinality(online)
  PROVE  /\ status = "NONE" /\ kernel # {} => readCount = Cardinality(online)
         /\ status = "MORE_DATA" => route = "policies" /\ ~Numbered
<1>1. /\ stayed = online /\ ever = online /\ ~faults /\ route # "none"
      /\ maxCount = Cardinality(online) /\ online \in (SUBSET Cpus) \ {{}}
      /\ readCount \in 0 .. maxCount /\ readCount \in Nat
      /\ Cardinality(online) \in 1 .. Cardinality(Cpus)
      /\ Cardinality(Cpus) \in Nat /\ IsFiniteSet(online)
  BY OnlineCount DEF Calls, FreqInv, TypeOK, FreqPhases
<1>2. CASE route = "cpuinfo"
  <2>1. "policies" \notin kernel
    BY <1>1, <1>2 DEF FreqInv, FreqPhases
  <2>2. kernel # {} => "cpuinfo" \in kernel
    BY <2>1 DEF FreqInv, TypeOK
  <2>3. status # "MORE_DATA"
    BY <1>1, <1>2 DEF FreqInv, Missing, NoCpuIsMissing
  <2>4. "cpuinfo" \in kernel => readCount = Cardinality(online)
    BY <1>1, <1>2 DEF FreqInv, Missing, NoCpuIsMissing
  <2> QED BY <2>2, <2>3, <2>4
<1>3. CASE route = "policies"
  <2>1. ASSUME status = "NONE" PROVE readCount = Cardinality(online)
    <3>1. \A c \in online : c < readCount
      BY <1>1, <1>3, <2>1 DEF FreqInv, Missing, NoCpuIsMissing
    <3>2. online \in SUBSET Nat /\ \A c \in online : c < Cardinality(online)
      BY <1>1, <3>1, CpusAreNumbered
    <3>3. online = 0 .. Cardinality(online) - 1
      BY <1>1, <3>2, NoGap
    <3>4. Cardinality(online) - 1 \in online
      BY <1>1, <3>3
    <3> QED BY <1>1, <3>1, <3>4
  <2>2. ASSUME status = "MORE_DATA" PROVE ~Numbered
    <3>1. PICK c \in online : c >= Cardinality(online)
      BY <1>1, <1>3, <2>2 DEF FreqInv, Missing, NoFalseAlarm
    <3> QED BY <1>1, <3>1 DEF Numbered
  <2> QED BY <1>3, <2>1, <2>2
<1> QED BY <1>1, <1>2, <1>3 DEF FreqInv, TypeOK

-----------------------------------------------------------------------------
\* Each action of the methods keeps what is known.

USE DEF Counts, Lists, Reads, Figures, Takers, Methods, Wrappers, Raise, Give

\* The CPUs change.
LEMMA SystemHotplugKeeps ==
  ASSUME PyInv, SystemHotplug, UNCHANGED pyVars
  PROVE  PyInv'
<1> USE DEF PyInv, vars, freqVars, machine, output, visit, history, sysVars,
           pyVars
<1>1. FreqInv'
  BY FreqSteps DEF SystemHotplug
<1>2. PyTypeOK'
  <2>1. SystemTypeOK'
    BY <1>1, OnlineCount DEF PyTypeOK, SystemTypeOK, TypeOK, FreqInv, Calls,
       Reading, SystemHotplug, Hotplug, GoOffline, CpuLeaves, GoOnline,
       CpuComes
  <2> QED
    BY <2>1, FirstObject, ItemBound DEF PyTypeOK, SystemTypeOK, Proper,
       Objects, PyPhases, Calls, Reading, SystemHotplug, Hotplug, GoOffline,
       CpuLeaves,
       GoOnline, CpuComes
<1>3. AverageIsSound'
  BY <1>1, AverageStays DEF Undisturbed, Calls, PyTypeOK, SystemTypeOK,
     TypeOK, SystemHotplug, Hotplug, GoOffline, CpuLeaves, GoOnline, CpuComes
<1>4. Calls' /\ PyPhases' /\ Objects'
  BY OnlineCount, FirstObject DEF Calls, Reading, PyPhases, PyTypeOK,
     SystemTypeOK, TypeOK, Objects, SystemHotplug, Hotplug, GoOffline,
     CpuLeaves,
     GoOnline, CpuComes
<1>5. MethodsReturnCleanly' /\ ListsEveryCpu'
  BY <1>1, FirstObject, OnlineCount DEF MethodsReturnCleanly, Objects,
     PyPhases, PyTypeOK, SystemTypeOK, FreqInv, FreqPhases, Calls, Reading,
     ListsEveryCpu, SystemHotplug, Hotplug, GoOffline, CpuLeaves, GoOnline,
     CpuComes
<1> QED BY <1>1, <1>2, <1>3, <1>4, <1>5

\* A method is called.
LEMMA MethodCallKeeps ==
  ASSUME PyInv, MethodCall
  PROVE  PyInv'
<1> USE DEF PyInv, vars, freqVars, machine, output, visit, history, sysVars,
           pyVars
<1>1. FreqInv'
  BY FreqStays DEF MethodCall
<1>2. PyTypeOK'
  <2>1. SystemTypeOK'
    BY <1>1, OnlineCount DEF PyTypeOK, SystemTypeOK, TypeOK, FreqInv, Calls,
       Reading, MethodCall
  <2> QED
    BY <2>1, FirstObject, ItemBound DEF PyTypeOK, SystemTypeOK, Proper,
       Objects, PyPhases, Calls, Reading, MethodCall
<1>3. AverageIsSound'
  BY <1>1, AverageStays DEF Undisturbed, Calls, PyTypeOK, SystemTypeOK,
     TypeOK, MethodCall
<1>4. Calls' /\ PyPhases' /\ Objects'
  BY OnlineCount, FirstObject DEF Calls, Reading, PyPhases, PyTypeOK,
     SystemTypeOK, TypeOK, Objects, MethodCall
<1>5. MethodsReturnCleanly' /\ ListsEveryCpu'
  BY <1>1, FirstObject, OnlineCount DEF MethodsReturnCleanly, Objects,
     PyPhases, PyTypeOK, SystemTypeOK, FreqInv, FreqPhases, Calls, Reading,
     ListsEveryCpu, MethodCall
<1> QED BY <1>1, <1>2, <1>3, <1>4, <1>5

\* It looks at its arguments.
LEMMA ParseArgumentsKeeps ==
  ASSUME PyInv, ParseArguments
  PROVE  PyInv'
<1> USE DEF PyInv, vars, freqVars, machine, output, visit, history, sysVars,
           pyVars
<1>1. FreqInv'
  BY FreqStays DEF ParseArguments
<1>2. PyTypeOK'
  <2>1. SystemTypeOK'
    BY <1>1, OnlineCount DEF PyTypeOK, SystemTypeOK, TypeOK, FreqInv, Calls,
       Reading, ParseArguments
  <2> QED
    BY <2>1, FirstObject, ItemBound DEF PyTypeOK, SystemTypeOK, Proper,
       Objects, PyPhases, Calls, Reading, ParseArguments
<1>3. AverageIsSound'
  BY <1>1, AverageStays DEF Undisturbed, Calls, PyTypeOK, SystemTypeOK,
     TypeOK, ParseArguments
<1>4. Calls' /\ PyPhases' /\ Objects'
  BY OnlineCount, FirstObject DEF Calls, Reading, PyPhases, PyTypeOK,
     SystemTypeOK, TypeOK, Objects, ParseArguments
<1>5. MethodsReturnCleanly' /\ ListsEveryCpu'
  BY <1>1, FirstObject, OnlineCount DEF MethodsReturnCleanly, Objects,
     PyPhases, PyTypeOK, SystemTypeOK, FreqInv, FreqPhases, Calls, Reading,
     ListsEveryCpu, ParseArguments
<1> QED BY <1>1, <1>2, <1>3, <1>4, <1>5

\* It makes a number.
LEMMA NewNumberKeeps ==
  ASSUME PyInv, NewNumber
  PROVE  PyInv'
<1> USE DEF PyInv, vars, freqVars, machine, output, visit, history, sysVars,
           pyVars
<1>1. FreqInv'
  BY FreqStays DEF NewNumber
<1>2. PyTypeOK'
  <2>1. SystemTypeOK'
    BY <1>1, OnlineCount DEF PyTypeOK, SystemTypeOK, TypeOK, FreqInv, Calls,
       Reading, NewNumber
  <2> QED
    BY <2>1, FirstObject, ItemBound DEF PyTypeOK, SystemTypeOK, Proper,
       Objects, PyPhases, Calls, Reading, NewNumber
<1>3. AverageIsSound'
  BY <1>1, AverageStays DEF Undisturbed, Calls, PyTypeOK, SystemTypeOK,
     TypeOK, NewNumber
<1>4. Calls' /\ PyPhases' /\ Objects'
  BY OnlineCount, FirstObject DEF Calls, Reading, PyPhases, PyTypeOK,
     SystemTypeOK, TypeOK, Objects, NewNumber
<1>5. MethodsReturnCleanly' /\ ListsEveryCpu'
  BY <1>1, FirstObject, OnlineCount DEF MethodsReturnCleanly, Objects,
     PyPhases, PyTypeOK, SystemTypeOK, FreqInv, FreqPhases, Calls, Reading,
     ListsEveryCpu, NewNumber
<1> QED BY <1>1, <1>2, <1>3, <1>4, <1>5

\* It counts the CPUs.
LEMMA CountCpusKeeps ==
  ASSUME PyInv, CountCpus
  PROVE  PyInv'
<1> USE DEF PyInv, vars, freqVars, machine, output, visit, history, sysVars,
           pyVars
<1>1. FreqInv'
  BY FreqStays DEF CountCpus
<1>2. PyTypeOK'
  <2>1. SystemTypeOK'
    BY <1>1, OnlineCount DEF PyTypeOK, SystemTypeOK, TypeOK, FreqInv, Calls,
       Reading, CountCpus
  <2> QED
    BY <2>1, FirstObject, ItemBound DEF PyTypeOK, SystemTypeOK, Proper,
       Objects, PyPhases, Calls, Reading, CountCpus
<1>3. AverageIsSound'
  BY <1>1, AverageStays DEF Undisturbed, Calls, PyTypeOK, SystemTypeOK,
     TypeOK, CountCpus
<1>4. Calls' /\ PyPhases' /\ Objects'
  BY OnlineCount, FirstObject DEF Calls, Reading, PyPhases, PyTypeOK,
     SystemTypeOK, TypeOK, Objects, CountCpus
<1>5. MethodsReturnCleanly' /\ ListsEveryCpu'
  BY <1>1, FirstObject, OnlineCount DEF MethodsReturnCleanly, Objects,
     PyPhases, PyTypeOK, SystemTypeOK, FreqInv, FreqPhases, Calls, Reading,
     ListsEveryCpu, CountCpus
<1> QED BY <1>1, <1>2, <1>3, <1>4, <1>5

\* It allocates its array.
LEMMA AllocateArrayKeeps ==
  ASSUME PyInv, AllocateArray
  PROVE  PyInv'
<1> USE DEF PyInv, vars, freqVars, machine, output, visit, history, sysVars,
           pyVars
<1>1. FreqInv'
  <2>1. ncpus \in Nat
    BY DEF PyTypeOK, SystemTypeOK
  <2>2. CASE method = "cpu_freqs"
    BY <2>1, <2>2, CallWithKeeps DEF AllocateArray
  <2>3. CASE method # "cpu_freqs"
    BY <2>3, FreqStays DEF AllocateArray
  <2> QED BY <2>2, <2>3
<1>2. PyTypeOK'
  <2>1. SystemTypeOK'
    BY <1>1, OnlineCount DEF PyTypeOK, SystemTypeOK, TypeOK, FreqInv, Calls,
       Reading, AllocateArray, CallWith
  <2> QED
    BY <2>1, FirstObject, ItemBound DEF PyTypeOK, SystemTypeOK, Proper,
       Objects, PyPhases, Calls, Reading, AllocateArray, CallWith
<1>3. AverageIsSound'
  BY <1>1, AverageStays DEF Undisturbed, Calls, PyTypeOK, SystemTypeOK,
     TypeOK, AllocateArray, CallWith
<1>4. Calls' /\ PyPhases' /\ Objects'
  BY OnlineCount, FirstObject DEF Calls, Reading, PyPhases, PyTypeOK,
     SystemTypeOK, TypeOK, Objects, AllocateArray, CallWith
<1>5. MethodsReturnCleanly' /\ ListsEveryCpu'
  BY <1>1, FirstObject, OnlineCount DEF MethodsReturnCleanly, Objects,
     PyPhases, PyTypeOK, SystemTypeOK, FreqInv, FreqPhases, Calls, Reading,
     ListsEveryCpu, AllocateArray, CallWith
<1> QED BY <1>1, <1>2, <1>3, <1>4, <1>5

\* It cannot.
LEMMA AllocateArrayFailsKeeps ==
  ASSUME PyInv, AllocateArrayFails
  PROVE  PyInv'
<1> USE DEF PyInv, vars, freqVars, machine, output, visit, history, sysVars,
           pyVars
<1>1. FreqInv'
  BY FreqStays DEF AllocateArrayFails
<1>2. PyTypeOK'
  <2>1. SystemTypeOK'
    BY <1>1, OnlineCount DEF PyTypeOK, SystemTypeOK, TypeOK, FreqInv, Calls,
       Reading, AllocateArrayFails
  <2> QED
    BY <2>1, FirstObject, ItemBound DEF PyTypeOK, SystemTypeOK, Proper,
       Objects, PyPhases, Calls, Reading, AllocateArrayFails
<1>3. AverageIsSound'
  BY <1>1, AverageStays DEF Undisturbed, Calls, PyTypeOK, SystemTypeOK,
     TypeOK, AllocateArrayFails
<1>4. Calls' /\ PyPhases' /\ Objects'
  BY OnlineCount, FirstObject DEF Calls, Reading, PyPhases, PyTypeOK,
     SystemTypeOK, TypeOK, Objects, AllocateArrayFails
<1>5. MethodsReturnCleanly' /\ ListsEveryCpu'
  BY <1>1, FirstObject, OnlineCount DEF MethodsReturnCleanly, Objects,
     PyPhases, PyTypeOK, SystemTypeOK, FreqInv, FreqPhases, Calls, Reading,
     ListsEveryCpu, AllocateArrayFails
<1> QED BY <1>1, <1>2, <1>3, <1>4, <1>5

\* It copies the list to be averaged.
LEMMA CopyItemsKeeps ==
  ASSUME PyInv, CopyItems
  PROVE  PyInv'
<1> USE DEF PyInv, vars, freqVars, machine, output, visit, history, sysVars,
           pyVars
<1>1. FreqInv'
  BY FreqStays DEF CopyItems
<1>2. PyTypeOK'
  <2>1. SystemTypeOK'
    BY <1>1, OnlineCount DEF PyTypeOK, SystemTypeOK, TypeOK, FreqInv, Calls,
       Reading, CopyItems
  <2>2. Proper(refs', slots')
    BY FirstObject DEF PyTypeOK, Proper, Objects, PyPhases, CopyItems
  <2>3. items' \in 0 .. Max({MaxList, Cardinality(Cpus)})
    BY ItemBound DEF PyTypeOK, SystemTypeOK, CopyItems
  <2> QED
    BY <2>1, <2>2, <2>3 DEF PyTypeOK, Proper, PyPhases, Calls, Reading,
       CopyItems
<1>3. AverageIsSound'
  BY <1>1, AverageStays DEF Undisturbed, Calls, PyTypeOK, SystemTypeOK,
     TypeOK, CopyItems
<1>4. Calls' /\ PyPhases' /\ Objects'
  BY OnlineCount, FirstObject DEF Calls, Reading, PyPhases, PyTypeOK,
     SystemTypeOK, TypeOK, Objects, CopyItems
<1>5. MethodsReturnCleanly' /\ ListsEveryCpu'
  BY <1>1, FirstObject, OnlineCount DEF MethodsReturnCleanly, Objects,
     PyPhases, PyTypeOK, SystemTypeOK, FreqInv, FreqPhases, Calls, Reading,
     ListsEveryCpu, CopyItems
<1> QED BY <1>1, <1>2, <1>3, <1>4, <1>5

\* It makes its wrapper.
LEMMA NewWrapperKeeps ==
  ASSUME PyInv, NewWrapper
  PROVE  PyInv'
<1> USE DEF PyInv, vars, freqVars, machine, output, visit, history, sysVars,
           pyVars
<1>1. FreqInv'
  BY FreqStays DEF NewWrapper
<1>2. PyTypeOK'
  <2>1. SystemTypeOK'
    BY <1>1, OnlineCount DEF PyTypeOK, SystemTypeOK, TypeOK, FreqInv, Calls,
       Reading, NewWrapper
  <2> QED
    BY <2>1, FirstObject, ItemBound DEF PyTypeOK, SystemTypeOK, Proper,
       Objects, PyPhases, Calls, Reading, NewWrapper
<1>3. AverageIsSound'
  BY <1>1, AverageStays DEF Undisturbed, Calls, PyTypeOK, SystemTypeOK,
     TypeOK, NewWrapper
<1>4. Calls' /\ PyPhases' /\ Objects'
  BY OnlineCount, FirstObject DEF Calls, Reading, PyPhases, PyTypeOK,
     SystemTypeOK, TypeOK, Objects, NewWrapper
<1>5. MethodsReturnCleanly' /\ ListsEveryCpu'
  BY <1>1, FirstObject, OnlineCount DEF MethodsReturnCleanly, Objects,
     PyPhases, PyTypeOK, SystemTypeOK, FreqInv, FreqPhases, Calls, Reading,
     ListsEveryCpu, NewWrapper
<1> QED BY <1>1, <1>2, <1>3, <1>4, <1>5

\* The library fills it.
LEMMA ReadWrapperKeeps ==
  ASSUME PyInv, ReadWrapper
  PROVE  PyInv'
<1> USE DEF PyInv, vars, freqVars, machine, output, visit, history, sysVars,
           pyVars
<1>1. FreqInv'
  BY FreqStays DEF ReadWrapper, Conclusion
<1>2. PyTypeOK'
  <2>1. SystemTypeOK'
    BY <1>1, OnlineCount DEF PyTypeOK, SystemTypeOK, TypeOK, FreqInv, Calls,
       Reading, ReadWrapper, Conclusion
  <2> QED
    BY <2>1, FirstObject, ItemBound DEF PyTypeOK, SystemTypeOK, Proper,
       Objects, PyPhases, Calls, Reading, ReadWrapper, Conclusion
<1>3. AverageIsSound'
  BY <1>1, AverageStays DEF Undisturbed, Calls, PyTypeOK, SystemTypeOK,
     TypeOK, ReadWrapper, Conclusion
<1>4. Calls' /\ PyPhases'
  BY OnlineCount DEF Calls, Reading, PyPhases, PyTypeOK, SystemTypeOK,
     TypeOK, Objects, ReadWrapper, Conclusion
<1>5. Objects'
  BY OnlineCount, FirstObject DEF Calls, PyPhases, Objects, ReadWrapper,
     Conclusion
<1>7. MethodsReturnCleanly'
  <2>1. heap' = {} /\ held' = {} /\ native' = FALSE
    BY DEF PyTypeOK, SystemTypeOK, FreqInv, FreqPhases, Calls, Reading,
       PyPhases, ReadWrapper, Conclusion
  <2>2. OnlyTheResult(refs', slots', given' = "object")
    BY FirstObject DEF Objects, PyPhases, ReadWrapper, Conclusion
  <2> QED
    BY <2>1, <2>2 DEF MethodsReturnCleanly, PyPhases, ReadWrapper,
       Conclusion
<1>6. ListsEveryCpu'
  BY OnlineCount DEF ListsEveryCpu, PyPhases, PyTypeOK, Objects, Calls,
     ReadWrapper, Conclusion
<1> QED BY <1>1, <1>2, <1>3, <1>4, <1>5, <1>6, <1>7

\* The library computes.
LEMMA ComputeKeeps ==
  ASSUME PyInv, Compute
  PROVE  PyInv'
<1> USE DEF PyInv, vars, freqVars, machine, output, visit, history, sysVars,
           pyVars
<1>1. FreqInv'
  BY FreqStays DEF Compute, Conclusion
<1>2. PyTypeOK'
  <2>1. SystemTypeOK'
    BY <1>1, OnlineCount DEF PyTypeOK, SystemTypeOK, TypeOK, FreqInv, Calls,
       Reading, Compute, Conclusion
  <2> QED
    BY <2>1, FirstObject, ItemBound DEF PyTypeOK, SystemTypeOK, Proper,
       Objects, PyPhases, Calls, Reading, Compute, Conclusion
<1>3. AverageIsSound'
  BY <1>1, AverageStays DEF Undisturbed, Calls, PyTypeOK, SystemTypeOK,
     TypeOK, Compute, Conclusion
<1>4. Calls' /\ PyPhases' /\ Objects'
  BY OnlineCount, FirstObject DEF Calls, Reading, PyPhases, PyTypeOK,
     SystemTypeOK, TypeOK, Objects, Compute, Conclusion
<1>5. MethodsReturnCleanly'
  BY <1>1, FirstObject DEF MethodsReturnCleanly, Objects, PyPhases,
     PyTypeOK, SystemTypeOK, FreqInv, FreqPhases, Calls, Reading, Compute,
     Conclusion
<1>6. ListsEveryCpu'
  BY OnlineCount DEF ListsEveryCpu, PyPhases, PyTypeOK, Objects, Calls,
     Compute, Conclusion
<1> QED BY <1>1, <1>2, <1>3, <1>4, <1>5, <1>6

\* The library is asked for the average.
LEMMA CallSystemKeeps ==
  ASSUME PyInv, CallSystem
  PROVE  PyInv'
<1> USE DEF PyInv, vars, freqVars, machine, output, visit, history, sysVars,
           pyVars
<1>1. FreqInv'
  BY FreqStays DEF CallSystem, SystemCall
<1>2. PyTypeOK'
  <2>1. SystemTypeOK'
    <3>1. Nothing.sum \in Entry /\ Nothing.count = 1
      BY Entries DEF Nothing
    <3>2. 1 \in 1 .. Cardinality(Cpus)
      BY OnlineCount DEF PyTypeOK, SystemTypeOK, TypeOK
    <3> QED BY <1>1, <3>1, <3>2
            DEF PyTypeOK, SystemTypeOK, FreqInv, CallSystem, SystemCall
  <2>2. Proper(refs', slots')
    BY FirstObject DEF PyTypeOK, Proper, Objects, PyPhases, CallSystem,
       SystemCall
  <2>3. items' \in 0 .. Max({MaxList, Cardinality(Cpus)})
    BY ItemBound DEF PyTypeOK, SystemTypeOK, CallSystem, SystemCall
  <2> QED
    BY <2>1, <2>2, <2>3 DEF PyTypeOK, Proper, PyPhases, Calls, Reading,
       CallSystem, SystemCall
<1>3. AverageIsSound'
  <2>1. average' = Nothing /\ ~Undisturbed'
    BY DEF CallSystem, SystemCall, Undisturbed
  <2>2. \A f \in Fields : \E p \in Policies :
          Nothing.sum[f] <= Nothing.count * Freq[p][f]
    <3>1. Policies # {}
      BY PoliciesCoverCpus, CpusAreNumbered
    <3> QED BY <3>1, Entries DEF Nothing
  <2> QED BY <2>1, <2>2 DEF AverageIsSound
<1>4. Calls' /\ PyPhases' /\ Objects'
  BY OnlineCount, FirstObject DEF Calls, Reading, PyPhases, PyTypeOK,
     SystemTypeOK, TypeOK, Objects, CallSystem, SystemCall
<1>5. MethodsReturnCleanly' /\ ListsEveryCpu'
  BY <1>1, FirstObject, OnlineCount DEF MethodsReturnCleanly, Objects,
     PyPhases, PyTypeOK, SystemTypeOK, FreqInv, FreqPhases, Calls, Reading,
     ListsEveryCpu, CallSystem, SystemCall
<1> QED BY <1>1, <1>2, <1>3, <1>4, <1>5

\* It counts the CPUs.
LEMMA CountLogicalKeeps ==
  ASSUME PyInv, CountLogical, pyPc = "system", UNCHANGED pyVars
  PROVE  PyInv'
<1> USE DEF PyInv, vars, freqVars, machine, output, visit, history, sysVars,
           pyVars
<1>1. FreqInv'
  BY FreqStays DEF CountLogical, Fail
<1>2. PyTypeOK'
  <2>1. SystemTypeOK'
    <3>1. ncpus' \in 0 .. Cardinality(Cpus)
      BY OnlineCount DEF CountLogical, PyTypeOK, SystemTypeOK, TypeOK
    <3> QED BY <1>1, <3>1
            DEF PyTypeOK, SystemTypeOK, FreqInv, CountLogical, Fail
  <2>2. Proper(refs', slots')
    BY FirstObject DEF PyTypeOK, Proper, Objects, PyPhases, CountLogical,
       Fail
  <2>3. items' \in 0 .. Max({MaxList, Cardinality(Cpus)})
    BY ItemBound DEF PyTypeOK, SystemTypeOK, CountLogical, Fail
  <2> QED
    BY <2>1, <2>2, <2>3 DEF PyTypeOK, Proper, PyPhases, Calls, Reading,
       CountLogical, Fail
<1>3. AverageIsSound'
  <2>1. average' = Nothing /\ ~Undisturbed'
    BY DEF CountLogical, Fail, Undisturbed, Calls
  <2>2. \A f \in Fields : \E p \in Policies :
          Nothing.sum[f] <= Nothing.count * Freq[p][f]
    <3>1. Policies # {}
      BY PoliciesCoverCpus, CpusAreNumbered
    <3> QED BY <3>1, Entries DEF Nothing
  <2> QED BY <2>1, <2>2 DEF AverageIsSound
<1>4. Calls' /\ PyPhases' /\ Objects'
  BY OnlineCount, FirstObject DEF Calls, Reading, PyPhases, PyTypeOK,
     SystemTypeOK, TypeOK, Objects, CountLogical, Fail
<1>5. MethodsReturnCleanly' /\ ListsEveryCpu'
  BY <1>1, FirstObject, OnlineCount DEF MethodsReturnCleanly, Objects,
     PyPhases, PyTypeOK, SystemTypeOK, FreqInv, FreqPhases, Calls, Reading,
     ListsEveryCpu, CountLogical, Fail
<1> QED BY <1>1, <1>2, <1>3, <1>4, <1>5

\* It allocates a slot for each.
LEMMA AllocateKeeps ==
  ASSUME PyInv, Allocate, pyPc = "system", UNCHANGED pyVars
  PROVE  PyInv'
<1> USE DEF PyInv, vars, freqVars, machine, output, visit, history, sysVars,
           pyVars
<1>1. FreqInv'
  <2>1. ncpus \in Nat
    BY DEF PyTypeOK, SystemTypeOK
  <2> QED BY <2>1, CallWithKeeps DEF Allocate
<1>2. PyTypeOK'
  <2>1. SystemTypeOK'
    BY <1>1, OnlineCount DEF PyTypeOK, SystemTypeOK, TypeOK, FreqInv, Calls,
       Reading, Allocate, CallWith
  <2> QED
    BY <2>1, FirstObject, ItemBound DEF PyTypeOK, SystemTypeOK, Proper,
       Objects, PyPhases, Calls, Reading, Allocate, CallWith
<1>3. AverageIsSound'
  BY <1>1, AverageStays DEF Undisturbed, Calls, PyTypeOK, SystemTypeOK,
     TypeOK, Allocate, CallWith
<1>4. Calls' /\ PyPhases' /\ Objects'
  BY OnlineCount, FirstObject DEF Calls, Reading, PyPhases, PyTypeOK,
     SystemTypeOK, TypeOK, Objects, Allocate, CallWith
<1>5. MethodsReturnCleanly' /\ ListsEveryCpu'
  BY <1>1, FirstObject, OnlineCount DEF MethodsReturnCleanly, Objects,
     PyPhases, PyTypeOK, SystemTypeOK, FreqInv, FreqPhases, Calls, Reading,
     ListsEveryCpu, Allocate, CallWith
<1> QED BY <1>1, <1>2, <1>3, <1>4, <1>5

\* It cannot.
LEMMA AllocateFailsKeeps ==
  ASSUME PyInv, AllocateFails, pyPc = "system", UNCHANGED pyVars
  PROVE  PyInv'
<1> USE DEF PyInv, vars, freqVars, machine, output, visit, history, sysVars,
           pyVars
<1>1. FreqInv'
  BY FreqStays DEF AllocateFails, Fail
<1>2. PyTypeOK'
  <2>1. SystemTypeOK'
    BY <1>1, OnlineCount DEF PyTypeOK, SystemTypeOK, TypeOK, FreqInv, Calls,
       Reading, AllocateFails, Fail
  <2> QED
    BY <2>1, FirstObject, ItemBound DEF PyTypeOK, SystemTypeOK, Proper,
       Objects, PyPhases, Calls, Reading, AllocateFails, Fail
<1>3. AverageIsSound'
  <2>1. average' = Nothing /\ ~Undisturbed'
    BY DEF AllocateFails, Fail, Undisturbed, Calls
  <2>2. \A f \in Fields : \E p \in Policies :
          Nothing.sum[f] <= Nothing.count * Freq[p][f]
    <3>1. Policies # {}
      BY PoliciesCoverCpus, CpusAreNumbered
    <3> QED BY <3>1, Entries DEF Nothing
  <2> QED BY <2>1, <2>2 DEF AverageIsSound
<1>4. Calls' /\ PyPhases' /\ Objects'
  BY OnlineCount, FirstObject DEF Calls, Reading, PyPhases, PyTypeOK,
     SystemTypeOK, TypeOK, Objects, AllocateFails, Fail
<1>5. MethodsReturnCleanly' /\ ListsEveryCpu'
  BY <1>1, FirstObject, OnlineCount DEF MethodsReturnCleanly, Objects,
     PyPhases, PyTypeOK, SystemTypeOK, FreqInv, FreqPhases, Calls, Reading,
     ListsEveryCpu, AllocateFails, Fail
<1> QED BY <1>1, <1>2, <1>3, <1>4, <1>5

\* It reads their frequencies.
LEMMA ReadFreqsKeeps ==
  ASSUME PyInv, ReadFreqs, pyPc = "system", UNCHANGED pyVars
  PROVE  PyInv'
<1> USE DEF PyInv, vars, freqVars, machine, output, visit, history, sysVars,
           pyVars
<1>1. FreqInv'
  BY FreqSteps DEF ReadFreqs
<1>2. PyTypeOK'
  <2>1. SystemTypeOK'
    BY <1>1, OnlineCount DEF PyTypeOK, SystemTypeOK, TypeOK, FreqInv, Calls,
       Reading, ReadFreqs
  <2> QED
    BY <2>1, FirstObject, ItemBound DEF PyTypeOK, SystemTypeOK, Proper,
       Objects, PyPhases, Calls, Reading, ReadFreqs
<1>3. AverageIsSound'
  BY <1>1, AverageStays DEF Undisturbed, Calls, PyTypeOK, SystemTypeOK,
     TypeOK, ReadFreqs
<1>4. Calls' /\ PyPhases' /\ Objects'
  BY <1>1, CallStepIsLocal, OnlineCount, FirstObject DEF Calls, Reading,
     PyPhases, PyTypeOK, SystemTypeOK, TypeOK, Objects, ReadFreqs
<1>5. MethodsReturnCleanly' /\ ListsEveryCpu'
  BY <1>1, FirstObject, OnlineCount DEF MethodsReturnCleanly, Objects,
     PyPhases, PyTypeOK, SystemTypeOK, FreqInv, FreqPhases, Calls, Reading,
     ListsEveryCpu, ReadFreqs
<1> QED BY <1>1, <1>2, <1>3, <1>4, <1>5

\* It averages them.
LEMMA ConcludeKeeps ==
  ASSUME PyInv, Conclude, pyPc = "system", UNCHANGED pyVars
  PROVE  PyInv'
<1> USE DEF PyInv, vars, freqVars, machine, output, visit, history, sysVars,
           pyVars
<1>0. readCount \in Nat /\ readCount <= Cardinality(Cpus) /\ ~(readCount < 0)
  BY OnlineCount DEF PyTypeOK, SystemTypeOK, TypeOK, FreqInv, FreqPhases,
     Calls, Reading, Conclude
<1>1. FreqInv'
  BY FreqStays DEF Conclude, HaveFreqs
<1>2. PyTypeOK'
  <2>1. SystemTypeOK'
    <3>1. average'.sum \in Entry /\ average'.count \in 1 .. Cardinality(Cpus)
      <4>1. CASE HaveFreqs /\ readCount > 0
        <5>1. average' = Average(array, readCount) /\ pc = "idle"
          BY <4>1 DEF Conclude
        <5> QED BY <1>0, <4>1, <5>1, AverageOfSlots, OnlineCount
      <4>2. CASE ~(HaveFreqs /\ readCount > 0)
        BY <1>0, <4>2 DEF Conclude, PyTypeOK, SystemTypeOK
      <4> QED BY <4>1, <4>2
    <3> QED BY <1>1, <3>1
            DEF PyTypeOK, SystemTypeOK, FreqInv, TypeOK, Conclude, HaveFreqs
  <2>2. Proper(refs', slots')
    BY FirstObject DEF PyTypeOK, Proper, Objects, PyPhases, Conclude,
       HaveFreqs
  <2>3. items' \in 0 .. Max({MaxList, Cardinality(Cpus)})
    BY ItemBound DEF PyTypeOK, SystemTypeOK, Conclude, HaveFreqs
  <2> QED
    BY <2>1, <2>2, <2>3 DEF PyTypeOK, Proper, PyPhases, Calls, Reading,
       Conclude, HaveFreqs
<1>3. AverageIsSound'
  <2>1. CASE HaveFreqs /\ readCount > 0
    <3>1. /\ average' = Average(array, readCount)
          /\ pc = "idle" /\ sysPc = "read"
          /\ sysStatus' = "NONE" /\ online' = online /\ calm' = calm
          /\ route' = route
      BY <2>1 DEF Conclude
    <3>2. ASSUME Undisturbed', Numbered' \/ route' = "cpuinfo"
          PROVE  TrueAverageOf(online, "cur")'
      <4>1. calm /\ (Numbered \/ route = "cpuinfo")
        BY <3>1, <3>2 DEF Undisturbed, Numbered
      <4>2. Reading /\ ncpus = Cardinality(online)
        BY <3>1, <4>1 DEF Reading, Calls
      <4>3. readCount = Cardinality(online) /\ SlotSum = CpuSum(online)
        BY <2>1, <3>1, <4>1, <4>2, AllRead
      <4>4. average'.sum["cur"] = SlotSum
        BY <1>0, <3>1, AverageIsSum, FrequenciesArePositive DEF SlotSum
      <4>5. average'.count = readCount
        BY <2>1, <3>1, AverageOfSlots
      <4>6. IsFiniteSet(online) /\ online' = online
        BY <3>1, OnlineCount DEF PyTypeOK, SystemTypeOK, TypeOK
      <4>7. MeansOf(average', online')
        <5>1. SlotSum * readCount = readCount * SlotSum
          <6>1. SlotSum \in Nat
            BY <1>0, <2>1, <3>1, <4>4, AverageOfSlots, FrequenciesArePositive
            DEF Entry
          <6> QED BY <1>0, <6>1
        <5> QED BY <4>3, <4>4, <4>5, <4>6, <5>1 DEF MeansOf
      <4> QED BY <4>6, <4>7, TrueAverage
    <3>3. \A f \in Fields : \E p \in Policies :
            average'.sum[f] <= average'.count * Freq[p][f]
      BY <2>1, <3>1, AverageOfSlots
    <3> QED BY <3>1, <3>2, <3>3 DEF AverageIsSound
  <2>2. CASE ~(HaveFreqs /\ readCount > 0)
    <3>1. average' = Nothing /\ sysStatus' # "NONE"
      BY <1>0, <2>2 DEF Conclude, Calls, HaveFreqs
    <3>2. \A f \in Fields : \E p \in Policies :
            Nothing.sum[f] <= Nothing.count * Freq[p][f]
      <4>1. Policies # {}
        BY PoliciesCoverCpus, CpusAreNumbered
      <4> QED BY <4>1, Entries DEF Nothing
    <3> QED BY <3>1, <3>2 DEF AverageIsSound, Undisturbed
  <2> QED BY <2>1, <2>2
<1>4. Calls' /\ PyPhases' /\ Objects'
  BY OnlineCount, FirstObject DEF Calls, Reading, PyPhases, PyTypeOK,
     SystemTypeOK, TypeOK, Objects, Conclude, HaveFreqs
<1>5. MethodsReturnCleanly' /\ ListsEveryCpu'
  BY <1>1, FirstObject, OnlineCount DEF MethodsReturnCleanly, Objects,
     PyPhases, PyTypeOK, SystemTypeOK, FreqInv, FreqPhases, Calls, Reading,
     ListsEveryCpu, Conclude, HaveFreqs
<1> QED BY <1>1, <1>2, <1>3, <1>4, <1>5

\* The average is returned.
LEMMA SystemReturnsKeeps ==
  ASSUME PyInv, SystemReturns
  PROVE  PyInv'
<1> USE DEF PyInv, vars, freqVars, machine, output, visit, history, sysVars,
           pyVars
<1>1. FreqInv'
  BY FreqStays DEF SystemReturns, Conclusion
<1>2. PyTypeOK'
  <2>1. SystemTypeOK'
    BY <1>1, OnlineCount DEF PyTypeOK, SystemTypeOK, TypeOK, FreqInv, Calls,
       Reading, SystemReturns, Conclusion
  <2>2. Proper(refs', slots')
    BY FirstObject DEF PyTypeOK, Proper, Objects, PyPhases, SystemReturns,
       Conclusion
  <2>3. items' \in 0 .. Max({MaxList, Cardinality(Cpus)})
    BY ItemBound DEF PyTypeOK, SystemTypeOK, SystemReturns, Conclusion
  <2> QED
    <3>1. sysPc = "idle" /\ pc = "idle" /\ sysStatus \in {"NONE", "UNKNOWN",
            "OUT_OF_MEMORY", "FILE_READ", "INVALID_ARGUMENT"}
      BY DEF PyTypeOK, SystemTypeOK, Calls, Reading, SystemReturns
    <3> QED BY <2>1, <2>2, <2>3, <3>1 DEF PyTypeOK, Proper, PyPhases,
               SystemReturns, Conclusion
<1>3. AverageIsSound'
  BY <1>1, AverageStays DEF Undisturbed, Calls, PyTypeOK, SystemTypeOK,
     TypeOK, SystemReturns, Conclusion
<1>4. Calls' /\ PyPhases' /\ Objects'
  BY OnlineCount, FirstObject DEF Calls, Reading, PyPhases, PyTypeOK,
     SystemTypeOK, TypeOK, Objects, SystemReturns, Conclusion
<1>5. MethodsReturnCleanly'
  BY <1>1, FirstObject DEF MethodsReturnCleanly, Objects, PyPhases,
     PyTypeOK, SystemTypeOK, FreqInv, FreqPhases, Calls, Reading,
     SystemReturns, Conclusion
<1>6. ListsEveryCpu'
  BY OnlineCount DEF ListsEveryCpu, PyPhases, PyTypeOK, Objects, Calls,
     SystemReturns, Conclusion
<1> QED BY <1>1, <1>2, <1>3, <1>4, <1>5, <1>6

\* The frequencies are read.
LEMMA ReadEntriesKeeps ==
  ASSUME PyInv, ReadEntries
  PROVE  PyInv'
<1> USE DEF PyInv, vars, freqVars, machine, output, visit, history, sysVars,
           pyVars
<1>1. FreqInv'
  BY FreqSteps DEF ReadEntries
<1>2. PyTypeOK'
  <2>1. SystemTypeOK'
    BY <1>1, OnlineCount DEF PyTypeOK, SystemTypeOK, TypeOK, FreqInv, Calls,
       Reading, ReadEntries
  <2> QED
    BY <2>1, FirstObject, ItemBound DEF PyTypeOK, SystemTypeOK, Proper,
       Objects, PyPhases, Calls, Reading, ReadEntries
<1>3. AverageIsSound'
  BY <1>1, AverageStays DEF Undisturbed, Calls, PyTypeOK, SystemTypeOK,
     TypeOK, ReadEntries
<1>4. Calls' /\ PyPhases' /\ Objects'
  BY <1>1, CallStepIsLocal, OnlineCount, FirstObject DEF Calls, Reading,
     PyPhases, PyTypeOK, SystemTypeOK, TypeOK, Objects, ReadEntries
<1>5. MethodsReturnCleanly' /\ ListsEveryCpu'
  BY <1>1, FirstObject, OnlineCount DEF MethodsReturnCleanly, Objects,
     PyPhases, PyTypeOK, SystemTypeOK, FreqInv, FreqPhases, Calls, Reading,
     ListsEveryCpu, ReadEntries
<1> QED BY <1>1, <1>2, <1>3, <1>4, <1>5

\* They have been read.
LEMMA FreqsReadKeeps ==
  ASSUME PyInv, FreqsRead
  PROVE  PyInv'
<1> USE DEF PyInv, vars, freqVars, machine, output, visit, history, sysVars,
           pyVars
<1>0. /\ Reading /\ readCount \in 0 .. ncpus
      /\ calm => ncpus = Cardinality(online)
      /\ ncpus \in 0 .. Cardinality(Cpus) /\ Cardinality(Cpus) \in Nat
  BY OnlineCount DEF FreqsRead, Reading, Calls, PyTypeOK, SystemTypeOK, TypeOK,
     FreqInv, FreqPhases
<1>a. calm =>
        /\ status = "NONE" /\ kernel # {} => readCount = Cardinality(online)
        /\ status = "MORE_DATA" => route = "policies" /\ ~Numbered
  BY <1>0, AllListed DEF FreqsRead
<1>1. FreqInv'
  BY FreqStays DEF FreqsRead, EntriesRead
<1>2. PyTypeOK'
  <2>1. SystemTypeOK'
    BY <1>1, OnlineCount DEF PyTypeOK, SystemTypeOK, TypeOK, FreqInv, Calls,
       Reading, FreqsRead, EntriesRead
  <2>2. Proper(refs', slots')
    BY FirstObject DEF PyTypeOK, Proper, Objects, PyPhases, FreqsRead,
       EntriesRead
  <2>3. items' \in 0 .. Max({MaxList, Cardinality(Cpus)})
    BY <1>0, ItemBound DEF PyTypeOK, SystemTypeOK, FreqsRead, EntriesRead
  <2> QED
    <3>1. sysPc = "idle" /\ pc = "idle" /\ status \in {"NONE", "MORE_DATA",
            "FILE_READ", "INVALID_ARGUMENT"}
      BY DEF PyTypeOK, SystemTypeOK, FreqInv, TypeOK, FreqsRead
    <3> QED BY <2>1, <2>2, <2>3, <3>1 DEF PyTypeOK, Proper, PyPhases,
               FreqsRead, EntriesRead
<1>3. AverageIsSound'
  BY <1>1, AverageStays DEF Undisturbed, Calls, PyTypeOK, SystemTypeOK,
     TypeOK, FreqsRead, EntriesRead
<1>4. Calls' /\ PyPhases' /\ Objects'
  BY OnlineCount, <1>0, <1>a, FirstObject DEF Calls, Reading, PyPhases,
     PyTypeOK, SystemTypeOK, TypeOK, Objects, FreqsRead, EntriesRead
<1>5. MethodsReturnCleanly'
  BY <1>1, FirstObject DEF MethodsReturnCleanly, Objects, PyPhases,
     PyTypeOK, SystemTypeOK, FreqInv, FreqPhases, Calls, Reading, FreqsRead,
     EntriesRead
<1>6. ListsEveryCpu'
  <2>1. given' = "object" => pyPc' # "returned"
    BY DEF FreqsRead, EntriesRead
  <2>2. exception' = "MORE_DATA" /\ pyPc' = "returned" => status = "MORE_DATA"
    BY DEF FreqsRead, EntriesRead
  <2>3. /\ method = "cpu_freqs" /\ method' = method /\ calm' = calm
        /\ route' = route /\ online' = online
    BY DEF FreqsRead, EntriesRead
  <2> QED BY <1>a, <2>1, <2>2, <2>3 DEF ListsEveryCpu, Numbered
<1> QED BY <1>1, <1>2, <1>3, <1>4, <1>5, <1>6

\* The times are read.
LEMMA TimesReadKeeps ==
  ASSUME PyInv, TimesRead
  PROVE  PyInv'
<1> USE DEF PyInv, vars, freqVars, machine, output, visit, history, sysVars,
           pyVars
<1>0. /\ Cardinality(online) \in 0 .. Cardinality(Cpus)
      /\ ncpus \in 0 .. Cardinality(Cpus)
      /\ calm => TimesFit
  BY OnlineCount DEF PyTypeOK, SystemTypeOK, TypeOK, Calls, TimesRead,
     TimesFit
<1>1. FreqInv'
  BY FreqStays DEF TimesRead, EntriesRead, TimesFit
<1>2. PyTypeOK'
  <2>1. SystemTypeOK'
    BY <1>1, OnlineCount DEF PyTypeOK, SystemTypeOK, TypeOK, FreqInv, Calls,
       Reading, TimesRead, EntriesRead, TimesFit
  <2>2. Proper(refs', slots')
    BY FirstObject DEF PyTypeOK, Proper, Objects, PyPhases, TimesRead,
       EntriesRead, TimesFit
  <2>3. items' \in 0 .. Max({MaxList, Cardinality(Cpus)})
    <3>1. items' \in {Cardinality(online), ncpus, 0}
      BY DEF TimesRead, EntriesRead
    <3> QED BY <1>0, <3>1, ItemBound
  <2> QED
    BY <2>1, <2>2, <2>3 DEF PyTypeOK, Proper, PyPhases, Calls, Reading,
       TimesRead, EntriesRead, TimesFit
<1>3. AverageIsSound'
  BY <1>1, AverageStays DEF Undisturbed, Calls, PyTypeOK, SystemTypeOK,
     TypeOK, TimesRead, EntriesRead, TimesFit
<1>4. Calls' /\ PyPhases' /\ Objects'
  BY OnlineCount, FirstObject DEF Calls, Reading, PyPhases, PyTypeOK,
     SystemTypeOK, TypeOK, Objects, TimesRead, EntriesRead, TimesFit
<1>5. MethodsReturnCleanly'
  BY <1>1, FirstObject DEF MethodsReturnCleanly, Objects, PyPhases,
     PyTypeOK, SystemTypeOK, FreqInv, FreqPhases, Calls, Reading, TimesRead,
     EntriesRead, TimesFit
<1>6. ListsEveryCpu'
  <2>1. given' = "object" => pyPc' # "returned"
    BY DEF TimesRead, EntriesRead
  <2>2. exception' = "MORE_DATA" /\ pyPc' = "returned" => ~TimesFit
    BY DEF TimesRead, EntriesRead
  <2>3. calm' = calm
    BY DEF TimesRead, EntriesRead
  <2> QED BY <1>0, <2>1, <2>2, <2>3 DEF ListsEveryCpu
<1> QED BY <1>1, <1>2, <1>3, <1>4, <1>5, <1>6

\* The list is made.
LEMMA NewListKeeps ==
  ASSUME PyInv, NewList
  PROVE  PyInv'
<1> USE DEF PyInv, vars, freqVars, machine, output, visit, history, sysVars,
           pyVars
<1>1. FreqInv'
  BY FreqStays DEF NewList
<1>2. PyTypeOK'
  <2>1. SystemTypeOK'
    BY <1>1, OnlineCount DEF PyTypeOK, SystemTypeOK, TypeOK, FreqInv, Calls,
       Reading, NewList
  <2> QED
    BY <2>1, FirstObject, ItemBound DEF PyTypeOK, SystemTypeOK, Proper,
       Objects, PyPhases, Calls, Reading, NewList
<1>3. AverageIsSound'
  BY <1>1, AverageStays DEF Undisturbed, Calls, PyTypeOK, SystemTypeOK,
     TypeOK, NewList
<1>4. Calls' /\ PyPhases' /\ Objects'
  BY OnlineCount, FirstObject DEF Calls, Reading, PyPhases, PyTypeOK,
     SystemTypeOK, TypeOK, Objects, NewList
<1>5. MethodsReturnCleanly' /\ ListsEveryCpu'
  BY <1>1, FirstObject, OnlineCount DEF MethodsReturnCleanly, Objects,
     PyPhases, PyTypeOK, SystemTypeOK, FreqInv, FreqPhases, Calls, Reading,
     ListsEveryCpu, NewList
<1> QED BY <1>1, <1>2, <1>3, <1>4, <1>5

\* It gets its next item.
LEMMA AddItemKeeps ==
  ASSUME PyInv, AddItem
  PROVE  PyInv'
<1> USE DEF PyInv, vars, freqVars, machine, output, visit, history, sysVars,
           pyVars
<1>0. PICK n \in 0 .. items : refs = WithItems(n) /\ slots = ListOf(n)
  BY DEF AddItem, Objects
<1>a. items \in Nat /\ n \in Nat /\ NextItem = n + 1
  <2>1. items \in 0 .. Max({MaxList, Cardinality(Cpus)})
    BY DEF PyTypeOK
  <2>2. items \in Nat /\ n \in Nat
    BY <2>1, ItemBound
  <2>3. NextItem = Cardinality(DOMAIN ListOf(n)) + 1
    BY <1>0 DEF NextItem
  <2> QED BY <2>2, <2>3, OneItemMore
<1>b. /\ refs' = WithItems(n + 1) /\ slots' = ListOf(n + 1)
      /\ n + 1 \in 0 .. items' /\ Proper(refs', slots')
  <2>1. refs' = New(WithItems(n), Item(n + 1))
        /\ slots' = With(ListOf(n), n + 1, n + 1)
    <3>1. /\ refs' = New(refs, Item(NextItem))
          /\ slots' = With(slots, NextItem, NextItem)
      BY DEF AddItem
    <3> QED BY <1>0, <1>a, <3>1
  <2>2. n + 1 <= items /\ items' = items
    BY <1>a DEF AddItem
  <2>3. n + 1 \in Nat
    BY <1>a
  <2>4. refs' = WithItems(n + 1) /\ slots' = ListOf(n + 1)
    BY <1>a, <2>1, OneItemMore
  <2>5. Proper(WithItems(n + 1), ListOf(n + 1))
    BY <2>3, OneItemMore
  <2>6. n + 1 \in 0 .. items'
    BY <1>a, <2>2, <2>3
  <2> QED BY <2>4, <2>5, <2>6
<1>1. FreqInv'
  BY FreqStays DEF AddItem, NextItem
<1>2. PyTypeOK'
  <2>1. SystemTypeOK'
    BY <1>1, OnlineCount DEF PyTypeOK, SystemTypeOK, TypeOK, FreqInv, Calls,
       Reading, AddItem, NextItem
  <2>2. Proper(refs', slots')
    BY <1>b
  <2>3. items' \in 0 .. Max({MaxList, Cardinality(Cpus)})
    BY ItemBound DEF PyTypeOK, SystemTypeOK, AddItem, NextItem
  <2> QED
    BY <2>1, <2>2, <2>3 DEF PyTypeOK, Proper, PyPhases, Calls, Reading,
       AddItem, NextItem
<1>3. AverageIsSound'
  BY <1>1, AverageStays DEF Undisturbed, Calls, PyTypeOK, SystemTypeOK,
     TypeOK, AddItem, NextItem
<1>4. Calls' /\ PyPhases'
  BY OnlineCount DEF Calls, Reading, PyPhases, PyTypeOK, SystemTypeOK,
     TypeOK, AddItem, NextItem
<1>5. Objects'
  <2>1. pyPc' = "fill"
    BY DEF AddItem
  <2> QED BY <1>b, <2>1 DEF Objects
<1>6. MethodsReturnCleanly' /\ ListsEveryCpu'
  BY <1>1, FirstObject, OnlineCount DEF MethodsReturnCleanly, Objects,
     PyPhases, PyTypeOK, SystemTypeOK, FreqInv, FreqPhases, Calls, Reading,
     ListsEveryCpu, AddItem, NextItem
<1> QED BY <1>1, <1>2, <1>3, <1>4, <1>5, <1>6

\* There is no next item.
LEMMA AddItemFailsKeeps ==
  ASSUME PyInv, AddItemFails
  PROVE  PyInv'
<1> USE DEF PyInv, vars, freqVars, machine, output, visit, history, sysVars,
           pyVars
<1>0. PICK n \in 0 .. items : refs = WithItems(n) /\ slots = ListOf(n)
  BY DEF AddItemFails, Objects
<1>a. items \in Nat /\ n \in Nat /\ NextItem = n + 1
  <2>1. items \in 0 .. Max({MaxList, Cardinality(Cpus)})
    BY DEF PyTypeOK
  <2>2. items \in Nat /\ n \in Nat
    BY <2>1, ItemBound
  <2>3. NextItem = Cardinality(DOMAIN ListOf(n)) + 1
    BY <1>0 DEF NextItem
  <2> QED BY <2>2, <2>3, OneItemMore
<1>b. refs' = None /\ slots' = None
  BY <1>0, <1>a, ListDropped DEF AddItemFails
<1>1. FreqInv'
  BY FreqStays DEF AddItemFails, NextItem
<1>2. PyTypeOK'
  <2>1. SystemTypeOK'
    BY <1>1, OnlineCount DEF PyTypeOK, SystemTypeOK, TypeOK, FreqInv, Calls,
       Reading, AddItemFails, NextItem
  <2>2. Proper(refs', slots')
    BY <1>b, FirstObject
  <2>3. items' \in 0 .. Max({MaxList, Cardinality(Cpus)})
    BY ItemBound DEF PyTypeOK, SystemTypeOK, AddItemFails, NextItem
  <2> QED
    BY <2>1, <2>2, <2>3 DEF PyTypeOK, Proper, PyPhases, Calls, Reading,
       AddItemFails, NextItem
<1>3. AverageIsSound'
  BY <1>1, AverageStays DEF Undisturbed, Calls, PyTypeOK, SystemTypeOK,
     TypeOK, AddItemFails, NextItem
<1>4. Calls' /\ PyPhases' /\ Objects'
  BY OnlineCount, FirstObject DEF Calls, Reading, PyPhases, PyTypeOK,
     SystemTypeOK, TypeOK, Objects, AddItemFails, NextItem
<1>5. MethodsReturnCleanly' /\ ListsEveryCpu'
  BY <1>1, <1>b, FirstObject, OnlineCount DEF MethodsReturnCleanly, Objects,
     PyPhases, PyTypeOK, SystemTypeOK, FreqInv, FreqPhases, Calls, Reading,
     ListsEveryCpu, AddItemFails, NextItem
<1> QED BY <1>1, <1>2, <1>3, <1>4, <1>5

\* It has them all.
LEMMA ListFilledKeeps ==
  ASSUME PyInv, ListFilled
  PROVE  PyInv'
<1> USE DEF PyInv, vars, freqVars, machine, output, visit, history, sysVars,
           pyVars
<1>0. PICK n \in 0 .. items : refs = WithItems(n) /\ slots = ListOf(n)
  BY DEF ListFilled, Objects
<1>a. items \in Nat /\ n \in Nat /\ NextItem = n + 1
  <2>1. items \in 0 .. Max({MaxList, Cardinality(Cpus)})
    BY DEF PyTypeOK
  <2>2. items \in Nat /\ n \in Nat
    BY <2>1, ItemBound
  <2>3. NextItem = Cardinality(DOMAIN ListOf(n)) + 1
    BY <1>0 DEF NextItem
  <2> QED BY <2>2, <2>3, OneItemMore
<1>b. /\ n = items /\ OnlyTheResult(refs, slots, TRUE)
      /\ DOMAIN slots = 1 .. items
  <2>1. n = items
    BY <1>a DEF ListFilled
  <2>2. /\ OnlyTheResult(WithItems(n), ListOf(n), TRUE)
        /\ DOMAIN ListOf(n) = 1 .. n
    BY <1>a, OneItemMore
  <2> QED BY <1>0, <2>1, <2>2
<1>1. FreqInv'
  BY FreqStays DEF ListFilled, NextItem
<1>2. PyTypeOK'
  <2>1. SystemTypeOK'
    BY <1>1, OnlineCount DEF PyTypeOK, SystemTypeOK, TypeOK, FreqInv, Calls,
       Reading, ListFilled, NextItem
  <2> QED
    BY <2>1, FirstObject, ItemBound DEF PyTypeOK, SystemTypeOK, Proper,
       Objects, PyPhases, Calls, Reading, ListFilled, NextItem
<1>3. AverageIsSound'
  BY <1>1, AverageStays DEF Undisturbed, Calls, PyTypeOK, SystemTypeOK,
     TypeOK, ListFilled, NextItem
<1>4. Calls' /\ PyPhases' /\ Objects'
  BY OnlineCount, FirstObject DEF Calls, Reading, PyPhases, PyTypeOK,
     SystemTypeOK, TypeOK, Objects, ListFilled, NextItem
<1>5. MethodsReturnCleanly' /\ ListsEveryCpu'
  BY <1>b, <1>1 DEF MethodsReturnCleanly, Objects, PyPhases, PyTypeOK,
     SystemTypeOK, FreqInv, FreqPhases, Calls, Reading, ListsEveryCpu,
     ListFilled, NextItem
<1> QED BY <1>1, <1>2, <1>3, <1>4, <1>5

\* The caller drops the result.
LEMMA ReleaseKeeps ==
  ASSUME PyInv, Release
  PROVE  PyInv'
<1> USE DEF PyInv, vars, freqVars, machine, output, visit, history, sysVars,
           pyVars
<1>1. FreqInv'
  BY FreqStays DEF Release
<1>2. PyTypeOK'
  <2>1. SystemTypeOK'
    BY <1>1, OnlineCount DEF PyTypeOK, SystemTypeOK, TypeOK, FreqInv, Calls,
       Reading, Release
  <2> QED
    BY <2>1, FirstObject, ItemBound DEF PyTypeOK, SystemTypeOK, Proper,
       Objects, PyPhases, Calls, Reading, Release
<1>3. AverageIsSound'
  BY <1>1, AverageStays DEF Undisturbed, Calls, PyTypeOK, SystemTypeOK,
     TypeOK, Release
<1>4. Calls' /\ PyPhases' /\ Objects'
  BY OnlineCount, FirstObject DEF Calls, Reading, PyPhases, PyTypeOK,
     SystemTypeOK, TypeOK, Objects, Release
<1>5. MethodsReturnCleanly' /\ ListsEveryCpu'
  BY <1>1, FirstObject, OnlineCount DEF MethodsReturnCleanly, Objects,
     PyPhases, PyTypeOK, SystemTypeOK, FreqInv, FreqPhases, Calls, Reading,
     ListsEveryCpu, Release
<1> QED BY <1>1, <1>2, <1>3, <1>4, <1>5

\* It holds when a program starts.
LEMMA InitHolds == PyInit => PyInv
<1> SUFFICES ASSUME PyInit PROVE PyInv
  OBVIOUS
<1> USE DEF PyInit, SystemInit
<1>1. FreqInv
  BY FreqStarts
<1>2. Nothing.sum \in Entry /\ Nothing.count = 1
  BY Entries DEF Nothing
<1>3. PyTypeOK
  <2>1. 0 \in 0 .. Cardinality(Cpus) /\ 1 \in 1 .. Cardinality(Cpus)
    BY <1>1, OnlineCount DEF FreqInv, TypeOK
  <2>2. SystemTypeOK
    BY <1>1, <1>2, <2>1 DEF SystemTypeOK, FreqInv
  <2>3. items \in 0 .. Max({MaxList, Cardinality(Cpus)})
    BY ItemBound
  <2>4. Proper(refs, slots)
    BY FirstObject
  <2>5. pc = "idle"
    BY DEF Init
  <2> QED BY <2>2, <2>3, <2>4, <2>5 DEF PyTypeOK, Proper
<1>4. AverageIsSound
  <2>1. \A f \in Fields : \E p \in Policies :
          Nothing.sum[f] <= Nothing.count * Freq[p][f]
    <3>1. Policies # {}
      BY PoliciesCoverCpus, CpusAreNumbered
    <3> QED BY <3>1, Entries DEF Nothing
  <2> QED BY <2>1 DEF AverageIsSound, Undisturbed
<1>5. Calls /\ PyPhases /\ Objects /\ MethodsReturnCleanly /\ ListsEveryCpu
  BY DEF Calls, Reading, PyPhases, Objects, MethodsReturnCleanly,
         ListsEveryCpu, Init
<1> QED BY <1>1, <1>3, <1>4, <1>5 DEF PyInv

\* And it holds after every step.
LEMMA StepKeeps == PyInv /\ [PyNext]_allVars => PyInv'
<1> SUFFICES ASSUME PyInv, [PyNext]_allVars PROVE PyInv'
  OBVIOUS
<1>1. CASE Machine
  BY <1>1, SystemHotplugKeeps DEF Machine
<1>2. CASE InSystem
  <2>1. pyPc = "system" /\ SystemStep /\ UNCHANGED pyVars
    BY <1>2 DEF InSystem
  <2> QED BY <2>1, CountLogicalKeeps, AllocateKeeps, AllocateFailsKeeps,
             ReadFreqsKeeps, ConcludeKeeps DEF SystemStep
<1>3. CASE PyNext /\ ~Machine /\ ~InSystem
  BY <1>3, MethodCallKeeps, ParseArgumentsKeeps, NewNumberKeeps,
     CountCpusKeeps, AllocateArrayKeeps, AllocateArrayFailsKeeps,
     CopyItemsKeeps, NewWrapperKeeps, ReadWrapperKeeps, ComputeKeeps,
     CallSystemKeeps, SystemReturnsKeeps, ReadEntriesKeeps, FreqsReadKeeps,
     TimesReadKeeps, NewListKeeps, AddItemKeeps, AddItemFailsKeeps,
     ListFilledKeeps, ReleaseKeeps DEF PyNext
<1>4. CASE UNCHANGED allVars
  <2> USE DEF PyInv, allVars, vars, sysVars, pyVars
  <2>1. FreqInv'
    BY <1>4, FreqStays
  <2>2. AverageIsSound'
    BY <1>4, AverageStays DEF Undisturbed, freqVars, machine, PyTypeOK,
       SystemTypeOK, TypeOK
  <2>3. UNCHANGED <<online, kernel, pc, maxCount, status, route, held, stayed,
                    ever, faults>>
    BY <1>4 DEF freqVars, machine, output, history
  <2>4. PyTypeOK'
    BY <1>4, <2>1, <2>3 DEF PyTypeOK, SystemTypeOK, FreqInv
  <2>5. Calls' /\ PyPhases' /\ Objects'
    BY <1>4, <2>3 DEF Calls, Reading, PyPhases, Objects
  <2>6. MethodsReturnCleanly' /\ ListsEveryCpu'
    BY <1>4, <2>3 DEF MethodsReturnCleanly, ListsEveryCpu, Numbered
  <2> QED BY <2>1, <2>2, <2>4, <2>5, <2>6
<1> QED BY <1>1, <1>2, <1>3, <1>4

-----------------------------------------------------------------------------
\* The inductive invariant holds in every state: it holds at first and every
\* step keeps it.
LEMMA Invariance == PySpec => []PyInv
BY InitHolds, StepKeeps, PTL DEF PySpec

\* Types of the library's and the bindings' variables; the library is idle
\* whenever the method is not in one of its calls.
THEOREM TypeCorrect == PySpec => []PyTypeOK
<1>1. PyInv => PyTypeOK
  BY DEF PyInv
<1> QED BY <1>1, Invariance, PTL

\* A slot is about its own CPU, and nothing of the caller's old memory shows
\* past read_count, however many CPUs, policies and slots there are
\* (src/linux/cpu.c:401-457, 481-515).
THEOREM SlotsAreTrue == PySpec => []SlotsTellTheTruth
<1>1. PyInv => SlotsTellTheTruth
  BY DEF PyInv, FreqInv, Truth
<1> QED BY <1>1, Invariance, PTL

\* No CPU that stayed online is left out silently, and MORE_DATA is no false
\* alarm, whichever CPUs come and go between two system calls
\* (src/linux/cpu.c:407-460, 497-509).
THEOREM NobodyIsLeftOut == PySpec => []NoCpuIsMissing
<1>1. PyInv => NoCpuIsMissing
  BY DEF PyInv, FreqInv, Missing
<1> QED BY <1>1, Invariance, PTL

\* The average is the one of the CPUs online where nothing was disturbed and
\* no number is missing; it is never above the fastest policy, and a call that
\* failed leaves zeroes (src/cpu.c:95-167, src/linux/cpu.c:389-518).
THEOREM AverageHolds == PySpec => []AverageIsSound
<1>1. PyInv => AverageIsSound
  BY DEF PyInv
<1> QED BY <1>1, Invariance, PTL

\* On every path of every method references, array and streams are given
\* back, and NULL comes with an exception (bindings/python/src/cpu.c:120-474,
\* mem.c:107-239, error.c:4-43).
THEOREM MethodsAreClean == PySpec => []MethodsReturnCleanly
<1>1. PyInv => MethodsReturnCleanly
  BY DEF PyInv
<1> QED BY <1>1, Invariance, PTL

\* A list has an item for every entry read, one for every CPU if nothing was
\* disturbed (bindings/python/src/cpu.c:150-205, 338-392).
THEOREM ListsAreComplete == PySpec => []ListsEveryCpu
<1>1. PyInv => ListsEveryCpu
  BY DEF PyInv
<1> QED BY <1>1, Invariance, PTL

-----------------------------------------------------------------------------
\* Calls return

CpusAfter(n) == {c \in Cpus : c > n}
PerPolicy == 3 + Cardinality(Fields) + Cardinality(Cpus)
Unvisited == 1 + PerPolicy * Cardinality(todo)

\* How many steps of its own a call for the frequencies takes from here at
\* most: a policy takes one to open, one for each file, one to read the list
\* of its CPUs, one for each of them and one to close; cpuinfo one for each
\* block there can be.
StepsLeft ==
  CASE pc = "idle" -> 0
    [] pc = "nextPolicy" -> Unvisited
    [] pc = "fill" -> Unvisited + 1 + Cardinality(affected)
    [] pc = "readFields" ->
         Unvisited + 2 + Cardinality(Cpus) + Cardinality(fieldsTodo)
    [] pc = "nextBlock" -> 1 + Cardinality(CpusAfter(cursor))
    [] pc = "cpuinfo" -> 2 + Cardinality(Cpus)
    [] pc = "glob" ->
         3 + Cardinality(Cpus) + PerPolicy * Cardinality(Policies)

\* A part of a finite set has no more members, and one less without one.
LEMMA PartsAreCounted ==
  ASSUME NEW S, IsFiniteSet(S), NEW T \in SUBSET S
  PROVE  /\ Cardinality(S) \in Nat
         /\ Cardinality(T) \in Nat
         /\ Cardinality(T) <= Cardinality(S)
         /\ \A x \in T : Cardinality(T \ {x}) = Cardinality(T) - 1
<1>1. IsFiniteSet(T) /\ Cardinality(T) <= Cardinality(S)
  BY FS_Subset
<1>2. \A x \in T : Cardinality(T \ {x}) = Cardinality(T) - 1
  BY <1>1, FS_RemoveElement
<1> QED BY <1>1, <1>2, FS_CardinalityType

\* What StepsLeft is made of are numbers.
LEMMA CountsAreNumbers ==
  ASSUME TypeOK
  PROVE  /\ Cardinality(Fields) \in Nat /\ Cardinality(Cpus) \in Nat
         /\ Cardinality(Policies) \in Nat /\ PerPolicy \in Nat
         /\ Cardinality(todo) \in Nat /\ Unvisited \in Nat /\ Unvisited > 0
         /\ Cardinality(affected) \in Nat
         /\ Cardinality(affected) <= Cardinality(Cpus)
         /\ Cardinality(fieldsTodo) \in Nat
         /\ Cardinality(CpusAfter(cursor)) \in Nat
         /\ Cardinality(CpusAfter(cursor)) <= Cardinality(Cpus)
<1>1. /\ IsFiniteSet(Cpus) /\ IsFiniteSet(Fields) /\ IsFiniteSet(Policies)
      /\ todo \in SUBSET Policies /\ fieldsTodo \in SUBSET Fields
      /\ affected \in SUBSET Cpus
      /\ CpusAfter(cursor) \in SUBSET Cpus
  BY CpusAreNumbered, FieldsAreFinite, PoliciesCoverCpus DEF TypeOK, CpusAfter
<1>2. /\ Cardinality(Fields) \in Nat /\ Cardinality(Cpus) \in Nat
      /\ Cardinality(Policies) \in Nat /\ Cardinality(todo) \in Nat
      /\ Cardinality(affected) \in Nat
      /\ Cardinality(affected) <= Cardinality(Cpus)
      /\ Cardinality(fieldsTodo) \in Nat
      /\ Cardinality(CpusAfter(cursor)) \in Nat
      /\ Cardinality(CpusAfter(cursor)) <= Cardinality(Cpus)
  BY <1>1, PartsAreCounted
<1>3. PerPolicy \in Nat
  BY <1>2 DEF PerPolicy
<1>4. PerPolicy * Cardinality(todo) \in Nat
  BY <1>2, <1>3
<1> QED BY <1>2, <1>3, <1>4 DEF Unvisited

\* Every step of a call leaves fewer.
LEMMA StepsFall ==
  ASSUME FreqInv, CallStep
  PROVE  StepsLeft' < StepsLeft
<1>0. TypeOK /\ TypeOK'
  BY FreqSteps DEF FreqInv
<1> USE DEF machine, output, visit, history
<1>1. /\ Cardinality(Cpus) \in Nat
      /\ PerPolicy \in Nat /\ Unvisited \in Nat /\ Unvisited > 0
      /\ Cardinality(affected) \in Nat /\ Cardinality(fieldsTodo) \in Nat
      /\ Cardinality(Fields) \in Nat /\ Cardinality(todo) \in Nat
      /\ Cardinality(CpusAfter(cursor)) \in Nat
  BY <1>0, CountsAreNumbers
<1>2. /\ Cardinality(affected') \in Nat
      /\ Cardinality(affected') <= Cardinality(Cpus)
      /\ Cardinality(fieldsTodo') \in Nat
      /\ Cardinality(CpusAfter(cursor')) \in Nat
      /\ Cardinality(CpusAfter(cursor')) <= Cardinality(Cpus)
  <2>1. /\ IsFiniteSet(Cpus) /\ IsFiniteSet(Fields)
        /\ affected' \in SUBSET Cpus /\ fieldsTodo' \in SUBSET Fields
        /\ CpusAfter(cursor') \in SUBSET Cpus
    BY <1>0, CpusAreNumbered, FieldsAreFinite DEF TypeOK, CpusAfter
  <2> QED BY <2>1, PartsAreCounted
<1>3. CASE Glob
  <2>1. Cardinality(Policies) \in Nat /\ PerPolicy * Cardinality(Policies) \in Nat
    BY <1>0, CountsAreNumbers
  <2>2. /\ pc = "glob"
        /\ (pc' = "nextPolicy" /\ todo' = Policies) \/ pc' = "cpuinfo"
    BY <1>3 DEF Glob
  <2> QED BY <1>1, <2>1, <2>2 DEF StepsLeft, Unvisited
<1>4. ASSUME NEW p \in Policies, OpenAffected(p) PROVE StepsLeft' < StepsLeft
  <2>1. /\ pc = "nextPolicy" /\ pc' = "readFields"
        /\ p \in todo /\ todo' = todo \ {p} /\ fieldsTodo' = Fields
    BY <1>4 DEF OpenAffected
  <2>2. Cardinality(todo') = Cardinality(todo) - 1
    BY <1>0, <2>1, PoliciesCoverCpus, PartsAreCounted DEF TypeOK
  <2>3. PerPolicy * Cardinality(todo') = PerPolicy * Cardinality(todo) - PerPolicy
    BY <1>1, <2>2
  <2>4. PerPolicy * Cardinality(todo) \in Nat
    BY <1>1
  <2>5. /\ StepsLeft = 1 + PerPolicy * Cardinality(todo)
        /\ StepsLeft' = 1 + PerPolicy * Cardinality(todo') + 2
                         + Cardinality(Cpus) + Cardinality(Fields)
    BY <2>1 DEF StepsLeft, Unvisited, PerPolicy
  <2>6. PerPolicy = 3 + Cardinality(Fields) + Cardinality(Cpus)
    BY DEF PerPolicy
  <2> HIDE DEF PerPolicy
  <2> QED BY <1>1, <2>3, <2>4, <2>5, <2>6
<1>5. CASE OpenAffectedFails
  BY <1>1, <1>5 DEF OpenAffectedFails, StepsLeft
<1>6. ASSUME NEW f \in Fields, ReadField(f) PROVE StepsLeft' < StepsLeft
  <2>1. /\ pc = "readFields" /\ UNCHANGED <<pc, todo>>
        /\ f \in fieldsTodo /\ fieldsTodo' = fieldsTodo \ {f}
    BY <1>6 DEF ReadField
  <2>2. Cardinality(fieldsTodo') = Cardinality(fieldsTodo) - 1
    BY <1>0, <2>1, FieldsAreFinite, PartsAreCounted DEF TypeOK
  <2> QED BY <1>1, <2>1, <2>2 DEF StepsLeft, Unvisited
<1>7. CASE ReadAffected
  <2>1. /\ pc = "readFields" /\ pc' = "fill" /\ UNCHANGED todo
    BY <1>7 DEF ReadAffected
  <2> QED BY <1>1, <1>2, <2>1 DEF StepsLeft, Unvisited
<1>8. CASE FillSlot
  <2>1. /\ pc = "fill" /\ affected # {} /\ UNCHANGED <<pc, todo>>
        /\ affected' = affected \ {MinOf(affected)}
    BY <1>8 DEF FillSlot
  <2>2. MinOf(affected) \in affected
    BY <1>0, <2>1, MinOfIsLeast DEF TypeOK
  <2>3. Cardinality(affected') = Cardinality(affected) - 1
    BY <1>0, <2>1, <2>2, CpusAreNumbered, PartsAreCounted DEF TypeOK
  <2> QED BY <1>1, <2>1, <2>3 DEF StepsLeft, Unvisited
<1>9. CASE FillEnds
  <2>1. pc = "fill" /\ pc' = "nextPolicy" /\ UNCHANGED todo
    BY <1>9 DEF FillEnds
  <2> QED BY <1>1, <2>1 DEF StepsLeft, Unvisited
<1>10. CASE PoliciesDone
  BY <1>1, <1>10 DEF PoliciesDone, StepsLeft
<1>11. CASE OpenCpuinfo
  BY <1>1, <1>2, <1>11 DEF OpenCpuinfo, StepsLeft
<1>12. CASE OpenCpuinfoFails
  BY <1>1, <1>12 DEF OpenCpuinfoFails, StepsLeft
<1>13. CASE NextBlock
  <2>1. /\ pc = "nextBlock" /\ pc' \in {"nextBlock", "idle"}
        /\ LaterCpus # {} /\ cursor' = MinOf(LaterCpus)
    BY <1>13 DEF NextBlock
  <2>2. /\ cursor' \in CpusAfter(cursor)
        /\ CpusAfter(cursor') \subseteq CpusAfter(cursor) \ {cursor'}
    <3>1. cursor' \in Cpus /\ cursor' > cursor
      BY <1>0, <2>1, MinOfIsLeast DEF LaterCpus, TypeOK
    <3>2. \A c \in Cpus : c > cursor' => c > cursor /\ c # cursor'
      BY <1>0, <3>1, CpusAreNumbered DEF TypeOK
    <3> QED BY <3>1, <3>2 DEF CpusAfter
  <2>3. /\ IsFiniteSet(Cpus) /\ CpusAfter(cursor) \in SUBSET Cpus
        /\ CpusAfter(cursor) \ {cursor'} \in SUBSET Cpus
    BY CpusAreNumbered DEF CpusAfter
  <2>4. /\ IsFiniteSet(CpusAfter(cursor) \ {cursor'})
        /\ Cardinality(CpusAfter(cursor) \ {cursor'})
              = Cardinality(CpusAfter(cursor)) - 1
    BY <2>2, <2>3, PartsAreCounted, FS_Subset
  <2>5. Cardinality(CpusAfter(cursor'))
          <= Cardinality(CpusAfter(cursor)) - 1
    BY <2>2, <2>4, PartsAreCounted
  <2> QED BY <1>1, <1>2, <2>1, <2>5 DEF StepsLeft
<1>14. CASE CpuinfoEnds
  BY <1>1, <1>14 DEF CpuinfoEnds, StepsLeft
<1> QED BY <1>3, <1>4, <1>5, <1>6, <1>7, <1>8, <1>9, <1>10, <1>11, <1>12,
           <1>13, <1>14 DEF CallStep

\* A call for the frequencies returns after a number of its own steps that the
\* CPUs, policies and files bound, whichever CPUs come and go meanwhile, be it
\* called from the binding or for the average: one of its steps leaves fewer,
\* a hotplug as many as before (src/linux/cpu.c:389-518).
THEOREM FreqsReturnInTime ==
  PySpec => /\ [](StepsLeft \in Nat /\ (StepsLeft = 0 <=> pc = "idle"))
            /\ [][/\ CallStep => StepsLeft' < StepsLeft
                  /\ Hotplug => StepsLeft' = StepsLeft]_allVars
<1>1. ASSUME PyInv
      PROVE  StepsLeft \in Nat /\ (StepsLeft = 0 <=> pc = "idle")
  <2>1. TypeOK
    BY <1>1 DEF PyInv, FreqInv
  <2>2. PerPolicy * Cardinality(Policies) \in Nat
    BY <2>1, CountsAreNumbers
  <2>3. pc \in {"idle", "glob", "nextPolicy", "readFields", "fill", "cpuinfo",
                "nextBlock"}
    BY <2>1 DEF TypeOK
  <2>4. /\ Cardinality(Cpus) \in Nat /\ Unvisited \in Nat /\ Unvisited > 0
        /\ Cardinality(affected) \in Nat /\ Cardinality(fieldsTodo) \in Nat
        /\ Cardinality(CpusAfter(cursor)) \in Nat
    BY <2>1, CountsAreNumbers
  <2> QED BY <2>2, <2>3, <2>4 DEF StepsLeft
<1>2. ASSUME Hotplug PROVE StepsLeft' = StepsLeft
  <2>1. UNCHANGED <<pc, todo, affected, fieldsTodo, cursor>>
    BY <1>2 DEF Hotplug, GoOffline, GoOnline, visit
  <2> QED BY <2>1 DEF StepsLeft, Unvisited, CpusAfter
<1>3. PyInv => StepsLeft \in Nat /\ (StepsLeft = 0 <=> pc = "idle")
  BY <1>1
<1>4. PyInv /\ [PyNext]_allVars =>
        [/\ CallStep => StepsLeft' < StepsLeft
         /\ Hotplug => StepsLeft' = StepsLeft]_allVars
  BY <1>2, StepsFall DEF PyInv
<1> QED BY <1>3, <1>4, Invariance, PTL DEF PySpec
=============================================================================
