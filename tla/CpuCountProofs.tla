--------------------------- MODULE CpuCountProofs ---------------------------
(***************************************************************************)
(* For any machine, however its CPUs come and go and whatever fails: the   *)
(* physical core count leaves nothing behind, and both counts are          *)
(* bracketed by what stayed online and what was online at some moment and  *)
(* return after a bounded number of their own steps.                       *)
(***************************************************************************)
EXTENDS CpuCountPhysical, CpuCountLogical, FiniteSetTheorems,
        NaturalsInduction, WellFoundedInduction, TLAPS

-----------------------------------------------------------------------------
\* The physical count

\* Where a call is.
InTopology == {"nextCpu", "openPackageId", "readCoreId", "readPackageId"}
InCpuinfo == {"nextBlock", "ids", "physicalId", "coreId"}
AtEnd == {"tally", "verdict"}
ByGlob == {"glob", "list"}
ByCpuinfo == {"cpuinfo", "list"}

\* What is open, held and listed at each point of a call.
Phases ==
  /\ pc \in {"idle", "glob", "cpuinfo"} => held = {} /\ seen = {}
  /\ pc \in InTopology => held = ByGlob
  /\ pc \in InCpuinfo => held = ByCpuinfo
  /\ pc \in AtEnd => held \in {ByGlob, ByCpuinfo}
  /\ coreFile # "closed" =>
       pc \in {"openPackageId", "readCoreId", "readPackageId"}
  /\ packageFile # "closed" => pc \in {"readCoreId", "readPackageId"}
  /\ IF pc = "verdict" THEN reported = Cardinality(seen)
                       ELSE reported = Unknown

\* A pending id is that of a CPU that was online during the call.
Honest ==
  /\ online \subseteq ever
  /\ stayed \subseteq online
  /\ coreFile = "open" \/ packageFile = "open" => cpu \in online
  /\ pc = "readPackageId" => cpu \in ever /\ coreId = Parsed(Core[cpu])
  /\ pc \in {"ids", "physicalId", "coreId"} => cpu \in ever
  /\ pc = "physicalId" => coreId = Parsed(Core[cpu])
  /\ pc = "coreId" => packageId = Parsed(Package[cpu])

\* Where a CPU is that stayed online and whose key is not in the list yet.
Ahead(c) ==
  \/ pc \in InTopology /\ c \in todo
  \/ pc \in {"openPackageId", "readCoreId", "readPackageId"} /\ c = cpu
  \/ pc \in InCpuinfo /\ c > cpu
  \/ pc \in {"ids", "physicalId", "coreId"} /\ c = cpu

\* As long as nothing failed, nothing that stayed is lost, and the second
\* route ends with a key.
Complete ==
  ~faults =>
    /\ pc \in InTopology \/ (pc \in AtEnd /\ held = ByGlob)
         => \A c \in stayed : Ahead(c) \/ KeyOf(c) \in seen
    /\ listsIds /\ (pc \in InCpuinfo \/ (pc \in AtEnd /\ held = ByCpuinfo))
         => /\ \A c \in stayed : Ahead(c) \/ KeyOf(c) \in seen
            /\ pc \in AtEnd => seen # {}
            /\ pc = "nextBlock" => cpu = NoCpu \/ seen # {}
    /\ cpu \in stayed /\ pc \in {"openPackageId", "readCoreId",
                                 "readPackageId"} => coreFile = "open"
    /\ cpu \in stayed /\ pc \in {"readCoreId", "readPackageId"} =>
         packageFile = "open"

IInv == TypeOK /\ CountIsBracketed /\ Phases /\ Honest /\ Complete

-----------------------------------------------------------------------------
\* Sets of cores are finite, and fewer CPUs have no more cores.
LEMMA CoresAreFinite ==
  ASSUME NEW S \in SUBSET Cpus, NEW T \in SUBSET S
  PROVE  /\ IsFiniteSet(Cores(S))
         /\ Cardinality(Cores(S)) \in Nat
         /\ Cores(T) \subseteq Cores(S)
         /\ Cardinality(Cores(T)) <= Cardinality(Cores(S))
<1>1. IsFiniteSet(S)
  BY CpusAreNumbered, FS_Subset
<1> DEFINE f == [c \in S |-> KeyOf(c)]
<1>2. f \in Surjection(S, Cores(S))
  BY DEF Surjection, Cores
<1>3. IsFiniteSet(Cores(S))
  BY <1>1, <1>2, FS_Surjection
<1>4. Cores(T) \subseteq Cores(S)
  BY DEF Cores
<1> QED BY <1>3, <1>4, FS_Subset, FS_CardinalityType

\* What is parsed fits a size_t.
LEMMA ParsedFits ==
  ASSUME NEW c \in Cpus
  PROVE  /\ Parsed(Core[c]) \in 0 .. SizeMax
         /\ Parsed(Package[c]) \in 0 .. SizeMax
         /\ KeyOf(c) \in Key
<1>1. \A v \in Int : Parsed(v) \in 0 .. SizeMax
  BY SizeMaxIsNatural DEF Parsed
<1> QED BY <1>1, IdsAreIntegers DEF KeyOf, Key

LEMMA InitOK == ASSUME Init PROVE IInv
<1> USE DEF Init, List!Init
<1>1. TypeOK
  BY CpusAreNumbered, SizeMaxIsNatural, BoundIsNatural
     DEF TypeOK, Streams, NoId, NoCpu
<1>2. CountIsBracketed
  <2>1. Cardinality(Cores(ever)) \in Nat
    BY CoresAreFinite
  <2> QED BY <2>1 DEF CountIsBracketed
<1>3. Phases /\ Honest /\ Complete
  BY DEF Phases, Honest, Complete, InTopology, InCpuinfo, AtEnd
<1> QED BY <1>1, <1>2, <1>3 DEF IInv

\* What the list holds at any time can be counted.
LEMMA SeenIsFinite ==
  ASSUME TypeOK, CountIsBracketed
  PROVE  /\ IsFiniteSet(seen) /\ Cardinality(seen) \in Nat
         /\ Cardinality(seen) <= Cardinality(Cores(ever))
         /\ seen # {} => Cardinality(seen) > 0
<1>1. IsFiniteSet(Cores(ever)) /\ seen \subseteq Cores(ever)
  BY CoresAreFinite DEF TypeOK, CountIsBracketed
<1>2. IsFiniteSet(seen) /\ Cardinality(seen) <= Cardinality(Cores(ever))
  BY <1>1, FS_Subset
<1> QED BY <1>2, FS_CardinalityType, FS_EmptySet

\* CPUs that come and go.
LEMMA HotplugOK ==
  ASSUME IInv, Hotplug
  PROVE  IInv'
<1> USE DEF IInv, InTopology, InCpuinfo, AtEnd, ByGlob, ByCpuinfo, NoId, NoCpu,
           machine, files, list, history
<1>1. ASSUME NEW c \in Cpus, GoOffline(c) PROVE IInv'
  <2>1. TypeOK'
    BY <1>1, BoundIsNatural DEF TypeOK, Streams, GoOffline, CpuLeaves,
       AfterOffline
  <2>2. Phases' /\ Honest'
    BY <1>1 DEF TypeOK, Phases, Honest, GoOffline, CpuLeaves, AfterOffline
  <2>3. Complete'
    BY <1>1 DEF TypeOK, Phases, Honest, Complete, Ahead, KeyOf,
             GoOffline, CpuLeaves, AfterOffline
  <2>4. CountIsBracketed'
    <3>1. Cardinality(Cores(stayed')) <= Cardinality(Cores(stayed))
      BY <1>1, CoresAreFinite DEF TypeOK, GoOffline, CpuLeaves
    <3>2. /\ Cardinality(Cores(stayed')) \in Nat
          /\ Cardinality(Cores(stayed)) \in Nat
      BY <1>1, CoresAreFinite DEF TypeOK, GoOffline, CpuLeaves
    <3> QED BY <1>1, <3>1, <3>2 DEF TypeOK, CountIsBracketed, GoOffline,
       CpuLeaves
  <2> QED BY <2>1, <2>2, <2>3, <2>4
<1>2. ASSUME NEW c \in Cpus, GoOnline(c) PROVE IInv'
  <2>1. TypeOK'
    <3>1. hotplugs' \in 0 .. MaxHotplug /\ online' \in (SUBSET Cpus) \ {{}}
      BY <1>2, BoundIsNatural DEF TypeOK, GoOnline, CpuComes
    <3>2. ever' \subseteq Cpus /\ stayed' \subseteq ever'
      BY <1>2 DEF TypeOK, GoOnline, CpuComes
    <3> QED BY <1>2, <3>1, <3>2 DEF TypeOK, GoOnline, CpuComes
  <2>2. Phases' /\ Honest'
    BY <1>2 DEF TypeOK, Phases, Honest, GoOnline, CpuComes
  <2>3. Complete'
    BY <1>2 DEF TypeOK, Phases, Honest, Complete, Ahead, KeyOf,
             GoOnline, CpuComes
  <2>4. CountIsBracketed'
    <3>1. /\ Cores(ever) \subseteq Cores(ever')
          /\ Cardinality(Cores(ever)) <= Cardinality(Cores(ever'))
          /\ Cardinality(Cores(ever)) \in Nat
          /\ Cardinality(Cores(ever')) \in Nat
      BY <1>2, CoresAreFinite DEF TypeOK, GoOnline, CpuComes
    <3>2. UNCHANGED <<seen, stayed, pc, faults, listsIds, result>>
      BY <1>2 DEF GoOnline, CpuComes
    <3>3. pc = "idle" => result <= Cardinality(Cores(ever'))
      BY <3>1 DEF TypeOK, CountIsBracketed
    <3> QED BY <3>1, <3>2, <3>3 DEF CountIsBracketed
  <2> QED BY <2>1, <2>2, <2>3, <2>4
<1> QED BY <1>1, <1>2 DEF Hotplug

\* The call, and the topology files of one CPU after the other.
LEMMA TopologyOK ==
  ASSUME IInv, \/ Call \/ Glob \/ \E c \in Cpus : OpenCoreId(c)
               \/ OpenPackageId \/ SkipCpu \/ ReadCoreId \/ ReadPackageId
               \/ ReadCoreIdFails \/ ReadPackageIdFails \/ TopologyDone
  PROVE  IInv'
<1> USE DEF IInv, InTopology, InCpuinfo, AtEnd, ByGlob, ByCpuinfo, NoId, NoCpu,
           machine, files, list, history
<1>1. CASE Call
  <2>1. TypeOK'
    BY <1>1 DEF TypeOK, Streams, Call
  <2>2. Phases' /\ Honest'
    BY <1>1 DEF TypeOK, Phases, Honest, Call
  <2>3. Complete'
    BY <1>1 DEF TypeOK, Phases, Honest, Complete, Ahead, KeyOf,
             Call
  <2>4. CountIsBracketed'
    BY <1>1 DEF Phases, CountIsBracketed, Call
  <2> QED BY <2>1, <2>2, <2>3, <2>4
<1>2. CASE Glob
  <2>1. TypeOK'
    BY <1>2 DEF TypeOK, Streams, Glob
  <2>2. Phases' /\ Honest'
    BY <1>2 DEF TypeOK, Phases, Honest, Glob
  <2>3. Complete'
    BY <1>2 DEF TypeOK, Phases, Honest, Complete, Ahead, KeyOf,
             Glob
  <2>4. CountIsBracketed'
    BY <1>2 DEF Phases, CountIsBracketed, Glob
  <2> QED BY <2>1, <2>2, <2>3, <2>4
<1>3. ASSUME NEW c \in Cpus, OpenCoreId(c) PROVE IInv'
  <2>1. TypeOK'
    BY <1>3 DEF TypeOK, Streams, OpenCoreId, Opened
  <2>2. Phases' /\ Honest'
    BY <1>3 DEF TypeOK, Phases, Honest, OpenCoreId, Opened
  <2>3. Complete'
    BY <1>3 DEF TypeOK, Phases, Honest, Complete, Ahead, KeyOf,
             OpenCoreId, Opened
  <2>4. CountIsBracketed'
    BY <1>3 DEF Phases, CountIsBracketed, OpenCoreId, Opened
  <2> QED BY <2>1, <2>2, <2>3, <2>4
<1>4. CASE OpenPackageId
  <2>1. TypeOK'
    BY <1>4 DEF TypeOK, Streams, OpenPackageId, Opened
  <2>2. Phases' /\ Honest'
    BY <1>4 DEF TypeOK, Phases, Honest, OpenPackageId, Opened
  <2>3. Complete'
    BY <1>4 DEF TypeOK, Phases, Honest, Complete, Ahead, KeyOf,
             OpenPackageId, Opened
  <2>4. CountIsBracketed'
    BY <1>4 DEF Phases, CountIsBracketed, OpenPackageId, Opened
  <2> QED BY <2>1, <2>2, <2>3, <2>4
<1>5. CASE SkipCpu
  <2>1. TypeOK'
    BY <1>5 DEF TypeOK, Streams, SkipCpu, CloseFiles, BothOpened
  <2>2. Phases' /\ Honest'
    BY <1>5 DEF TypeOK, Phases, Honest, SkipCpu, CloseFiles, BothOpened
  <2>3. Complete'
    BY <1>5 DEF TypeOK, Phases, Honest, Complete, Ahead, KeyOf,
             SkipCpu, CloseFiles, BothOpened
  <2>4. CountIsBracketed'
    BY <1>5 DEF Phases, CountIsBracketed, SkipCpu, CloseFiles, BothOpened
  <2> QED BY <2>1, <2>2, <2>3, <2>4
<1>6. CASE ReadCoreId
  <2>1. TypeOK'
    <3>1. cpu \in Cpus
      BY <1>6 DEF TypeOK, Honest, ReadCoreId
    <3> QED BY <1>6, <3>1, ParsedFits DEF TypeOK, Streams, ReadCoreId
  <2>2. Phases' /\ Honest'
    BY <1>6 DEF TypeOK, Phases, Honest, ReadCoreId, BothOpened
  <2>3. Complete'
    BY <1>6 DEF TypeOK, Phases, Honest, Complete, Ahead, KeyOf,
             ReadCoreId, BothOpened
  <2>4. CountIsBracketed'
    BY <1>6 DEF Phases, CountIsBracketed, ReadCoreId, BothOpened
  <2> QED BY <2>1, <2>2, <2>3, <2>4
<1>7. CASE ReadPackageId
  <2>1. TypeOK'
    <3>1. cpu \in Cpus /\ <<Parsed(Package[cpu]), coreId>> = KeyOf(cpu)
      BY <1>7 DEF TypeOK, Honest, KeyOf, ReadPackageId
    <3> QED BY <1>7, <3>1, ParsedFits
           DEF TypeOK, Streams, ReadPackageId, CloseFiles, Add, List!Accept
  <2>2. Phases' /\ Honest'
    BY <1>7 DEF TypeOK, Phases, Honest, ReadPackageId, CloseFiles, Add,
             List!Accept
  <2>3. Complete'
    BY <1>7 DEF TypeOK, Phases, Honest, Complete, Ahead, KeyOf,
             ReadPackageId, CloseFiles, Add,
             List!Accept
  <2>4. CountIsBracketed'
    BY <1>7 DEF Honest, CountIsBracketed, KeyOf, Cores, ReadPackageId,
             CloseFiles, Add, List!Accept
  <2> QED BY <2>1, <2>2, <2>3, <2>4
<1>8. CASE ReadCoreIdFails
  <2>1. TypeOK'
    BY <1>8 DEF TypeOK, Streams, ReadCoreIdFails,
             BothOpened, ReadIdFails, CloseFiles
  <2>2. Phases' /\ Honest'
    BY <1>8 DEF TypeOK, Phases, Honest, ReadCoreIdFails,
             BothOpened, ReadIdFails, CloseFiles
  <2>3. Complete'
    BY <1>8 DEF TypeOK, Phases, Honest, Complete, Ahead, KeyOf,
             ReadCoreIdFails,
             BothOpened, ReadIdFails, CloseFiles
  <2>4. CountIsBracketed'
    BY <1>8 DEF Phases, CountIsBracketed, ReadCoreIdFails,
             BothOpened, ReadIdFails, CloseFiles
  <2> QED BY <2>1, <2>2, <2>3, <2>4
<1>9. CASE ReadPackageIdFails
  <2>1. TypeOK'
    BY <1>9 DEF TypeOK, Streams, ReadPackageIdFails,
             ReadIdFails, CloseFiles
  <2>2. Phases' /\ Honest'
    BY <1>9 DEF TypeOK, Phases, Honest, ReadPackageIdFails,
             ReadIdFails, CloseFiles
  <2>3. Complete'
    BY <1>9 DEF TypeOK, Phases, Honest, Complete, Ahead, KeyOf,
             ReadPackageIdFails,
             ReadIdFails, CloseFiles
  <2>4. CountIsBracketed'
    BY <1>9 DEF Phases, CountIsBracketed, ReadPackageIdFails,
             ReadIdFails, CloseFiles
  <2> QED BY <2>1, <2>2, <2>3, <2>4
<1>10. CASE TopologyDone
  <2>1. TypeOK'
    BY <1>10 DEF TypeOK, Streams, TopologyDone
  <2>2. Phases' /\ Honest'
    BY <1>10 DEF TypeOK, Phases, Honest, TopologyDone
  <2>3. Complete'
    BY <1>10 DEF TypeOK, Phases, Honest, Complete, Ahead, KeyOf,
             TopologyDone
  <2>4. CountIsBracketed'
    BY <1>10 DEF Phases, CountIsBracketed, TopologyDone
  <2> QED BY <2>1, <2>2, <2>3, <2>4
<1> QED BY <1>1, <1>2, <1>3, <1>4, <1>5, <1>6, <1>7, <1>8, <1>9, <1>10

\* The blocks of /proc/cpuinfo.
LEMMA CpuinfoOK ==
  ASSUME IInv, \/ OpenCpuinfo \/ NextBlock \/ PhysicalIdLine \/ CoreIdLine
               \/ CpuinfoEnds \/ CpuinfoReadFails
  PROVE  IInv'
<1> USE DEF IInv, InTopology, InCpuinfo, AtEnd, ByGlob, ByCpuinfo, NoId, NoCpu,
           machine, files, list, history
<1>1. CASE OpenCpuinfo
  <2>1. TypeOK'
    <3>1. /\ held' \subseteq {"glob", "cpuinfo", "list"}
          /\ cpu' \in Cpus \cup {NoCpu}
      BY <1>1 DEF TypeOK, OpenCpuinfo
    <3>2. result' \in Nat
      BY <1>1 DEF TypeOK, OpenCpuinfo
    <3>3. faults' \in BOOLEAN
      BY <1>1, Zenon DEF TypeOK, OpenCpuinfo
    <3> QED BY <1>1, <3>1, <3>2, <3>3 DEF TypeOK, OpenCpuinfo
  <2>2. Phases' /\ Honest'
    BY <1>1 DEF TypeOK, Phases, Honest, OpenCpuinfo
  <2>3. Complete'
    <3>1. \A c \in stayed : c > NoCpu
      BY CpusAreNumbered DEF TypeOK
    <3> QED BY <1>1, <3>1 DEF Phases, Complete, Ahead, KeyOf, OpenCpuinfo
  <2>4. CountIsBracketed'
    <3>1. Cardinality(Cores(ever)) \in Nat
      BY CoresAreFinite DEF TypeOK
    <3> QED BY <1>1, <3>1 DEF CountIsBracketed, OpenCpuinfo
  <2> QED BY <2>1, <2>2, <2>3, <2>4
<1>2. CASE NextBlock
  <2>1. TypeOK'
    BY <1>2 DEF TypeOK, Streams, NextBlock, LaterCpus
  <2>2. Phases' /\ Honest'
    BY <1>2 DEF TypeOK, Phases, Honest, NextBlock, LaterCpus
  <2>3. Complete'
    <3>1. \A c \in stayed : c > cpu => c = cpu' \/ c > cpu'
      BY <1>2, CpusAreNumbered DEF TypeOK, Honest, NextBlock, LaterCpus
    <3>2. listsIds => pc' = "ids"
      BY <1>2 DEF NextBlock
    <3> QED BY <1>2, <3>1, <3>2
           DEF TypeOK, Phases, Complete, Ahead, KeyOf, NextBlock
  <2>4. CountIsBracketed'
    BY <1>2 DEF Phases, CountIsBracketed, NextBlock, LaterCpus
  <2> QED BY <2>1, <2>2, <2>3, <2>4
<1>3. CASE PhysicalIdLine
  <2> USE DEF CompletePair, Add, List!Accept
  <2>1. TypeOK'
    <3>1. /\ cpu \in Cpus
          /\ pc = "physicalId" => <<Parsed(Package[cpu]), coreId>> = KeyOf(cpu)
      BY <1>3 DEF TypeOK, Honest, KeyOf, PhysicalIdLine
    <3>2. CASE pc = "ids"
      BY <1>3, <3>1, <3>2, ParsedFits DEF TypeOK, PhysicalIdLine
    <3>3. CASE pc = "physicalId"
      <4>1. (Add(KeyOf(cpu)) /\ pc' = "nextBlock"
              /\ coreId' = NoId /\ packageId' = NoId)
            /\ UNCHANGED <<machine, todo, cpu, files, held, result, history>>
        BY <1>3, <3>1, <3>3 DEF PhysicalIdLine
      <4>2. KeyOf(cpu) \in Key
        BY <3>1, ParsedFits DEF KeyOf, Key
      <4> QED BY <4>1, <4>2 DEF TypeOK
    <3> QED BY <1>3, <3>2, <3>3 DEF PhysicalIdLine
  <2>2. Phases' /\ Honest'
    BY <1>3 DEF TypeOK, Phases, Honest, PhysicalIdLine
  <2>3. Complete'
    BY <1>3 DEF TypeOK, Phases, Honest, Complete, Ahead, KeyOf,
             PhysicalIdLine
  <2>4. CountIsBracketed'
    BY <1>3 DEF Honest, CountIsBracketed, KeyOf, Cores, PhysicalIdLine
  <2> QED BY <2>1, <2>2, <2>3, <2>4
<1>4. CASE CoreIdLine
  <2> USE DEF CompletePair, Add, List!Accept
  <2>1. TypeOK'
    <3>1. /\ cpu \in Cpus
          /\ pc = "coreId" => <<packageId, Parsed(Core[cpu])>> = KeyOf(cpu)
      BY <1>4 DEF TypeOK, Honest, KeyOf, CoreIdLine
    <3>2. CASE pc = "ids"
      BY <1>4, <3>1, <3>2, ParsedFits DEF TypeOK, CoreIdLine
    <3>3. CASE pc = "coreId"
      <4>1. (Add(KeyOf(cpu)) /\ pc' = "nextBlock"
              /\ coreId' = NoId /\ packageId' = NoId)
            /\ UNCHANGED <<machine, todo, cpu, files, held, result, history>>
        BY <1>4, <3>1, <3>3 DEF CoreIdLine
      <4>2. KeyOf(cpu) \in Key
        BY <3>1, ParsedFits DEF KeyOf, Key
      <4> QED BY <4>1, <4>2 DEF TypeOK
    <3> QED BY <1>4, <3>2, <3>3 DEF CoreIdLine
  <2>2. Phases' /\ Honest'
    BY <1>4 DEF TypeOK, Phases, Honest, CoreIdLine
  <2>3. Complete'
    BY <1>4 DEF TypeOK, Phases, Honest, Complete, Ahead, KeyOf, CoreIdLine
  <2>4. CountIsBracketed'
    BY <1>4 DEF Honest, CountIsBracketed, KeyOf, Cores, CoreIdLine
  <2> QED BY <2>1, <2>2, <2>3, <2>4
<1>5. CASE CpuinfoEnds
  <2>1. TypeOK'
    BY <1>5 DEF TypeOK, Streams, CpuinfoEnds, LaterCpus
  <2>2. Phases' /\ Honest'
    BY <1>5 DEF TypeOK, Phases, Honest, CpuinfoEnds, LaterCpus
  <2>3. Complete'
    <3>1. \A c \in online : ~(c > cpu)
      BY <1>5 DEF CpuinfoEnds, LaterCpus
    <3>2. PICK c \in online : c \in Nat
      BY CpusAreNumbered DEF TypeOK
    <3>3. cpu # NoCpu
      BY <3>1, <3>2
    <3>4. \A d \in stayed : ~(d > cpu)
      BY <3>1 DEF Honest
    <3> QED BY <1>5, <3>3, <3>4 DEF Phases, Complete, Ahead, KeyOf, CpuinfoEnds
  <2>4. CountIsBracketed'
    BY <1>5 DEF Phases, CountIsBracketed, CpuinfoEnds, LaterCpus
  <2> QED BY <2>1, <2>2, <2>3, <2>4
<1>6. CASE CpuinfoReadFails
  <2>1. TypeOK'
    BY <1>6 DEF TypeOK, Streams, CpuinfoReadFails
  <2>2. Phases' /\ Honest'
    BY <1>6 DEF TypeOK, Phases, Honest, CpuinfoReadFails
  <2>3. Complete'
    BY <1>6 DEF TypeOK, Phases, Honest, Complete, Ahead, KeyOf,
             CpuinfoReadFails
  <2>4. CountIsBracketed'
    BY <1>6 DEF Phases, CountIsBracketed, CpuinfoReadFails
  <2> QED BY <2>1, <2>2, <2>3, <2>4
<1> QED BY <1>1, <1>2, <1>3, <1>4, <1>5, <1>6

\* The count of the keys, and what the caller makes of it.
LEMMA EndOK ==
  ASSUME IInv, Tally \/ Verdict
  PROVE  IInv'
<1> USE DEF IInv, InTopology, InCpuinfo, AtEnd, ByGlob, ByCpuinfo, NoId, NoCpu,
           machine, files, list, history
<1>1. CASE Tally
  <2>0. List!Cardinality(seen) = Cardinality(seen)
    BY DEF List!Cardinality, Cardinality
  <2>1. TypeOK'
    BY <1>1, <2>0, SeenIsFinite DEF TypeOK, Tally, List!Report
  <2>2. Phases' /\ Honest'
    <3>1. reported' = Cardinality(seen')
      BY <1>1, <2>0 DEF Tally, List!Report
    <3> QED BY <1>1, <3>1 DEF TypeOK, Phases, Honest, Tally, List!Report
  <2>3. Complete'
    BY <1>1 DEF TypeOK, Phases, Honest, Complete, Ahead, KeyOf,
             Tally, List!Report
  <2>4. CountIsBracketed'
    BY <1>1 DEF Phases, CountIsBracketed, Tally, List!Report
  <2> QED BY <2>1, <2>2, <2>3, <2>4
<1>2. CASE Verdict
  <2>1. TypeOK'
    <3>1. reported \in Nat
      BY <1>2, SeenIsFinite DEF Phases, Verdict
    <3>2. reported' \in Nat \cup {Unknown} /\ result' \in Nat
      BY <1>2, <3>1 DEF TypeOK, Verdict, List!Discard
    <3> QED BY <1>2, <3>2 DEF TypeOK, Verdict, List!Discard
  <2>2. Phases' /\ Honest'
    BY <1>2 DEF TypeOK, Phases, Honest, Verdict, List!Discard
  <2>3. Complete'
    BY <1>2 DEF TypeOK, Phases, Honest, Complete, Ahead, KeyOf,
             Verdict, List!Discard
  <2>4. CountIsBracketed'
    <3>1. seen' = {} /\ UNCHANGED <<ever, stayed, faults, listsIds>>
      BY <1>2 DEF Verdict, List!Discard
    <3>2. SUFFICES ASSUME pc' = "idle"
                   PROVE  /\ result' <= Cardinality(Cores(ever))
                          /\ ~faults /\ listsIds =>
                               /\ result' > 0
                               /\ Cardinality(Cores(stayed)) <= result'
      BY <3>1 DEF CountIsBracketed
    <3>3. result' = Cardinality(seen)
      BY <1>2, <3>2 DEF Phases, Verdict
    <3>4. ~faults /\ listsIds => seen # {}
      <4>1. CASE held = ByGlob
        BY <1>2, <3>2, <3>3, <4>1, SeenIsFinite, FS_EmptySet
           DEF Phases, Verdict
      <4>2. CASE held = ByCpuinfo
        BY <1>2, <4>2 DEF Complete, Verdict
      <4> QED BY <1>2, <4>1, <4>2 DEF Phases, Verdict
    <3>5. ~faults /\ listsIds => Cores(stayed) \subseteq seen
      BY <1>2 DEF Phases, Complete, Ahead, Cores, Verdict
    <3>6. Cores(stayed) \subseteq seen =>
            Cardinality(Cores(stayed)) <= Cardinality(seen)
      BY SeenIsFinite, FS_Subset
    <3> QED BY <3>3, <3>4, <3>5, <3>6, SeenIsFinite
  <2> QED BY <2>1, <2>2, <2>3, <2>4
<1> QED BY <1>1, <1>2

\* Every step keeps the invariant.
LEMMA StepOK == ASSUME IInv, [Next]_vars PROVE IInv'
<1>1. CASE UNCHANGED vars
  BY <1>1 DEF vars, machine, files, list, history, IInv, TypeOK,
              CountIsBracketed, Phases, Honest, Complete, Ahead
<1> QED BY <1>1, HotplugOK, TopologyOK, CpuinfoOK, EndOK DEF Next, CallStep

-----------------------------------------------------------------------------
\* The invariant holds in every behaviour.
LEMMA Invariance == Spec => []IInv
BY InitOK, StepOK, PTL DEF Spec

\* Types, and an id pending between its line and its partner's only
\* (cpu.c:98-171, 143-155).
THEOREM TypeCorrect == Spec => []TypeOK
<1>1. IInv => TypeOK
  BY DEF IInv
<1> QED BY <1>1, Invariance, PTL

\* No path through failures, hotplug and the fallback leaves anything open
\* or allocated (cpu.c:180-225, 522-557).
THEOREM NothingEverLeaks == Spec => []NothingLeaks
<1>1. IInv => NothingLeaks
  BY DEF IInv, Phases, NothingLeaks
<1> QED BY <1>1, Invariance, PTL

\* The count is between the cores that stayed online and those that were
\* online at some moment, for any machine (cpu.c:143-155, 173-229, 522-557).
THEOREM CountIsAlwaysBracketed == Spec => []CountIsBracketed
<1>1. IInv => CountIsBracketed
  BY DEF IInv
<1> QED BY <1>1, Invariance, PTL

-----------------------------------------------------------------------------
\* The logical count

UpTo(S, n) == {c \in S : c <= n}

\* Which sources have been tried, and have failed, at each point of a call.
Fallbacks ==
  /\ logicalPc \in {"sysconf", "openCpuinfo", "countProcessors"} =>
       failed \subseteq {"sysconf"}
  /\ logicalPc \in {"openProcstat", "countCpuLines"} /\ hasLines =>
       "cpuinfo" \in failed

\* What the lines counted so far are: those of the CPUs up to the reader's
\* place, none of one that never was, all of those that stayed.
LinesCounted ==
  /\ logicalPc \in {"countProcessors", "countCpuLines"} =>
       0 <= nproc /\ nproc <= Cardinality(UpTo(ever, cursor))
  /\ logicalPc = "countProcessors" =>
       IF hasLines THEN /\ Cardinality(UpTo(stayed, cursor)) <= nproc
                        /\ cursor = -1 \/ nproc > 0
                   ELSE nproc = 0
  /\ logicalPc = "countCpuLines" => nproc = 0 \/ badReads

Observed == stayed \subseteq online /\ online \subseteq ever

LogicalInv ==
  LogicalTypeOK /\ LogicalCountIsBracketed /\ Observed /\ Fallbacks
    /\ LinesCounted

\* Sets of CPUs are finite, and a part of one has no more members.
LEMMA CpusAreCounted ==
  ASSUME NEW S \in SUBSET Cpus, NEW T \in SUBSET S
  PROVE  /\ IsFiniteSet(S)
         /\ Cardinality(S) \in Nat
         /\ Cardinality(T) \in Nat
         /\ Cardinality(T) <= Cardinality(S)
         /\ Cardinality(S) <= Cardinality(Cpus)
         /\ Cardinality(Cpus) \in Nat
         /\ S # {} => Cardinality(S) > 0
<1>1. IsFiniteSet(S) /\ IsFiniteSet(T)
  BY CpusAreNumbered, FS_Subset
<1>2. /\ Cardinality(S) \in Nat /\ Cardinality(T) \in Nat
      /\ Cardinality(Cpus) \in Nat
  BY <1>1, CpusAreNumbered, FS_CardinalityType
<1>3. /\ Cardinality(T) <= Cardinality(S)
      /\ Cardinality(S) <= Cardinality(Cpus)
  BY <1>1, CpusAreNumbered, FS_Subset
<1>4. S # {} => Cardinality(S) > 0
  BY <1>1, <1>2, FS_EmptySet
<1> QED BY <1>1, <1>2, <1>3, <1>4

\* A set of numbers has a least one.
LEMMA LeastNumber ==
  ASSUME NEW S \in SUBSET Nat, S # {}
  PROVE  \E m \in S : \A n \in S : m <= n
<1> DEFINE R == {ss \in Nat \X Nat : ss[1] < ss[2]}
<1>1. IsWellFoundedOn(R, Nat)
  BY NatLessThanWellFounded DEF OpToRel
<1>2. \A n, k \in Nat : n < k => <<n, k>> \in R
  OBVIOUS
<1> HIDE DEF R
<1>3. PICK m \in S : \A n \in S : ~(<<n, m>> \in R)
  BY <1>1, WFMin
<1>4. ASSUME NEW n \in S PROVE m <= n
  <2>1. n \in Nat /\ m \in Nat
    OBVIOUS
  <2>2. ~(n < m)
    BY <1>2, <1>3, <2>1
  <2> QED BY <2>1, <2>2
<1> QED BY <1>4

\* The next line is that of the first CPU online behind the reader's place.
LEMMA NextCpuIsFirst ==
  ASSUME LogicalTypeOK, LinesAhead # {}
  PROVE  /\ NextCpu \in online /\ NextCpu \in Nat /\ NextCpu > cursor
         /\ \A d \in online : d > cursor => NextCpu <= d
<1>1. LinesAhead \in SUBSET Nat
  BY CpusAreNumbered DEF LogicalTypeOK, LinesAhead
<1>2. NextCpu \in LinesAhead /\ \A d \in LinesAhead : NextCpu <= d
  BY <1>1, LeastNumber DEF NextCpu
<1> QED BY <1>1, <1>2 DEF LinesAhead

\* A line read moves the reader's place past one CPU that was online and past
\* none that stayed, so that both ends of the bracket grow by one at most
\* and at least.
LEMMA LineCounts ==
  ASSUME LogicalTypeOK, Observed, LinesAhead # {}, NextLine
  PROVE  /\ cursor' \in Cpus /\ cursor' >= 0
         /\ Cardinality(UpTo(stayed, cursor'))
              <= Cardinality(UpTo(stayed, cursor)) + 1
         /\ Cardinality(UpTo(ever, cursor)) + 1
              <= Cardinality(UpTo(ever, cursor'))
         /\ Cardinality(UpTo(ever, cursor')) <= Cardinality(Cpus)
         /\ {Cardinality(UpTo(stayed, cursor)), Cardinality(UpTo(ever, cursor)),
             Cardinality(UpTo(stayed, cursor')),
             Cardinality(UpTo(ever, cursor')), Cardinality(Cpus)} \subseteq Nat
<1>1. /\ cursor' \in online /\ cursor' \in Nat /\ cursor' > cursor
      /\ \A d \in online : d > cursor => cursor' <= d
  BY NextCpuIsFirst DEF NextLine
<1>2. /\ stayed \subseteq Nat /\ ever \subseteq Nat /\ cursor \in Int
      /\ cursor' \in Cpus /\ cursor' \in ever
  BY <1>1, CpusAreNumbered DEF LogicalTypeOK, Observed
<1>3. UpTo(stayed, cursor') \subseteq UpTo(stayed, cursor) \cup {cursor'}
  <2>1. ASSUME NEW d \in stayed, d <= cursor' PROVE d <= cursor \/ d = cursor'
    <3>1. d \in Nat /\ (d > cursor => cursor' <= d)
      BY <1>1, <1>2 DEF Observed
    <3> QED BY <1>1, <1>2, <2>1, <3>1
  <2> QED BY <2>1 DEF UpTo
<1>4. /\ UpTo(ever, cursor) \cup {cursor'} \subseteq UpTo(ever, cursor')
      /\ cursor' \notin UpTo(ever, cursor)
  <2>1. ASSUME NEW d \in ever, d <= cursor PROVE d <= cursor'
    BY <1>1, <1>2, <2>1
  <2>2. cursor' <= cursor' /\ ~(cursor' <= cursor)
    BY <1>1, <1>2
  <2> QED BY <1>2, <2>1, <2>2 DEF UpTo
<1>5. /\ UpTo(stayed, cursor) \cup {cursor'} \in SUBSET Cpus
      /\ UpTo(stayed, cursor) \in SUBSET Cpus
      /\ UpTo(stayed, cursor') \in SUBSET Cpus
      /\ UpTo(ever, cursor) \in SUBSET Cpus
      /\ UpTo(ever, cursor') \in SUBSET Cpus
  BY <1>2 DEF UpTo, LogicalTypeOK
<1>6. /\ Cardinality(UpTo(stayed, cursor) \cup {cursor'})
           <= Cardinality(UpTo(stayed, cursor)) + 1
      /\ Cardinality(UpTo(ever, cursor) \cup {cursor'})
           = Cardinality(UpTo(ever, cursor)) + 1
  <2>1. IsFiniteSet(UpTo(stayed, cursor)) /\ IsFiniteSet(UpTo(ever, cursor))
    BY <1>5, CpusAreCounted
  <2>2. Cardinality(UpTo(stayed, cursor) \cup {cursor'})
          \in {Cardinality(UpTo(stayed, cursor)),
               Cardinality(UpTo(stayed, cursor)) + 1}
    BY <2>1, FS_AddElement
  <2>3. Cardinality(UpTo(stayed, cursor)) \in Nat
    BY <1>5, CpusAreCounted
  <2>4. Cardinality(UpTo(stayed, cursor) \cup {cursor'})
          <= Cardinality(UpTo(stayed, cursor)) + 1
    BY <2>2, <2>3
  <2>5. Cardinality(UpTo(ever, cursor) \cup {cursor'})
          = Cardinality(UpTo(ever, cursor)) + 1
    BY <2>1, <1>4, FS_AddElement
  <2> QED BY <2>4, <2>5
<1>7. /\ Cardinality(UpTo(stayed, cursor'))
           <= Cardinality(UpTo(stayed, cursor) \cup {cursor'})
      /\ Cardinality(UpTo(ever, cursor) \cup {cursor'})
           <= Cardinality(UpTo(ever, cursor'))
      /\ Cardinality(UpTo(stayed, cursor) \cup {cursor'}) \in Nat
  BY <1>3, <1>4, <1>5, CpusAreCounted
<1>8. /\ {Cardinality(UpTo(stayed, cursor)), Cardinality(UpTo(ever, cursor)),
          Cardinality(UpTo(stayed, cursor')),
          Cardinality(UpTo(ever, cursor')), Cardinality(Cpus)} \subseteq Nat
      /\ Cardinality(UpTo(ever, cursor')) <= Cardinality(Cpus)
  BY <1>5, CpusAreCounted
<1> QED BY <1>1, <1>2, <1>6, <1>7, <1>8

LEMMA LogicalInitOK == ASSUME LogicalInit PROVE LogicalInv
<1>1. /\ Cardinality(Cpus) \in Nat /\ online \in SUBSET Cpus
      /\ Cardinality(online) \in Nat /\ 0 <= MaxHotplug
  BY CpusAreCounted, BoundIsNatural DEF LogicalInit
<1>2. LogicalTypeOK
  <2>1. nproc \in -1 .. Cardinality(Cpus) /\ hotplugs \in 0 .. MaxHotplug
    BY <1>1 DEF LogicalInit
  <2>2. stayed \subseteq ever /\ ever \subseteq Cpus
    BY DEF LogicalInit
  <2>3. nproc >= 0
    BY DEF LogicalInit
  <2> QED BY <2>1, <2>2, <2>3 DEF LogicalInit, LogicalTypeOK
<1>3. LogicalCountIsBracketed /\ Observed /\ Fallbacks /\ LinesCounted
  BY <1>1 DEF LogicalInit, LogicalCountIsBracketed, Observed, Fallbacks,
              LinesCounted
<1> QED BY <1>2, <1>3 DEF LogicalInv

\* CPUs that come and go widen the bracket and leave the count alone.
LEMMA LogicalHotplugOK ==
  ASSUME LogicalInv, LogicalHotplug
  PROVE  LogicalInv'
<1>0. /\ UNCHANGED <<hasLines, logicalPc, nproc, streams, cursor, badReads,
                     failed>>
      /\ LogicalTypeOK /\ LogicalCountIsBracketed /\ Observed /\ Fallbacks
      /\ LinesCounted
  BY DEF LogicalHotplug, LogicalInv
<1>1. PICK c \in Cpus : CpuLeaves(c) \/ CpuComes(c)
  BY DEF LogicalHotplug
<1>2. /\ online' \in (SUBSET Cpus) \ {{}} /\ hotplugs' \in 0 .. MaxHotplug
      /\ stayed' \subseteq stayed /\ ever \subseteq ever' /\ ever' \subseteq Cpus
      /\ stayed' \subseteq ever'
      /\ Observed'
  <2>1. CASE CpuLeaves(c)
    BY <1>0, <2>1, BoundIsNatural DEF CpuLeaves, LogicalTypeOK, Observed
  <2>2. CASE CpuComes(c)
    <3>1. hotplugs' \in 0 .. MaxHotplug
      BY <1>0, <2>2, BoundIsNatural DEF CpuComes, LogicalTypeOK
    <3> QED BY <1>0, <2>2, <3>1 DEF CpuComes, LogicalTypeOK, Observed
  <2> QED BY <1>1, <2>1, <2>2
<1>3. LogicalTypeOK'
  BY <1>0, <1>2 DEF LogicalTypeOK, streams
<1>4. /\ Cardinality(stayed') <= Cardinality(stayed)
      /\ Cardinality(ever) <= Cardinality(ever')
      /\ {Cardinality(stayed), Cardinality(stayed'), Cardinality(ever),
          Cardinality(ever')} \subseteq Nat
  <2>1. stayed \in SUBSET Cpus /\ ever' \in SUBSET Cpus
    BY <1>0, <1>2 DEF LogicalTypeOK
  <2> QED BY <1>2, <2>1, CpusAreCounted
<1>5. /\ Cardinality(UpTo(stayed', cursor)) <= Cardinality(UpTo(stayed, cursor))
      /\ Cardinality(UpTo(ever, cursor)) <= Cardinality(UpTo(ever', cursor))
      /\ {Cardinality(UpTo(stayed, cursor)), Cardinality(UpTo(ever, cursor)),
          Cardinality(UpTo(stayed', cursor)),
          Cardinality(UpTo(ever', cursor))} \subseteq Nat
  <2>1. /\ UpTo(stayed, cursor) \in SUBSET Cpus
        /\ UpTo(ever', cursor) \in SUBSET Cpus
        /\ UpTo(stayed', cursor) \in SUBSET UpTo(stayed, cursor)
        /\ UpTo(ever, cursor) \in SUBSET UpTo(ever', cursor)
    BY <1>0, <1>2 DEF LogicalTypeOK, UpTo
  <2> QED BY <2>1, CpusAreCounted
<1>6. nproc \in Int
  BY <1>0 DEF LogicalTypeOK
<1>7. LogicalCountIsBracketed'
  BY <1>0, <1>4, <1>6 DEF LogicalCountIsBracketed
<1>8. Fallbacks'
  BY <1>0 DEF Fallbacks
<1>9. LinesCounted'
  BY <1>0, <1>5, <1>6 DEF LinesCounted
<1> QED BY <1>2, <1>3, <1>7, <1>8, <1>9 DEF LogicalInv

\* The call, and the answer of sysconf: the CPUs online now.
LEMMA SysconfOK ==
  ASSUME LogicalInv, LogicalCall \/ Sysconf
  PROVE  LogicalInv'
<1>0. /\ LogicalTypeOK /\ Observed /\ Fallbacks
      /\ online \in SUBSET Cpus /\ stayed \in SUBSET Cpus /\ ever \in SUBSET Cpus
  BY DEF LogicalInv, LogicalTypeOK
<1>1. /\ Cardinality(online) \in Nat /\ Cardinality(online) > 0
      /\ Cardinality(online) <= Cardinality(Cpus) /\ Cardinality(Cpus) \in Nat
      /\ Cardinality(online) <= Cardinality(ever) /\ Cardinality(ever) \in Nat
      /\ Cardinality(stayed) <= Cardinality(online)
      /\ Cardinality(stayed) \in Nat
  BY <1>0, CpusAreCounted DEF LogicalTypeOK, Observed
<1>2. CASE LogicalCall
  <2>1. LogicalTypeOK'
    <3>1. nproc' \in -1 .. Cardinality(Cpus)
      BY <1>1, <1>2 DEF LogicalCall
    <3>2. UNCHANGED <<online, hotplugs, hasLines, cursor>>
      BY <1>2 DEF LogicalCall
    <3> QED BY <1>0, <1>2, <3>1, <3>2 DEF LogicalCall, LogicalTypeOK
  <2>2. LogicalCountIsBracketed' /\ Observed' /\ Fallbacks' /\ LinesCounted'
    BY <1>0, <1>2 DEF LogicalCall, LogicalCountIsBracketed, Observed, Fallbacks,
                      LinesCounted
  <2> QED BY <2>1, <2>2 DEF LogicalInv
<1>3. CASE Sysconf
  <2>0. UNCHANGED <<online, hotplugs, stayed, ever, hasLines, cpuinfoFile,
                    procstatFile, cursor, badReads>>
    BY <1>3 DEF Sysconf, cpuVars, streams
  <2>1. LogicalTypeOK'
    <3>1. /\ nproc' \in -1 .. Cardinality(Cpus)
          /\ logicalPc' = "idle" => nproc' >= 0
      BY <1>1, <1>3 DEF Sysconf
    <3>2. /\ logicalPc = "sysconf" /\ logicalPc' \in {"idle", "openCpuinfo"}
          /\ failed' \subseteq {"sysconf", "cpuinfo", "procstat"}
      BY <1>0, <1>3 DEF Sysconf, LogicalTypeOK
    <3> QED BY <1>0, <2>0, <3>1, <3>2 DEF LogicalTypeOK
  <2>2. Observed' /\ Fallbacks' /\ LinesCounted'
    BY <1>0, <1>3, <2>0 DEF Sysconf, Observed, Fallbacks, LinesCounted
  <2>3. LogicalCountIsBracketed'
    BY <1>1, <1>3, <2>0 DEF Sysconf, LogicalCountIsBracketed
  <2> QED BY <2>1, <2>2, <2>3 DEF LogicalInv
<1> QED BY <1>2, <1>3

\* The lines of /proc/cpuinfo: opened, read one by one, and at their end.
LEMMA ProcessorsOK ==
  ASSUME LogicalInv, FallBackToCpuinfo \/ ProcessorLine \/ CountedProcessors
  PROVE  LogicalInv'
<1>0. /\ LogicalTypeOK /\ Observed /\ Fallbacks /\ LinesCounted
      /\ online \in (SUBSET Cpus) \ {{}} /\ stayed \in SUBSET Cpus
      /\ ever \in SUBSET Cpus
  BY DEF LogicalInv, LogicalTypeOK
<1>1. CASE FallBackToCpuinfo
  <2>0. UNCHANGED <<online, hotplugs, stayed, ever, hasLines, procstatFile,
                    badReads>>
    BY <1>1 DEF FallBackToCpuinfo, cpuVars
  <2>1. LogicalTypeOK'
    <3>1. Cardinality(Cpus) \in Nat
      BY CpusAreNumbered, FS_CardinalityType
    <3>2. nproc' \in -1 .. Cardinality(Cpus)
      BY <1>0, <1>1, <3>1 DEF FallBackToCpuinfo, LogicalTypeOK
    <3>3. /\ cursor' \in Cpus \cup {-1}
          /\ failed' \subseteq {"sysconf", "cpuinfo", "procstat"}
      BY <1>0, <1>1 DEF FallBackToCpuinfo, LogicalTypeOK
    <3>4. /\ logicalPc = "openCpuinfo"
          /\ \/ logicalPc' = "countProcessors" /\ cpuinfoFile' = "open"
             \/ logicalPc' = "openProcstat" /\ cpuinfoFile' = "NULL"
      BY <1>1 DEF FallBackToCpuinfo
    <3> QED BY <1>0, <2>0, <3>2, <3>3, <3>4 DEF LogicalTypeOK
  <2>2. UpTo(stayed, -1) = {} /\ UpTo(ever, -1) = {}
    <3>1. \A d \in Cpus : ~(d <= -1)
      BY CpusAreNumbered
    <3> QED BY <1>0, <3>1 DEF UpTo
  <2>3. Observed' /\ Fallbacks' /\ LogicalCountIsBracketed'
    BY <1>0, <1>1, <2>0 DEF FallBackToCpuinfo, Observed, Fallbacks,
                            LogicalCountIsBracketed
  <2>4. LinesCounted'
    BY <1>1, <2>0, <2>2, FS_EmptySet DEF FallBackToCpuinfo, LinesCounted
  <2> QED BY <2>1, <2>3, <2>4 DEF LogicalInv
<1>2. CASE ProcessorLine
  <2>0. UNCHANGED <<online, hotplugs, stayed, ever, hasLines, logicalPc,
                    cpuinfoFile, procstatFile, badReads, failed>>
    BY <1>2 DEF ProcessorLine, cpuVars, streams
  <2>1. /\ cursor' \in Cpus /\ cursor' >= 0
        /\ Cardinality(UpTo(stayed, cursor'))
             <= Cardinality(UpTo(stayed, cursor)) + 1
        /\ Cardinality(UpTo(ever, cursor)) + 1
             <= Cardinality(UpTo(ever, cursor'))
        /\ Cardinality(UpTo(ever, cursor')) <= Cardinality(Cpus)
        /\ {Cardinality(UpTo(stayed, cursor)),
            Cardinality(UpTo(ever, cursor)),
            Cardinality(UpTo(stayed, cursor')),
            Cardinality(UpTo(ever, cursor')), Cardinality(Cpus)} \subseteq Nat
    BY <1>0, <1>2, LineCounts DEF ProcessorLine
  <2>2. /\ nproc \in Int /\ 0 <= nproc
        /\ nproc <= Cardinality(UpTo(ever, cursor))
        /\ Cardinality(UpTo(stayed, cursor)) <= nproc
        /\ nproc' = nproc + 1
        /\ logicalPc = "countProcessors" /\ hasLines
    BY <1>0, <1>2 DEF ProcessorLine, LogicalTypeOK, LinesCounted
  <2>3. LogicalTypeOK'
    BY <1>0, <2>0, <2>1, <2>2 DEF LogicalTypeOK
  <2>4. Observed' /\ Fallbacks' /\ LogicalCountIsBracketed'
    BY <1>0, <2>0, <2>2 DEF Observed, Fallbacks, LogicalCountIsBracketed
  <2>5. LinesCounted'
    BY <2>0, <2>1, <2>2 DEF LinesCounted
  <2> QED BY <2>3, <2>4, <2>5 DEF LogicalInv
<1>3. CASE CountedProcessors
  <2>0. /\ UNCHANGED <<online, hotplugs, stayed, ever, hasLines, nproc,
                       procstatFile, cursor, badReads>>
        /\ logicalPc = "countProcessors" /\ cpuinfoFile' = "closed"
        /\ logicalPc' \in {"idle", "openProcstat"}
        /\ logicalPc' = "idle" <=> nproc > 0
        /\ failed \subseteq {"sysconf"}
        /\ failed' \subseteq {"sysconf", "cpuinfo", "procstat"}
        /\ hasLines /\ LinesAhead # {} <=> "cpuinfo" \in failed'
    BY <1>0, <1>3 DEF CountedProcessors, cpuVars, Fallbacks
  <2>1. LogicalTypeOK'
    BY <1>0, <2>0 DEF LogicalTypeOK
  <2>2. nproc \in Int
    BY <1>0 DEF LogicalTypeOK
  <2>3. nproc = 0 /\ hasLines => LinesAhead # {}
    <3>1. nproc = 0 /\ hasLines => cursor = -1
      BY <1>0, <2>0 DEF LinesCounted
    <3>2. \A d \in Cpus : d > -1
      BY CpusAreNumbered
    <3> QED BY <1>0, <3>1, <3>2 DEF LinesAhead
  <2>4. LinesAhead = {} => UpTo(stayed, cursor) = stayed
    <3>1. \A d \in online : d \in Int /\ cursor \in Int
      BY <1>0, CpusAreNumbered DEF LogicalTypeOK
    <3>2. LinesAhead = {} => \A d \in online : d <= cursor
      BY <3>1 DEF LinesAhead
    <3> QED BY <1>0, <3>2 DEF UpTo, Observed
  <2>5. /\ Cardinality(UpTo(ever, cursor)) <= Cardinality(ever)
        /\ Cardinality(UpTo(ever, cursor)) \in Nat
        /\ Cardinality(ever) \in Nat
    <3>1. UpTo(ever, cursor) \in SUBSET ever
      BY DEF UpTo
    <3> QED BY <1>0, <3>1, CpusAreCounted
  <2>6. LogicalCountIsBracketed'
    <3>1. nproc <= Cardinality(ever)
      BY <1>0, <2>0, <2>2, <2>5 DEF LinesCounted
    <3>2. nproc > 0 => hasLines
      BY <1>0, <2>0 DEF LinesCounted
    <3>3. nproc > 0 /\ LinesAhead = {} => Cardinality(stayed) <= nproc
      BY <1>0, <2>0, <2>4, <3>2 DEF LinesCounted
    <3> QED BY <2>0, <3>1, <3>2, <3>3 DEF LogicalCountIsBracketed
  <2>7. Observed' /\ LinesCounted'
    BY <1>0, <2>0 DEF Observed, LinesCounted
  <2>8. Fallbacks'
    <3>1. logicalPc' = "openProcstat" => nproc = 0
      BY <1>0, <2>0, <2>2 DEF LinesCounted
    <3> QED BY <2>0, <2>3, <3>1 DEF Fallbacks
  <2> QED BY <2>1, <2>6, <2>7, <2>8 DEF LogicalInv
<1> QED BY <1>1, <1>2, <1>3

\* The lines of /proc/stat, or whatever is read in their place.
LEMMA ProcstatOK ==
  ASSUME LogicalInv, FallBackToProcstat \/ CpuLine \/ CountedCpuLines
  PROVE  LogicalInv'
<1>0. /\ LogicalTypeOK /\ Observed /\ Fallbacks /\ LinesCounted
      /\ ever \in SUBSET Cpus
  BY DEF LogicalInv, LogicalTypeOK
<1>1. CASE FallBackToProcstat
  <2>0. UNCHANGED <<online, hotplugs, stayed, ever, hasLines, cpuinfoFile,
                    badReads>>
    BY <1>1 DEF FallBackToProcstat, cpuVars
  <2>1. LogicalTypeOK'
    <3>1. Cardinality(Cpus) \in Nat
      BY CpusAreNumbered, FS_CardinalityType
    <3>2. nproc' = 0 /\ 0 \in -1 .. Cardinality(Cpus)
      BY <1>0, <1>1, <3>1 DEF FallBackToProcstat, LogicalTypeOK
    <3>3. /\ cursor' \in Cpus \cup {-1}
          /\ failed' \subseteq {"sysconf", "cpuinfo", "procstat"}
      BY <1>0, <1>1 DEF FallBackToProcstat, LogicalTypeOK
    <3>4. /\ logicalPc = "openProcstat"
          /\ \/ logicalPc' = "countCpuLines" /\ procstatFile' = "open"
             \/ logicalPc' = "idle" /\ UNCHANGED procstatFile
      BY <1>1 DEF FallBackToProcstat
    <3> QED BY <1>0, <2>0, <3>2, <3>3, <3>4 DEF LogicalTypeOK
  <2>2. Observed' /\ Fallbacks' /\ LogicalCountIsBracketed'
    BY <1>0, <1>1, <2>0 DEF FallBackToProcstat, Observed, Fallbacks,
                            LogicalCountIsBracketed
  <2>3. LinesCounted'
    <3>1. UpTo(ever, -1) \in SUBSET Cpus
      BY <1>0 DEF UpTo
    <3>2. Cardinality(UpTo(ever, -1)) \in Nat
      BY <3>1, CpusAreCounted
    <3> QED BY <1>1, <2>0, <3>2 DEF FallBackToProcstat, LinesCounted
  <2> QED BY <2>1, <2>2, <2>3 DEF LogicalInv
<1>2. CASE CpuLine
  <2>0. /\ UNCHANGED <<online, hotplugs, stayed, ever, hasLines, logicalPc,
                       cpuinfoFile, procstatFile, failed>>
        /\ logicalPc = "countCpuLines" /\ badReads' = TRUE
    BY <1>0, <1>2 DEF CpuLine, CountedFile, LogicalTypeOK, cpuVars, streams
  <2>1. /\ cursor' \in Cpus
        /\ Cardinality(UpTo(ever, cursor)) + 1
             <= Cardinality(UpTo(ever, cursor'))
        /\ Cardinality(UpTo(ever, cursor')) <= Cardinality(Cpus)
        /\ {Cardinality(UpTo(ever, cursor)),
            Cardinality(UpTo(ever, cursor')), Cardinality(Cpus)} \subseteq Nat
    BY <1>0, <1>2, LineCounts DEF CpuLine
  <2>2. /\ nproc \in Int /\ 0 <= nproc
        /\ nproc <= Cardinality(UpTo(ever, cursor))
        /\ nproc' = nproc + 1
    BY <1>0, <1>2 DEF CpuLine, LogicalTypeOK, LinesCounted
  <2>3. LogicalTypeOK'
    BY <1>0, <2>0, <2>1, <2>2 DEF LogicalTypeOK
  <2>4. Observed' /\ Fallbacks' /\ LogicalCountIsBracketed'
    BY <1>0, <2>0 DEF Observed, Fallbacks, LogicalCountIsBracketed
  <2>5. LinesCounted'
    BY <2>0, <2>1, <2>2 DEF LinesCounted
  <2> QED BY <2>3, <2>4, <2>5 DEF LogicalInv
<1>3. CASE CountedCpuLines
  <2>0. /\ UNCHANGED <<online, hotplugs, stayed, ever, hasLines, nproc,
                       cpuinfoFile, cursor>>
        /\ logicalPc = "countCpuLines" /\ logicalPc' = "idle"
        /\ procstatFile' = "NULL"
        /\ badReads' \in BOOLEAN /\ (badReads => badReads')
        /\ failed \subseteq failed'
        /\ failed' \subseteq {"sysconf", "cpuinfo", "procstat"}
    BY <1>0, <1>3 DEF CountedCpuLines, LogicalTypeOK, cpuVars
  <2>1. LogicalTypeOK'
    BY <1>0, <2>0 DEF LogicalTypeOK, LinesCounted
  <2>2. LogicalCountIsBracketed'
    BY <1>0, <2>0 DEF Fallbacks, LinesCounted, LogicalCountIsBracketed
  <2>3. Observed' /\ Fallbacks' /\ LinesCounted'
    BY <1>0, <2>0 DEF Observed, Fallbacks, LinesCounted
  <2> QED BY <2>1, <2>2, <2>3 DEF LogicalInv
<1> QED BY <1>1, <1>2, <1>3

\* Every step keeps the invariant.
LEMMA LogicalStepOK ==
  ASSUME LogicalInv, [LogicalNext]_logicalVars
  PROVE  LogicalInv'
<1>1. CASE UNCHANGED logicalVars
  BY <1>1 DEF logicalVars, cpuVars, streams, LogicalInv, LogicalTypeOK,
              LogicalCountIsBracketed, Observed, Fallbacks, LinesCounted
<1> QED BY <1>1, LogicalHotplugOK, SysconfOK, ProcessorsOK, ProcstatOK
       DEF LogicalNext, LogicalStep

\* The invariant holds in every behaviour.
LEMMA LogicalInvariance == LogicalSpec => []LogicalInv
BY LogicalInitOK, LogicalStepOK, PTL DEF LogicalSpec

\* The count never exceeds the CPUs there are, -1 is never returned, and each
\* stream is open only while it is read (cpu.c:559-603).
THEOREM LogicalTypeCorrect == LogicalSpec => []LogicalTypeOK
<1>1. LogicalInv => LogicalTypeOK
  BY DEF LogicalInv
<1> QED BY <1>1, LogicalInvariance, PTL

\* Whichever way the CPUs were counted, and whichever came and went meanwhile,
\* the count is between those that stayed and those that were ever online
\* (cpu.c:231-270, 559-603).
THEOREM LogicalCountIsAlwaysBracketed ==
  LogicalSpec => []LogicalCountIsBracketed
<1>1. LogicalInv => LogicalCountIsBracketed
  BY DEF LogicalInv
<1> QED BY <1>1, LogicalInvariance, PTL

-----------------------------------------------------------------------------
\* Calls return

\* The directories that are left may each take four steps, the blocks that
\* are left three, those of CPUs that may still come included.
CpusAfter(n) == {c \in Cpus : c > n}
AllBlocks == 3 * Cardinality(Cpus)
Walking == 7 + AllBlocks + 4 * Cardinality(todo)
Blocks == 3 + 3 * Cardinality(CpusAfter(cpu))

\* How many steps of its own the physical count takes from here at most.
StepsLeft ==
  CASE pc = "idle" -> 0
    [] pc = "verdict" -> IF "glob" \in held THEN 5 + AllBlocks ELSE 1
    [] pc = "tally" -> IF "glob" \in held THEN 6 + AllBlocks ELSE 2
    [] pc = "nextBlock" -> Blocks
    [] pc \in {"coreId", "physicalId"} -> Blocks + 1
    [] pc = "ids" -> Blocks + 2
    [] pc = "cpuinfo" -> 4 + AllBlocks
    [] pc = "nextCpu" -> Walking
    [] pc = "readPackageId" -> Walking + 1
    [] pc = "readCoreId" -> Walking + 2
    [] pc = "openPackageId" -> Walking + 3
    [] pc = "glob" -> 8 + AllBlocks + 4 * Cardinality(Cpus)

\* The same for the logical count: a step for each line, two files at most.
LinesLeft == Cardinality(CpusAfter(cursor))
LogicalStepsLeft ==
  CASE logicalPc = "idle" -> 0
    [] logicalPc = "countCpuLines" -> 1 + LinesLeft
    [] logicalPc = "openProcstat" -> 2 + Cardinality(Cpus)
    [] logicalPc = "countProcessors" -> 3 + Cardinality(Cpus) + LinesLeft
    [] logicalPc = "openCpuinfo" -> 4 + 2 * Cardinality(Cpus)
    [] logicalPc = "sysconf" -> 5 + 2 * Cardinality(Cpus)

\* Moving to a CPU behind the reader's place leaves fewer.
LEMMA FewerAfter ==
  ASSUME NEW m \in Cpus \cup {-1}, NEW n \in Cpus, n > m
  PROVE  /\ Cardinality(CpusAfter(n)) + 1 <= Cardinality(CpusAfter(m))
         /\ Cardinality(CpusAfter(n)) \in Nat
         /\ Cardinality(CpusAfter(m)) \in Nat
<1>1. \A c \in Cpus : c \in Nat
  BY CpusAreNumbered
<1>2. CpusAfter(n) \cup {n} \subseteq CpusAfter(m) /\ n \notin CpusAfter(n)
  <2>1. ASSUME NEW c \in Cpus, c > n PROVE c > m
    BY <1>1, <2>1
  <2> QED BY <1>1, <2>1 DEF CpusAfter
<1>3. CpusAfter(n) \in SUBSET Cpus /\ CpusAfter(m) \in SUBSET Cpus
  BY DEF CpusAfter
<1>4. Cardinality(CpusAfter(n) \cup {n}) = Cardinality(CpusAfter(n)) + 1
  BY <1>2, <1>3, CpusAreCounted, FS_AddElement
<1>5. Cardinality(CpusAfter(n) \cup {n}) <= Cardinality(CpusAfter(m))
  BY <1>2, <1>3, CpusAreCounted
<1> QED BY <1>3, <1>4, <1>5, CpusAreCounted

\* There are never more CPUs after a place than CPUs.
LEMMA AfterIsCounted ==
  ASSUME NEW n
  PROVE  /\ Cardinality(CpusAfter(n)) \in Nat
         /\ Cardinality(CpusAfter(n)) <= Cardinality(Cpus)
         /\ Cardinality(Cpus) \in Nat
<1>1. CpusAfter(n) \in SUBSET Cpus
  BY DEF CpusAfter
<1> QED BY <1>1, CpusAreCounted

\* Every step of the logical count brings its return closer.
LEMMA LogicalStepsFall ==
  ASSUME LogicalInv, LogicalStep
  PROVE  LogicalStepsLeft' < LogicalStepsLeft
<1> DEFINE N == Cardinality(Cpus)
           L == Cardinality(CpusAfter(cursor))
           M == Cardinality(CpusAfter(cursor'))
<1>1. N \in Nat /\ L \in 0 .. N /\ M \in 0 .. N
  BY AfterIsCounted
<1>2. LinesAhead # {} /\ NextLine => M + 1 <= L
  <2>1. LogicalTypeOK /\ Observed
    BY DEF LogicalInv
  <2>2. LinesAhead # {} /\ NextLine => cursor' \in Cpus /\ cursor' > cursor
    BY <2>1, NextCpuIsFirst, LineCounts DEF NextLine
  <2> QED BY <2>1, <2>2, FewerAfter DEF LogicalTypeOK
<1>3. /\ LogicalStepsLeft =
           CASE logicalPc = "idle" -> 0
             [] logicalPc = "countCpuLines" -> 1 + L
             [] logicalPc = "openProcstat" -> 2 + N
             [] logicalPc = "countProcessors" -> 3 + N + L
             [] logicalPc = "openCpuinfo" -> 4 + 2 * N
             [] logicalPc = "sysconf" -> 5 + 2 * N
      /\ LogicalStepsLeft' =
           CASE logicalPc' = "idle" -> 0
             [] logicalPc' = "countCpuLines" -> 1 + M
             [] logicalPc' = "openProcstat" -> 2 + N
             [] logicalPc' = "countProcessors" -> 3 + N + M
             [] logicalPc' = "openCpuinfo" -> 4 + 2 * N
             [] logicalPc' = "sysconf" -> 5 + 2 * N
  BY DEF LogicalStepsLeft, LinesLeft
<1>4. \/ logicalPc = "sysconf" /\ logicalPc' \in {"idle", "openCpuinfo"}
      \/ /\ logicalPc = "openCpuinfo"
         /\ logicalPc' \in {"countProcessors", "openProcstat"}
      \/ /\ logicalPc = "countProcessors" /\ logicalPc' = "countProcessors"
         /\ M + 1 <= L
      \/ logicalPc = "countProcessors" /\ logicalPc' \in {"idle", "openProcstat"}
      \/ logicalPc = "openProcstat" /\ logicalPc' \in {"idle", "countCpuLines"}
      \/ /\ logicalPc = "countCpuLines" /\ logicalPc' = "countCpuLines"
         /\ M + 1 <= L
      \/ logicalPc = "countCpuLines" /\ logicalPc' = "idle"
  BY <1>2 DEF LogicalStep, Sysconf, FallBackToCpuinfo, ProcessorLine,
              CountedProcessors, FallBackToProcstat, CpuLine, CountedCpuLines
<1> HIDE DEF N, L, M
<1> QED BY <1>1, <1>3, <1>4

\* Where a step of the physical count leads, and what it leaves to be read.
LEMMA WhereStepsLead ==
  ASSUME IInv, CallStep
  PROVE  \/ /\ pc = "glob" /\ pc' \in {"nextCpu", "cpuinfo"}
            /\ pc' = "nextCpu" => todo' = Cpus
         \/ /\ pc = "nextCpu" /\ pc' = "openPackageId"
            /\ \E c \in todo : todo' = todo \ {c}
         \/ /\ pc = "openPackageId" /\ pc' = "readCoreId" /\ todo' = todo
         \/ /\ pc = "readCoreId" /\ pc' \in {"nextCpu", "readPackageId"}
            /\ todo' = todo
         \/ /\ pc = "readPackageId" /\ pc' = "nextCpu" /\ todo' = todo
         \/ /\ pc = "nextCpu" /\ pc' = "tally" /\ "glob" \in held'
         \/ /\ pc = "cpuinfo" /\ pc' \in {"nextBlock", "idle"}
         \/ /\ pc = "nextBlock" /\ pc' \in {"nextBlock", "ids"}
            /\ cpu' \in Cpus /\ cpu' > cpu
         \/ /\ pc = "ids" /\ pc' \in {"physicalId", "coreId"} /\ cpu' = cpu
         \/ /\ pc \in {"physicalId", "coreId"} /\ pc' = "nextBlock"
            /\ cpu' = cpu
         \/ /\ pc \in InCpuinfo /\ pc' = "tally"
            /\ "glob" \notin held'
         \/ /\ pc = "tally" /\ pc' = "verdict" /\ held' = held
         \/ /\ pc = "verdict" /\ pc' \in {"idle", "cpuinfo"}
            /\ pc' = "cpuinfo" => "glob" \in held
<1>0. TypeOK /\ Phases
  BY DEF IInv
<1>1. CASE Glob
  BY <1>1 DEF Glob
<1>2. ASSUME NEW c \in Cpus, OpenCoreId(c)
      PROVE  /\ pc = "nextCpu" /\ pc' = "openPackageId"
             /\ \E d \in todo : todo' = todo \ {d}
  BY <1>2 DEF OpenCoreId
<1>3. CASE OpenPackageId \/ SkipCpu \/ ReadCoreId \/ ReadPackageId
           \/ ReadCoreIdFails \/ ReadPackageIdFails
  BY <1>3 DEF OpenPackageId, SkipCpu, ReadCoreId, ReadPackageId,
              ReadCoreIdFails, ReadPackageIdFails, ReadIdFails, CloseFiles
<1>4. CASE TopologyDone
  BY <1>0, <1>4 DEF TopologyDone, Phases, InTopology, ByGlob
<1>5. CASE OpenCpuinfo
  BY <1>5 DEF OpenCpuinfo
<1>6. CASE NextBlock
  <2>1. cpu' \in Cpus /\ cpu' > cpu
    BY <1>0, <1>6 DEF NextBlock, LaterCpus, TypeOK
  <2> QED BY <1>6, <2>1 DEF NextBlock
<1>7. CASE PhysicalIdLine \/ CoreIdLine
  BY <1>7 DEF PhysicalIdLine, CoreIdLine, CompletePair
<1>8. CASE CpuinfoEnds \/ CpuinfoReadFails
  BY <1>0, <1>8 DEF CpuinfoEnds, CpuinfoReadFails, Phases, InCpuinfo, ByCpuinfo
<1>9. CASE Tally \/ Verdict
  BY <1>9 DEF Tally, Verdict
<1> QED BY <1>1, <1>2, <1>3, <1>4, <1>5, <1>6, <1>7, <1>8, <1>9 DEF CallStep

\* Every step of the physical count brings its return closer.
LEMMA StepsFall ==
  ASSUME IInv, CallStep
  PROVE  StepsLeft' < StepsLeft
<1> DEFINE N == Cardinality(Cpus)
           T == Cardinality(todo)
           U == Cardinality(todo')
           B == Cardinality(CpusAfter(cpu))
           C == Cardinality(CpusAfter(cpu'))
           Rank(at, h, t, b) ==
             CASE at = "idle" -> 0
               [] at = "verdict" -> IF "glob" \in h THEN 5 + 3 * N ELSE 1
               [] at = "tally" -> IF "glob" \in h THEN 6 + 3 * N ELSE 2
               [] at = "nextBlock" -> 3 + 3 * b
               [] at \in {"coreId", "physicalId"} -> (3 + 3 * b) + 1
               [] at = "ids" -> (3 + 3 * b) + 2
               [] at = "cpuinfo" -> 4 + 3 * N
               [] at = "nextCpu" -> 7 + 3 * N + 4 * t
               [] at = "readPackageId" -> (7 + 3 * N + 4 * t) + 1
               [] at = "readCoreId" -> (7 + 3 * N + 4 * t) + 2
               [] at = "openPackageId" -> (7 + 3 * N + 4 * t) + 3
               [] at = "glob" -> 8 + 3 * N + 4 * N
<1>1. N \in Nat /\ B \in 0 .. N /\ C \in 0 .. N
  BY AfterIsCounted
<1>2. T \in Nat /\ IsFiniteSet(todo)
  BY CpusAreCounted DEF IInv, TypeOK
<1>3. /\ todo' = Cpus => U = N
      /\ todo' = todo => U = T
      /\ cpu' = cpu => C = B
      /\ cpu' \in Cpus /\ cpu' > cpu => C + 1 <= B
  BY FewerAfter DEF IInv, TypeOK, NoCpu
<1>4. (\E c \in todo : todo' = todo \ {c}) => U + 1 = T /\ U \in Nat
  BY <1>2, FS_RemoveElement, FS_CardinalityType
<1>5. StepsLeft = Rank(pc, held, T, B) /\ StepsLeft' = Rank(pc', held', U, C)
  BY DEF StepsLeft, Walking, AllBlocks, Blocks
<1> HIDE DEF N, T, U, B, C
<1>6. \/ /\ pc = "glob" /\ pc' \in {"nextCpu", "cpuinfo"}
         /\ pc' = "nextCpu" => U = N
      \/ pc = "nextCpu" /\ pc' = "openPackageId" /\ U + 1 = T /\ U \in Nat
      \/ pc = "openPackageId" /\ pc' = "readCoreId" /\ U = T
      \/ pc = "readCoreId" /\ pc' \in {"nextCpu", "readPackageId"} /\ U = T
      \/ pc = "readPackageId" /\ pc' = "nextCpu" /\ U = T
      \/ pc = "nextCpu" /\ pc' = "tally" /\ "glob" \in held'
      \/ pc = "cpuinfo" /\ pc' \in {"nextBlock", "idle"}
      \/ pc = "nextBlock" /\ pc' \in {"nextBlock", "ids"} /\ C + 1 <= B
      \/ pc = "ids" /\ pc' \in {"physicalId", "coreId"} /\ C = B
      \/ pc \in {"physicalId", "coreId"} /\ pc' = "nextBlock" /\ C = B
      \/ /\ pc \in InCpuinfo /\ pc' = "tally"
         /\ "glob" \notin held'
      \/ pc = "tally" /\ pc' = "verdict" /\ held' = held
      \/ /\ pc = "verdict" /\ pc' \in {"idle", "cpuinfo"}
         /\ pc' = "cpuinfo" => "glob" \in held
  BY <1>3, <1>4, WhereStepsLead
<1> QED BY <1>1, <1>2, <1>5, <1>6 DEF InCpuinfo

\* What is left is a number, and nothing is left only when nothing is under way.
LEMMA StepsAreCounted ==
  ASSUME IInv
  PROVE  StepsLeft \in Nat /\ (StepsLeft = 0 <=> pc = "idle")
<1>1. /\ Cardinality(Cpus) \in Nat
      /\ Cardinality(CpusAfter(cpu)) \in Nat
  BY AfterIsCounted
<1>2. Cardinality(todo) \in Nat
  BY CpusAreCounted DEF IInv, TypeOK
<1> QED BY <1>1, <1>2 DEF StepsLeft, Walking, AllBlocks, Blocks, IInv, TypeOK

LEMMA LogicalStepsAreCounted ==
  ASSUME LogicalInv
  PROVE  LogicalStepsLeft \in Nat /\ (LogicalStepsLeft = 0 <=> logicalPc = "idle")
BY AfterIsCounted DEF LogicalStepsLeft, LinesLeft, LogicalInv, LogicalTypeOK

\* The physical count returns after a number of its own steps that the number
\* of CPU directories bounds, however often CPUs come and go meanwhile: a
\* step of the call leaves fewer, one of the machine as many as before.  With
\* a thread that keeps running this is why the call returns (cpu.c:114-229,
\* 522-557).
THEOREM CountReturnsInTime ==
  Spec => /\ [](StepsLeft \in Nat /\ (StepsLeft = 0 <=> pc = "idle"))
          /\ [][/\ Call => StepsLeft' = 8 + 7 * Cardinality(Cpus)
                /\ CallStep => StepsLeft' < StepsLeft
                /\ Hotplug => StepsLeft' = StepsLeft]_vars
<1>1. IInv => StepsLeft \in Nat /\ (StepsLeft = 0 <=> pc = "idle")
  BY StepsAreCounted
<1>2. ASSUME Call PROVE StepsLeft' = 8 + 7 * Cardinality(Cpus)
  <2>1. Cardinality(Cpus) \in Nat
    BY AfterIsCounted
  <2> QED BY <1>2, <2>1 DEF Call, StepsLeft, AllBlocks
<1>3. ASSUME Hotplug PROVE StepsLeft' = StepsLeft
  <2>1. UNCHANGED <<pc, todo, cpu, held>>
    BY <1>3 DEF Hotplug, GoOffline, GoOnline
  <2> QED BY <2>1 DEF StepsLeft, Walking, AllBlocks, Blocks, CpusAfter
<1>4. IInv /\ [Next]_vars =>
        [/\ Call => StepsLeft' = 8 + 7 * Cardinality(Cpus)
         /\ CallStep => StepsLeft' < StepsLeft
         /\ Hotplug => StepsLeft' = StepsLeft]_vars
  BY <1>2, <1>3, StepsFall
<1> QED BY <1>1, <1>4, Invariance, PTL DEF Spec

\* The logical count returns after reading each of two files at most once,
\* one line for every CPU there can be (cpu.c:231-270, 559-603).
THEOREM LogicalCountReturnsInTime ==
  LogicalSpec =>
    /\ [](LogicalStepsLeft \in Nat
            /\ (LogicalStepsLeft = 0 <=> logicalPc = "idle"))
    /\ [][/\ LogicalCall => LogicalStepsLeft' = 5 + 2 * Cardinality(Cpus)
          /\ LogicalStep => LogicalStepsLeft' < LogicalStepsLeft
          /\ LogicalHotplug => LogicalStepsLeft' = LogicalStepsLeft
         ]_logicalVars
<1>1. LogicalInv => LogicalStepsLeft \in Nat
                      /\ (LogicalStepsLeft = 0 <=> logicalPc = "idle")
  BY LogicalStepsAreCounted
<1>2. ASSUME LogicalCall
      PROVE  LogicalStepsLeft' = 5 + 2 * Cardinality(Cpus)
  BY <1>2 DEF LogicalCall, LogicalStepsLeft
<1>3. ASSUME LogicalHotplug PROVE LogicalStepsLeft' = LogicalStepsLeft
  <2>1. UNCHANGED <<logicalPc, cursor>>
    BY <1>3 DEF LogicalHotplug
  <2> QED BY <2>1 DEF LogicalStepsLeft, LinesLeft, CpusAfter
<1>4. LogicalInv /\ [LogicalNext]_logicalVars =>
        [/\ LogicalCall => LogicalStepsLeft' = 5 + 2 * Cardinality(Cpus)
         /\ LogicalStep => LogicalStepsLeft' < LogicalStepsLeft
         /\ LogicalHotplug => LogicalStepsLeft' = LogicalStepsLeft
        ]_logicalVars
  BY <1>2, <1>3, LogicalStepsFall
<1> QED BY <1>1, <1>4, LogicalInvariance, PTL DEF LogicalSpec

-----------------------------------------------------------------------------
\* What the brackets come to

\* There are no more cores than CPUs.
LEMMA NoMoreCoresThanCpus ==
  ASSUME NEW S \in SUBSET Cpus
  PROVE  Cardinality(Cores(S)) <= Cardinality(S)
<1> DEFINE f == [c \in S |-> KeyOf(c)]
<1>1. IsFiniteSet(S)
  BY CpusAreNumbered, FS_Subset
<1>2. f \in Surjection(S, Cores(S))
  BY DEF Surjection, Cores
<1> QED BY <1>1, <1>2, FS_Surjection

\* However ids wrap, and whatever came and went or failed: the physical count
\* is no more than the number of CPUs that were online during the call
\* (cpu.c:522-557).
THEOREM NeverMoreCoresThanCpus ==
  Spec => [](pc = "idle" => result <= Cardinality(ever))
<1>1. IInv => (pc = "idle" => result <= Cardinality(ever))
  <2>1. SUFFICES ASSUME IInv, pc = "idle" PROVE result <= Cardinality(ever)
    OBVIOUS
  <2>2. /\ ever \in SUBSET Cpus /\ result \in Nat
        /\ result <= Cardinality(Cores(ever))
    BY <2>1 DEF IInv, TypeOK, CountIsBracketed
  <2>3. /\ Cardinality(Cores(ever)) <= Cardinality(ever)
        /\ Cardinality(Cores(ever)) \in Nat /\ Cardinality(ever) \in Nat
    BY <2>2, NoMoreCoresThanCpus, CoresAreFinite, CpusAreCounted
  <2> QED BY <2>2, <2>3
<1> QED BY <1>1, Invariance, PTL

\* A call that returned, since whose start no CPU came or went and neither file of
\* the first fallback failed.
Calm ==
  /\ logicalPc = "idle" /\ stayed = ever
  /\ failed \subseteq {"sysconf"} /\ hasLines /\ ~badReads

\* In such a call, sysconf failing or not, the logical count is the number of
\* CPUs online: what the system frequency relies on when it makes its array
\* (linux/cpu.c:559-582, src/cpu.c:138-143).
THEOREM CalmCountIsExact ==
  LogicalSpec => [](Calm => nproc = Cardinality(online))
<1>1. ASSUME LogicalInv, Calm PROVE nproc = Cardinality(online)
  <2>1. /\ stayed \subseteq online /\ online \subseteq ever
        /\ ever \in SUBSET Cpus /\ nproc \in Int
    BY <1>1 DEF LogicalInv, Observed, LogicalTypeOK
  <2>2. online = ever /\ Cardinality(ever) \in Nat
    BY <1>1, <2>1, CpusAreCounted DEF Calm
  <2>3. nproc <= Cardinality(ever) /\ Cardinality(stayed) <= nproc
    BY <1>1 DEF LogicalInv, LogicalCountIsBracketed, Calm
  <2> QED BY <1>1, <2>1, <2>2, <2>3 DEF Calm
<1>2. LogicalInv => (Calm => nproc = Cardinality(online))
  BY <1>1
<1> QED BY <1>2, LogicalInvariance, PTL
=============================================================================
