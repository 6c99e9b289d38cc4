-------------------------- MODULE CpuCountPhysical --------------------------
(***************************************************************************)
(* procmetrix_cpu_count_physical on Linux (src/linux/cpu.c): the topology  *)
(* files of sysfs, one CPU at a time, then /proc/cpuinfo when they gave no *)
(* core.  CPUs go online and offline while the call runs, and any open,    *)
(* read or allocation may fail.                                            *)
(*                                                                         *)
(* The list of core keys is used through what DistinctCounter promises;    *)
(* CoreTopoListProofs proves that the real list keeps that promise.        *)
(***************************************************************************)
EXTENDS CpuHotplug

CONSTANTS
  Package,     \* Package[c]: what physical_package_id of c says (-1: no id)
  Core,        \* Core[c]: what core_id of c says
  SizeMax,     \* SIZE_MAX
  Unknown      \* no report from the list yet

ASSUME IdsAreIntegers == Package \in [Cpus -> Int] /\ Core \in [Cpus -> Int]
ASSUME SizeMaxIsNatural == SizeMax \in Nat
ASSUME UnknownIsNoCount == Unknown \notin Nat

\* scanf("%zu") takes a sign and wraps it into a size_t.
Parsed(v) == v % (SizeMax + 1)

KeyOf(c) == <<Parsed(Package[c]), Parsed(Core[c])>>
Cores(S) == {KeyOf(c) : c \in S}

NoId == -1
NoCpu == -1

VARIABLES
  \* the machine
  listsIds,  \* this kernel's cpuinfo has "physical id" and "core id" lines
  \* the call
  pc,
  todo,      \* glob paths still to visit
  cpu,       \* the CPU whose topology files or cpuinfo block is being read
  coreFile, packageFile,  \* closed, open, or stale (its CPU went offline)
  coreId,    \* core_id read, not yet used
  packageId, \* physical_id (cpuinfo) read, not yet used
  held,      \* what must be released: glob, cpuinfo, list
  result,    \* what the last call returned
  \* the list of core keys
  seen, reported,
  \* what happened since the call began
  faults     \* an open, read or allocation failed

machine == <<online, hotplugs, listsIds>>
files == <<coreFile, packageFile>>
list == <<seen, reported>>
history == <<stayed, ever>>
vars == <<machine, pc, todo, cpu, files, coreId, packageId, held, result,
          list, history, faults>>

Key == (0 .. SizeMax) \X (0 .. SizeMax)
List == INSTANCE DistinctCounter

-----------------------------------------------------------------------------
\* The kernel

\* Removing a CPU removes its topology files: streams open on them go stale.
AfterOffline(stream, c) == IF stream = "open" /\ cpu = c THEN "stale" ELSE stream

GoOffline(c) ==
  /\ CpuLeaves(c)
  /\ coreFile' = AfterOffline(coreFile, c)
  /\ packageFile' = AfterOffline(packageFile, c)
  /\ UNCHANGED <<listsIds, pc, todo, cpu, coreId, packageId, held, result,
                 list, faults>>

GoOnline(c) ==
  /\ CpuComes(c)
  /\ UNCHANGED <<listsIds, pc, todo, cpu, files, coreId, packageId, held,
                 result, list, faults>>

-----------------------------------------------------------------------------
\* The list: an add that finds no memory is refused and its result ignored.

Add(key) ==
  \/ List!Accept(key) /\ UNCHANGED faults
  \/ faults' = TRUE /\ UNCHANGED list

-----------------------------------------------------------------------------
\* procmetrix_impl_linux_cpu_count_physical_topology, per globbed directory

Call ==
  /\ pc = "idle"
  /\ pc' = "glob"
  /\ result' = 0
  /\ stayed' = online
  /\ ever' = online
  /\ faults' = FALSE
  /\ UNCHANGED <<machine, todo, cpu, files, coreId, packageId, held, list>>

Glob ==
  /\ pc = "glob"
  /\ \/ /\ pc' = "nextCpu"
        /\ todo' = Cpus
        /\ held' = {"glob", "list"}
        /\ UNCHANGED faults
     \/ /\ pc' = "cpuinfo"
        /\ faults' = TRUE
        /\ UNCHANGED <<todo, held>>
  /\ UNCHANGED <<machine, cpu, files, coreId, packageId, result, list, history>>

\* fopen of a topology file: an offline CPU has none, and any open may fail.
Opened(c, stream, failed) ==
  \/ c \in online /\ stream = "open" /\ failed = faults
  \/ c \in online /\ stream = "closed" /\ failed = TRUE
  \/ c \notin online /\ stream = "closed" /\ failed = faults

OpenCoreId_SamePath(c) ==
  /\ pc = "nextCpu"
  /\ c \in todo
  /\ pc' = "openPackageId"
  /\ cpu' = c
  /\ Opened(c, coreFile', faults')
  /\ UNCHANGED <<machine, todo, packageFile, coreId, packageId, held, result,
                 list, history>>

OpenCoreId(c) ==
  /\ pc = "nextCpu"
  /\ c \in todo
  /\ pc' = "openPackageId"
  /\ todo' = todo \ {c}
  /\ cpu' = c
  /\ Opened(c, coreFile', faults')
  /\ UNCHANGED <<machine, packageFile, coreId, packageId, held, result, list,
                 history>>

OpenPackageId ==
  /\ pc = "openPackageId"
  /\ Opened(cpu, packageFile', faults')
  /\ pc' = "readCoreId"
  /\ UNCHANGED <<machine, todo, cpu, coreFile, coreId, packageId, held, result,
                 list, history>>

BothOpened == coreFile # "closed" /\ packageFile # "closed"

CloseFiles ==
  /\ pc' = "nextCpu"
  /\ coreFile' = "closed"
  /\ packageFile' = "closed"
  /\ coreId' = NoId

\* Only one of the files, or none: nothing to parse.
SkipCpu ==
  /\ pc = "readCoreId"
  /\ ~BothOpened
  /\ CloseFiles
  /\ UNCHANGED <<machine, todo, cpu, packageId, held, result, list, history,
                 faults>>

ReadCoreId ==
  /\ pc = "readCoreId"
  /\ BothOpened
  /\ coreFile = "open"
  /\ pc' = "readPackageId"
  /\ coreId' = Parsed(Core[cpu])
  /\ UNCHANGED <<machine, todo, cpu, files, packageId, held, result, list,
                 history, faults>>

ReadPackageId ==
  /\ pc = "readPackageId"
  /\ packageFile = "open"
  /\ CloseFiles
  /\ Add(<<Parsed(Package[cpu]), coreId>>)
  /\ UNCHANGED <<machine, todo, cpu, packageId, held, result, history>>

\* fscanf matched nothing: the CPU left under the open stream, or a read error.
ReadIdFails(stream) ==
  /\ CloseFiles
  /\ faults' = (faults \/ stream = "open")
  /\ UNCHANGED <<machine, todo, cpu, packageId, held, result, list, history>>

ReadCoreIdFails_GoesOn ==
  /\ pc = "readCoreId"
  /\ BothOpened
  /\ pc' = "readPackageId"
  /\ coreId' \in 0 .. SizeMax
  /\ UNCHANGED <<machine, todo, cpu, files, packageId, held, result, list,
                 history, faults>>

ReadCoreIdFails == pc = "readCoreId" /\ BothOpened /\ ReadIdFails(coreFile)
ReadPackageIdFails == pc = "readPackageId" /\ ReadIdFails(packageFile)

TopologyDone ==
  /\ pc = "nextCpu"
  /\ todo = {}
  /\ pc' = "tally"
  /\ UNCHANGED <<machine, todo, cpu, files, coreId, packageId, held, result,
                 list, history, faults>>

-----------------------------------------------------------------------------
\* procmetrix_impl_linux_cpu_count_physical_cpuinfo

OpenCpuinfo ==
  /\ pc = "cpuinfo"
  /\ cpu' = NoCpu
  /\ \/ /\ pc' = "nextBlock"
        /\ held' = {"cpuinfo", "list"}
        /\ UNCHANGED <<result, faults>>
     \/ /\ pc' = "idle"
        /\ result' = 0
        /\ faults' = TRUE
        /\ UNCHANGED held
  /\ UNCHANGED <<machine, todo, files, coreId, packageId, list, history>>

\* The kernel writes one block per online CPU, in ascending order; a block is
\* written whole, so a CPU that leaves later is still read to its end.
LaterCpus == {c \in online : c > cpu}

NextBlock ==
  /\ pc = "nextBlock"
  /\ \E c \in LaterCpus :
       /\ \A d \in LaterCpus : c <= d
       /\ cpu' = c
  /\ pc' = IF listsIds THEN "ids" ELSE "nextBlock"
  /\ UNCHANGED <<machine, todo, files, coreId, packageId, held, result, list,
                 history, faults>>

CompletePair_KeepsPackage(key) ==
  /\ pc' = "nextBlock"
  /\ coreId' = NoId
  /\ Add(key)
  /\ UNCHANGED packageId

\* Whichever line comes second completes the pair: it is added, and both ids
\* are forgotten.
CompletePair(key) ==
  /\ pc' = "nextBlock"
  /\ coreId' = NoId
  /\ packageId' = NoId
  /\ Add(key)

PhysicalIdLine ==
  /\ \/ /\ pc = "ids"
        /\ pc' = "coreId"
        /\ packageId' = Parsed(Package[cpu])
        /\ UNCHANGED <<coreId, list, faults>>
     \/ pc = "physicalId" /\ CompletePair(<<Parsed(Package[cpu]), coreId>>)
  /\ UNCHANGED <<machine, todo, cpu, files, held, result, history>>

CoreIdLine ==
  /\ \/ /\ pc = "ids"
        /\ pc' = "physicalId"
        /\ coreId' = Parsed(Core[cpu])
        /\ UNCHANGED <<packageId, list, faults>>
     \/ pc = "coreId" /\ CompletePair(<<packageId, Parsed(Core[cpu])>>)
  /\ UNCHANGED <<machine, todo, cpu, files, held, result, history>>

CpuinfoEnds ==
  /\ pc = "nextBlock"
  /\ LaterCpus = {}
  /\ pc' = "tally"
  /\ UNCHANGED <<machine, todo, cpu, files, coreId, packageId, held, result,
                 list, history, faults>>

\* fgets returns NULL on an error too; a half-read pair is dropped.
CpuinfoReadFails ==
  /\ pc \in {"nextBlock", "ids", "physicalId", "coreId"}
  /\ pc' = "tally"
  /\ coreId' = NoId
  /\ packageId' = NoId
  /\ faults' = TRUE
  /\ UNCHANGED <<machine, todo, cpu, files, held, result, list, history>>

-----------------------------------------------------------------------------
\* Both routes end in sort, count_unique, free, and the caller's verdict.

Tally ==
  /\ pc = "tally"
  /\ pc' = "verdict"
  /\ List!Report
  /\ UNCHANGED <<machine, todo, cpu, files, coreId, packageId, held, result,
                 history, faults>>

Verdict_ReturnsEarly ==
  /\ pc = "verdict"
  /\ List!Discard
  /\ held' = IF reported > 0 THEN held \ {"list"} ELSE {}
  /\ \/ /\ reported > 0 \/ "glob" \notin held
        /\ pc' = "idle"
        /\ result' = reported
     \/ /\ reported = 0 /\ "glob" \in held
        /\ pc' = "cpuinfo"
        /\ UNCHANGED result
  /\ UNCHANGED <<machine, todo, cpu, files, coreId, packageId, history, faults>>

Verdict ==
  /\ pc = "verdict"
  /\ List!Discard
  /\ held' = {}
  /\ \/ /\ reported > 0 \/ "glob" \notin held
        /\ pc' = "idle"
        /\ result' = reported
     \/ /\ reported = 0 /\ "glob" \in held
        /\ pc' = "cpuinfo"
        /\ UNCHANGED result
  /\ UNCHANGED <<machine, todo, cpu, files, coreId, packageId, history, faults>>

-----------------------------------------------------------------------------
Init ==
  /\ online \in (SUBSET Cpus) \ {{}}
  /\ hotplugs = 0
  /\ listsIds \in BOOLEAN
  /\ pc = "idle"
  /\ todo = {}
  /\ cpu = NoCpu
  /\ coreFile = "closed"
  /\ packageFile = "closed"
  /\ coreId = NoId
  /\ packageId = NoId
  /\ held = {}
  /\ result = 0
  /\ List!Init
  /\ stayed = online
  /\ ever = online
  /\ faults = TRUE  \* no call yet: the result says nothing

Hotplug == \E c \in Cpus : GoOffline(c) \/ GoOnline(c)

\* One step of a call in progress.
CallStep ==
  \/ Glob
  \/ \E c \in Cpus : OpenCoreId(c)
  \/ OpenPackageId
  \/ SkipCpu
  \/ ReadCoreId
  \/ ReadPackageId
  \/ ReadCoreIdFails
  \/ ReadPackageIdFails
  \/ TopologyDone
  \/ OpenCpuinfo
  \/ NextBlock
  \/ PhysicalIdLine
  \/ CoreIdLine
  \/ CpuinfoEnds
  \/ CpuinfoReadFails
  \/ Tally
  \/ Verdict

Next == Hotplug \/ Call \/ CallStep

\* The calling thread keeps being scheduled; nobody has to call or to hotplug.
Fairness == WF_vars(CallStep)

Spec == Init /\ [][Next]_vars /\ Fairness

-----------------------------------------------------------------------------
\* Properties

Streams == {"closed", "open", "stale"}

\* Types, and when an id is pending: between its line and its partner's.
TypeOK ==
  /\ online \in (SUBSET Cpus) \ {{}}
  /\ hotplugs \in 0 .. MaxHotplug
  /\ listsIds \in BOOLEAN
  /\ pc \in {"idle", "glob", "nextCpu", "openPackageId", "readCoreId",
             "readPackageId", "cpuinfo", "nextBlock", "ids", "physicalId",
             "coreId", "tally", "verdict"}
  /\ todo \subseteq Cpus
  /\ cpu \in Cpus \cup {NoCpu}
  /\ coreFile \in Streams
  /\ packageFile \in Streams
  /\ coreId \in 0 .. SizeMax \cup {NoId}
  /\ packageId \in 0 .. SizeMax \cup {NoId}
  /\ held \subseteq {"glob", "cpuinfo", "list"}
  /\ result \in Nat
  /\ seen \subseteq Key
  /\ reported \in Nat \cup {Unknown}
  /\ coreId # NoId <=> pc \in {"readPackageId", "physicalId"}
  /\ packageId # NoId <=> pc = "coreId"
  /\ stayed \subseteq ever
  /\ ever \subseteq Cpus
  /\ faults \in BOOLEAN

\* A call that has returned left no stream, glob result or list behind, on
\* any path through failed opens, failed reads, hotplug and the fallback
\* (cpu.c:180-225, 522-557).
NothingLeaks ==
  pc = "idle" => /\ held = {}
                 /\ coreFile = "closed"
                 /\ packageFile = "closed"
                 /\ seen = {}

\* The two ids of every key in the list were read from one and the same CPU,
\* whatever came and went between the two reads, so the count is never more
\* than the cores that were online at some moment of the call.  Unless
\* something failed it is at least the cores of the CPUs that stayed online,
\* and never zero: hotplug alone can make the sysfs route miss every CPU, but
\* then the fallback finds one (cpu.c:143-155, 173-229, 522-557).
CountIsBracketed ==
  /\ seen \subseteq Cores(ever)
  /\ pc = "idle" => result <= Cardinality(Cores(ever))
  /\ pc = "idle" /\ ~faults /\ listsIds =>
       result > 0 /\ Cardinality(Cores(stayed)) <= result

\* A call returns, however the CPUs come and go under it.
CallReturns == pc # "idle" ~> pc = "idle"
=============================================================================
