--------------------------- MODULE CpuFreqSystem ---------------------------
(***************************************************************************)
(* procmetrix_cpu_freq_system (src/cpu.c): count the CPUs, allocate a slot *)
(* for each, read their frequencies, average them.  The count, the         *)
(* allocation and the reading are separate moments, and CPUs come and go   *)
(* between them.                                                           *)
(*                                                                         *)
(* The average is kept as a sum and a count: the division loses nothing    *)
(* the properties speak of.                                                *)
(***************************************************************************)
EXTENDS CpuFreqs

VARIABLES
  sysPc,
  ncpus,      \* what procmetrix_cpu_count_logical said
  heap,       \* blocks allocated by the call
  sysStatus,
  average,    \* *system_freq
  calm        \* since the call began nothing came, went or failed

sysVars == <<sysPc, ncpus, heap, sysStatus, average, calm>>
vars == <<freqVars, sysVars>>

Nothing == [sum |-> Zero, count |-> 1]

-----------------------------------------------------------------------------
\* The kernel

SystemHotplug ==
  /\ Hotplug
  /\ calm' = FALSE
  /\ UNCHANGED <<sysPc, ncpus, heap, sysStatus, average>>

-----------------------------------------------------------------------------
\* procmetrix_cpu_freq_system

SystemCall ==
  /\ sysPc = "idle"
  /\ sysPc' = "count"
  /\ average' = Nothing
  /\ sysStatus' = "NONE"
  /\ calm' = TRUE
  /\ UNCHANGED <<freqVars, ncpus, heap>>

Fail(code) ==
  /\ sysPc' = "idle"
  /\ sysStatus' = code
  /\ calm' = FALSE

\* procmetrix_cpu_count_logical: the CPUs online now, or 0 if undetermined.
CountLogical ==
  /\ sysPc = "count"
  /\ \/ /\ ncpus' = Cardinality(online)
        /\ sysPc' = "allocate"
        /\ UNCHANGED <<sysStatus, calm>>
     \/ /\ ncpus' = 0
        /\ Fail("UNKNOWN")
  /\ UNCHANGED <<freqVars, heap, average>>

Allocate ==
  /\ sysPc = "allocate"
  /\ heap' = {"cpu_freqs"}
  /\ sysPc' = "read"
  /\ CallWith(ncpus)
  /\ UNCHANGED <<ncpus, sysStatus, average, calm>>

AllocateFails ==
  /\ sysPc = "allocate"
  /\ Fail("OUT_OF_MEMORY")
  /\ UNCHANGED <<freqVars, ncpus, heap, average>>

ReadFreqs ==
  /\ sysPc = "read"
  /\ CallStep
  /\ calm' = (calm /\ ~faults')
  /\ UNCHANGED <<sysPc, ncpus, heap, sysStatus, average>>

\* procmetrix_cpu_freqs_average
Average(block, n) ==
  [sum   |-> [f \in Fields |->
                MapThenSumSet(LAMBDA j : block[j][f], 0 .. n - 1)],
   count |-> n]

HaveFreqs == status \in {"NONE", "MORE_DATA"}

Conclude_AveragesFirst ==
  /\ sysPc = "read" /\ pc = "idle"
  /\ heap' = {}
  /\ sysPc' = "idle"
  /\ average' = IF readCount > 0 THEN Average(array, readCount) ELSE average
  /\ sysStatus' = IF ~HaveFreqs THEN status
                  ELSE IF readCount = 0 THEN "UNKNOWN" ELSE "NONE"
  /\ UNCHANGED <<freqVars, ncpus, calm>>

\* The caller's status decides, then the array is freed on every path.
Conclude ==
  /\ sysPc = "read" /\ pc = "idle"
  /\ heap' = {}
  /\ sysPc' = "idle"
  /\ \/ /\ HaveFreqs /\ readCount > 0
        /\ average' = Average(array, readCount)
        /\ sysStatus' = "NONE"
     \/ /\ HaveFreqs /\ readCount = 0
        /\ sysStatus' = "UNKNOWN"
        /\ UNCHANGED average
     \/ /\ ~HaveFreqs
        /\ sysStatus' = status
        /\ UNCHANGED average
  /\ UNCHANGED <<freqVars, ncpus, calm>>

-----------------------------------------------------------------------------
SystemInit ==
  /\ Init
  /\ sysPc = "idle"
  /\ ncpus = 0
  /\ heap = {}
  /\ sysStatus = "INVALID_ARGUMENT"
  /\ average = Nothing
  /\ calm = FALSE

SystemStep ==
  \/ CountLogical
  \/ Allocate
  \/ AllocateFails
  \/ ReadFreqs
  \/ Conclude

SystemNext == SystemHotplug \/ SystemCall \/ SystemStep

SystemSpec == SystemInit /\ [][SystemNext]_vars

-----------------------------------------------------------------------------
\* Properties

SystemTypeOK ==
  /\ TypeOK
  /\ sysPc \in {"idle", "count", "allocate", "read"}
  /\ ncpus \in 0 .. Cardinality(Cpus)
  /\ heap \subseteq {"cpu_freqs"}
  /\ heap # {} <=> sysPc = "read"
  /\ sysStatus \in {"NONE", "UNKNOWN", "OUT_OF_MEMORY", "FILE_READ",
                    "INVALID_ARGUMENT"}
  /\ average.sum \in Entry
  /\ average.count \in 1 .. Cardinality(Cpus)
  /\ calm \in BOOLEAN

TrueAverageOf(S, f) ==
  average.sum[f] * Cardinality(S) =
    average.count * MapThenSumSet(LAMBDA c : Freq[PolicyOf[c]][f], S)

Undisturbed == sysPc = "idle" /\ sysStatus = "NONE" /\ calm

Numbered == online = 0 .. Cardinality(online) - 1

\* On an undisturbed machine whose online CPUs are numbered without a gap,
\* or whose frequencies come from cpuinfo, the result is the average over
\* exactly the online CPUs.  Disturbed, it never exceeds the fastest policy:
\* partial reads and holes can only pull it down.  A call that fails leaves
\* the zeroes it wrote first, never a partial average (src/cpu.c:95-167,
\* src/linux/cpu.c:389-518).
AverageIsSound ==
  /\ Undisturbed /\ (Numbered \/ route = "cpuinfo") =>
       TrueAverageOf(online, "cur")
  /\ \A f \in Fields : \E p \in Policies :
       average.sum[f] <= average.count * Freq[p][f]
  /\ sysStatus # "NONE" => average = Nothing

\* "This is the arithmetic average of all the CPUs"
\* (include/procmetrix/cpu.h:159).
AverageOfAllCpus == Undisturbed => TrueAverageOf(online, "cur")
=============================================================================
